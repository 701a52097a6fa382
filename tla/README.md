# A TLA+ model of mqvpn

mqvpn is a VPN over multipath QUIC: packets of a TUN device travel as MASQUE
CONNECT-IP datagrams on an xquic connection that uses several network paths at
once; inner TCP connections may take a lane of their own, terminated on the client
by lwIP and continued on the server by a socket. This directory models the parts
whose correctness depends on the order in which calls, callbacks, timers, commands
and failures arrive, checks them with TLC on small instances, and proves with TLAPS,
for every value of the constants, the safety properties of the client, of the server
with its addresses and pins, of the TCP lane (the client's table, the relay of a
connection, the server's egress), of the packet path, and of what the client changes on
a Linux host and in the DNS settings of macOS.

## 1. The system

| part | state | operations | what is hard | module |
|---|---|---|---|---|
| path lifecycle (`path_state_machine.c`) | one of 8 lifecycle states per path slot, retry timer and count, xquic binding, platform binding | ten events of `path_on_event`, stability confirmation | which of xquic and the platform lets go first; the retry limit | `PathLifecycle` |
| client (`mqvpn_client.c`) | client state, connection pointer, slot table, reconnect and handshake timers | connect, disconnect, add/remove/drop/reactivate path, weights; xquic callbacks; tick | every order of API calls, callbacks and ticks; late callbacks for slots that were reused | `MqvpnClient` |
| rotation (`path_rotation.c`) | primary index | next primary for a reconnect | detached and backup paths | `MqvpnClient` |
| server (`mqvpn_server.c`) | connections, session table by inner address, session count, leases, pinned addresses, users | connection, stream and datagram callbacks, user and pin changes, tick | reconnects that overlap the old connection; responses that fail half-way; pins changed while their user is connected | `MqvpnServer` |
| address pool (`addr_pool.c`) | bitmap of used offsets, next offset | alloc, alloc at, release | exhaustion, wrap, an address released twice or never | `AddrPool` |
| reorder shim, receive side (`reorder_rx.c`) | flow table; per flow the expected number, a ring of held packets, gap timer, classifier; shared byte pool | receive, tick, eviction | lost, repeated and late datagrams; a flush that moves the window under the packet in hand; limits | `ReorderRx` |
| reorder shim, send side (`reorder_tx.c`) | table of send flows with the next number and the reset marks left | peek, commit, evict | numbers used only when the send succeeded | `ReorderTx` |
| packet path (both ends, TUN to datagram and back) | session table, back-pressure flags, room per datagram, TUN MTU, ICMP tokens, engines per connection | TUN ingress, datagram callbacks, MSS update, event loop | a refused datagram; a connection that closes while reading is stopped; an address that another connection takes over; the 8 bytes of the stamp | `DataPath` |
| hybrid TCP lane, one connection (`hybrid/tcp_lane*.c`, `tcp_egress.c`) | queues and stashes on each hop, windows, interests, half-closes | lwIP, stream and socket callbacks on both sides | back-pressure, two FINs and a reset in any order | `TcpRelay` |
| hybrid TCP lane, the client's table (`tcp_lane.c`, `lwip_glue.c`) | hash chain of flows and markers, counters, lwIP's pcbs, streams | SYN verdict, accept, teardown, sweep, lane creation and end | three owners that free each other's parts; sweeping while freeing | `TcpLane` |
| hybrid egress of the server (`tcp_egress.c`, `platform_linux.c`) | flows, per-connection and global counts, descriptors, event registry | admit, connect, time out, relay, destroy | failures after counting; descriptor numbers that come back | `TcpEgress` |
| Linux client, what it changes on the host (`tun.c`, `routing.c`, `killswitch.c`, `dns.c`) | device, routes, server pin, firewall rules, resolver file and backup | set-up command by command, clean-up, signals | a command that fails half-way, a kill, a server that moves, routes the user has | `LinuxHost` |
| Linux client, interfaces and paths (`netlink_mon.c`, `path_mgr.c`, `route_check.c`) | path table, parallel arrays, sockets, watchers, recovery timer | netlink messages, recovery, control commands | messages that are late or lost; entries that move; handles that are used again | `LinuxPaths` |
| macOS DNS override (`platform/darwin/dns.c`) | per-service DNS, backup file, two lock files | apply, rollback, restore, stale recovery | kills between commands, orphaned commands, power loss | `DarwinDns` |
| other platforms, Android | sockets, routes, TUN | as Linux | as Linux | only the queued disconnect of Android (`MqvpnClient`) |
| configuration, JSON, authentication, flow affinity hash, log | none over time | parsing, formatting | - | - |

How they interact: the platform calls the library (paths, TUN packets, tick) and is
called back (state changes, tunnel configuration, ready for TUN, path events); the
library calls xquic and is called back by it; the lane sits between TUN ingress,
lwIP and xquic; the egress between xquic and the platform's event loop.

All of the client, and all of the server, runs on one thread (the tick thread).
There is no data race to model: what interleaves is the sequence of API calls,
xquic and lwIP callbacks and timer ticks, each of them atomic. Processes interleave
with the kernel, with the commands they start and with each other where they share
files and interfaces (`LinuxHost`, `LinuxPaths`, `DarwinDns`).

## 2. Modules

`PathLifecycle` is the path state machine as operators on a slot record, one
operator per event of `path_on_event`. Times are abstracted: `recreate_after` is
1 when `recreate_after_us` is set, `path_stable` is 1 when `path_stable_us` is.
`PathInvariant` is the conjunction of the asserts of `path_invariant_check`.

`MqvpnClient` composes up to `MaxPaths` slots into the client. Its actions, one
for each API call, xquic callback and part of the tick:

| action | code |
|---|---|
| `Connect`, `Disconnect` | `mqvpn_client_connect`, `mqvpn_client_disconnect` |
| `AddPathFd`, `RemovePath`, `PlatformPathDropped`, `PlatformFdClosed`, `SetPathWeight`, `ReactivatePath` | the functions of these names |
| `HandshakeFinished`, `TunnelAccepted`, `TunnelStreamClosed`, `AddressAssigned` | the H3 and CONNECT-IP callbacks |
| `ReadyToCreatePath`, `PathRemoved`, `ConnClose` | the transport callbacks |
| `TickHandshakeWatchdog`, `TickPathRecovery`, `TickReconnect` | `mqvpn_client_tick` |

xquic is external. It is modelled by what the code sees of it: a connection that
is open or closing, the set of its paths, ids given out in order up to the
budget `MaxPathId`, and the weights it was told. It may refuse any path, lose any
path at any time and close the connection at any time. A failure of
`xqc_conn_create_path` is classified as the code does (`ActivateResult`).

`AddrPool` is the address pool as operators on a record. An address is its offset
in the subnet; offset 1 is the server's. `Free` and `AllocOffset` state the result
of the circular scan rather than its loop.

`MqvpnServer` composes the pool with the connections, the session table, the lease
table, the pins and the users:

| action | code |
|---|---|
| `H3ConnCreate`, `H3ConnClose` | `cb_h3_conn_create`, `cb_h3_conn_close` |
| `ConnectIpRequest` | `svr_connect_ip_on_request` with `svr_auth_check` and `svr_masque_send_response`; the 200 or a later capsule may fail to be sent |
| `RequestClose` | `cb_request_close` on the tunnel stream |
| `AddUser`, `RemoveUser` | `mqvpn_server_add_user`, `mqvpn_server_remove_user` |
| `SetUserFixedIp`, `ClearUserFixedIp` | `mqvpn_server_set_user_fixed_ip` with an address, with `""` |

A `svr_conn_t` that was freed may be allocated again, so a dangling table entry
would become an entry of the wrong connection. `xqc_h3_conn_close` only marks a
connection; its close callback is a later step. `AuthKey` (a global key is configured)
and `FixedIps` (the addresses the operator pins, none for a purely dynamic server) choose
the environment. Users may overlap with connections of their own and any response may
fail half-way. With pins both do harm to one address, which the history variable `marred`
records: an address that was given to a connection while another one had it (a pinned user
connected again), or that a failing response released although it was reserved before.
`MaxMarred` bounds their number in a run; the proofs do not.

`AddressAssignment` is what the server promises, with the holder of each address as
its only variable: an address is given to one connection at a time, a connection
has at most one, and at most `max_clients` are out. `MqvpnServer` instantiates it
(`Promise`) with the holder read off `assigned_ip`.

`ReorderRx` is the receive engine of the reorder shim. Its actions:

| action | code |
|---|---|
| `OnPacket` | `mqvpn_reorder_rx_on_packet` with everything below it: the flow is found or created (evicting one when the table is full), the reset mark honoured or not, the packet delivered, held or dropped, the classifier run and the flow demoted |
| `PassThrough` | the same call for a flow whose rule resolves to wait 0 |
| `Tick` | `mqvpn_reorder_rx_tick`: gap timeouts, then idle eviction |
| `RxFreeAndNew` | the engine of a connection is freed and the next connection gets a new one |

The ring is the ring of the code: slots at `seq % size`, doubling with a rehash,
`count` and `bytes` kept beside them; loops over a run or over all slots are stated by
their result. A step on a flow is a chain of operators on one record (flow, pool,
deliveries, result), named as the functions are. Clocks are left out: whether a
deadline has passed, whether a flow has been idle longer than the reset grace or the
idle timeout and which flow is the least recently used are inputs, so the model allows
every order of the time stamps and a few that no clock gives. A failing allocation is
an input too. `gaps` stands for `gap_count` less the five counters of ended periods,
the only statistics that a property is about. `out` is what the last step delivered.

`TcpRelay` is one inner TCP connection from the application to the origin: the
client's flow with its pcb, the two directions of the connect-tcp stream, the
server's flow and its socket. Bytes are numbered, every hop has the small buffer the
code sees, and each callback of `tcp_lane.c`, `tcp_lane_uplink.c` and `tcp_egress.c`
is an action (`OnLwipRecv`, `OnLwipSent`, `OnClientBody`, `OnBody`, `OnFdReady`,
`LaneTick`, ...). Faults (a reset, an idle timeout, a failed connect, a fatal error of
a relay call) and lwIP's ERR_MEM are bounded. One assumption on xquic: the close
notification of a stream that ended on both sides comes after the flow has processed
the peer's FIN and its own FIN was received.

`TcpLane` is the client's table: which inner connection goes through lwIP
(`DecideLane`, `OnSyn`), the life of a flow, the markers that keep a verdict, the
sweep that visits one entry per step (`SweepEvict`, `SweepPass`, `SweepRetry`, with its
cursor and saved next pointer in the state), and the creation and end of the lane with
the connection. One hash chain makes all keys collide; pcbs and stream objects have
lives of their own, as they are freed by lwIP and xquic.

`TcpEgress` is the server's side: admission against both caps and the access rules,
socket, registration and connect with their failures, timeouts, idle eviction, the
registry of the Linux event loop, and `FlowDestroy`, the one place a flow ends.
Descriptors are the least free numbers and stream objects are used again. The loops of
the code (the sweeps of the tick, the close of a connection, the shutdown) are one
operator on a set of flows: each turn touches only what its flow owns.

`LinuxHost` is the set-up of `cb_tunnel_config_ready` as a program counter over its
external commands; each may fail, copying and writing `resolv.conf` and opening the lock
file included, where the code goes on all the same; the process may be killed before any
of them, systemd-resolved may start or stop, and the user may have routes of his own that
`ip route replace` overwrites (`UserRoutes`). `Setup` runs the next command, and an abort
runs the clean-up the code runs on that error path. `x.p` is what the process believes,
`x.h` what the host has; a firewall rule is a triple of its owner, its kind and the server
it names, so that `Out4` and `Out6` can tell what the two OUTPUT chains let out.

`LinuxPaths` composes the platform's path table with the library's slots (the operators
of `PathLifecycle`): netlink messages wait in a buffer that may overflow
(`NetlinkMessage`), handlers look at the interface as it is when they run, the recovery
timer visits all entries (`RecoverTimer`), the control commands add and remove entries
and move the ones behind (`AddPath`, `RemovePath`). `Library` holds the library's own
steps: paths lost, retried, given up, the end of a connection (`ConnEnds`) and
`TickReconnect`. `ctx` is the program's state. New descriptors and handles are the least
numbers not in use, so neither is bounded.

`ReorderTx` has the operators of the send table, the entry that cannot be allocated
included; `DataPath` uses them in the whole
packet path of both ends, of several clients over successive connections: `Connect` (with
an address that may be another connection's, as a pinned one may, and then takes the entry
of the session table over), `ClientTunPacket` and `ServerTunPacket` (address and size
checks, ICMP answer, stamp, send, refusal), `DgramRead` (arrival, address check, hop limit
with the Time Exceeded it is answered with), `DgramWrite` (the transport has room again),
`MssUpdated`, `Closed`, `Elapse`. The peer of a connection in `Unchecked` is another
program, which sends what source it likes. `hist` is the set of datagrams accepted.

`DarwinDns` is macOS' `dns.c` step by step: each networksetup command and each step of
the backup's way to the disk (write, flush, rename, flush of the directory) is a step of
a process that may be killed there; a child may outlive it; the power may fail, which
leaves one of the versions in `durable`: until the directory was flushed, by the program or
by the system at any time (`Writeback`), that is the new backup or an older one. A backup
that is found is taken over without a flush, and removing it may fail, as in the code. A
second process may be started at any time, against the instance lock of
`platform_darwin.c`. Two ghosts tell where the promise of the code ends: `haste` (a backup
was taken over that was not durable, and then the power failed) and `edited` (the user
changed a service that the backup has).

`MCServer` adds the symmetry of connections and users for TLC.

The theorems are in `MqvpnClientProofs` (with the lemmas about `PathLifecycle`),
`MqvpnServerProofs`, `TcpRelayProofs`, `TcpLaneProofs`, `TcpEgressProofs`,
`DataPathProofs`, `ReorderRxProofs` and `HostProofs` (`LinuxHost`, `DarwinDns` and
`LinuxPaths`), each of which extends what it is about.

## 3. Runs

A property that is a conjunction has named parts, one per idea, in its module; the type
invariant of a module is one of them.

* `Client` - two slots, up to three attempts, ids 0..2, BACKUP and plain paths, every
  interleaving. The slot asserts hold in every state, retries stay in the budget and no
  path waits for an event that never comes (`SlotsSafe`); connection pointer, timers and
  TUN device agree with the state (`ConnSafe`); live slots and xquic's paths correspond
  one to one, so a late `cb_path_removed` reaches the right slot (`PathBinding`); every
  state change is in the transition table and a shutdown is final (`TransitionsValid`);
  an armed retry happens (`RetryHappens`).
* `ClientRotation` - three slots, no multipath: with two attached primaries the client
  does not stay RECONNECTING (`RotationFindsPath`), and a stalled handshake ends
  (`HandshakeEnds`).
* `ServerDynamic` - no pins: three connections of a named user and of the global key
  that overlap, fail half-way and close, while the user comes and goes, over three client
  addresses with places for two clients and a lease table that is too small. No table
  entry dangles, the counter is the size of the table, no two connections share an
  address, the pool's flags are exact (`TablesExact`), and the server implements
  `AddressAssignment` (`KeepsPromise`), the limit included.
* `ServerPinned` - pins are set, changed and cleared at any moment, while users overlap
  with their own connections and responses fail half-way, each of which may mar one
  address. A pinned address that is not marred is its user's alone, no such address in use
  is free for allocation, sessions and leases are exact, the count of sessions until the
  first address is marred (`PinsSafe`), and the connections of a removed user are closed
  if they are in the table, or their address is not marred (`RemovedUserDisconnected`).
  The pool runs out here.
* `Reorder` - two flows that evict each other from a table of one beside a key that is
  not reordered; a byte limit that two packets reach, demotion after two small packets.
  Slots, count, bytes and pool are right (`BuffersExact`), the timer runs exactly while
  packets are held and each gap period ends once (`GapPeriods`), deliveries ascend inside
  the window they move and a held packet is lost by nothing but a reset or the end of its
  flow (`DeliverySound`), and no packet is held for ever (`HeldEnds`).
* `TcpRelay` - four bytes up, two down, windows of one or two bytes, one fault: no byte
  is lost, repeated or reordered and no FIN overtakes one (`BytesExact`); windows,
  interests and the result of every lwIP callback are right (`HopContracts`); both flows
  are released (`BothReleased`); without a fault everything arrives (`AllRelayed`).
* `TcpLane` - two keys, one flow, one marker, two streams, failing creations: table,
  counters, pcbs, streams and sweep agree (`FlowsOwned`), no packet of a live connection
  leaves its lane (`LaneSticky`), dead entries are reaped (`Reaped`).
* `TcpEgress` - three connections of one flow each, two descriptors in the budget:
  counts, descriptors, events and streams agree (`FlowsSound`), each request is answered
  (`Answered`), idle flows are collected (`ParkedCollected`).
* `LinuxHost` - four option sets, three server addresses of both families, a user with
  routes of his own, one failing command, one kill, one flip of the resolver: what was set
  up is given back (`Restored`), what the firewall lets out is the tunnel, the loopback and
  the server in use (`Protected`), pin, routes and resolver are in force in every session
  (`InForce`), the set-up is given up only for a failed command or for the options
  (`SetUpSound`).
* `LinuxPaths` - two interfaces, three positions, two messages of buffer, three events
  (interface changes, failures, losses, commands): table, slots and sockets correspond
  (`Corresponds`), a dead interface loses its path (`DeadInterfaceDropped`), a usable one
  gets it back (`Recovered`).
* `DataPath` - two clients over two connections, the second with a peer that does not
  check its sources, two addresses, two flows in a table of one, three packets around the
  datagram limit, two events: numbers can be trusted (`NumbersTrusted`), nothing stamped
  goes to an end without engine (`NoBlackhole`), Packet Too Big is exact (`PtbHonest`),
  what reaches a TUN has the address given to its connection, whoever has that address now,
  has lost a hop and is answered on the same connection unless a later one took its address
  over (`RightAddress`), and reading has stopped exactly while a connection that refused a
  datagram owes the notification (`StopOwed`).
* `DarwinDns` - two services, two processes, two failing commands, one kill, two disk
  faults, one edit: the user's settings are in place or in the backup at every moment
  (`OriginalKept`), one process manages them with lock, flag and backup in agreement
  (`LockSound`), and they come back (`ComesBack`).

### Disagreements between the code and what it says

Each is stated in its module and shown by TLC with the named configuration, edited as
said, with the property as the only one (and `Spec` as the specification unless it is a
liveness property).

Client and server:

* `PROPERTY ReconnectUsesLivePath` in `ClientRotation.cfg` with `MaxPaths = 2`: with the
  primary detached and one live alternative the rotation keeps returning the detached
  path (`path_rotation.c:17`, `n_primary <= 1` returns the current index), although
  `mqvpn_client.c:3689` says "This prevents hammering a dead path when a live alternative
  exists."
* `PROPERTY TransitionsValid` in `Client.cfg` with `DeferredDisconnect = 1`: on a platform
  that queues `disconnect()` after a TUN failure (`MqvpnVpnService.kt:197`) the close
  callback takes TUNNEL_READY to RECONNECTING, against the assert at `mqvpn_client.c:472`.
* `WeightPersists` in `Client.cfg` with `Weights = {0, 1}`: the weight of a path is not
  told to xquic when the retry timer, a manual reactivation or the bootstrap creates the
  path, although `libmqvpn.h:664` says "Persists across path reconnects".
* `SlotInvariant` in `Client.cfg` with `ConnectFrom = {"IDLE", "RECONNECTING"}`:
  `connect()` from RECONNECTING is accepted and starts on slots that `tick_reconnect`
  would have reset, which `path_invariant_check` asserts against.
* `BackupStandsBy` in `Client.cfg`: BACKUP paths carry traffic beside primaries, although
  `libmqvpn.h:374` says "only used when all primary paths are unavailable"; the functions
  that would hold them back (`client_check_failover`, `client_create_standby_path`) have
  no caller.
* `PROPERTY BudgetReconnects` in `Client.cfg` (`FairSpec`): a slot given up for the path
  budget stays closed; the "clean reconnect" of the comment at `mqvpn_client.c:836` is in
  a function without caller.
* `SessionCount` in `ServerPinned.cfg`: a pinned user reconnects before
  the old connection is gone; the table entry is overwritten, the counter incremented
  (`mqvpn_server.c:1000`), and never decremented for the old connection, while
  `docs/control-api.md:220` calls it "Number of currently connected clients".
* `PinnedExclusive` and `HeldIsUsed` in `ServerPinned.cfg`: a response to a pinned user
  that fails half-way releases the pinned address (`mqvpn_server.c:1041`), which
  `README.md:248` says is "never assigned to other clients".
* `RemovedUserGone` in `ServerPinned.cfg`: the older connection
  of a pinned user is not in the table, so it survives the removal of the user
  (`mqvpn_server.c:2787`, "Disconnect active sessions for the removed user").
* `PoolExact` in `ServerPinned.cfg`: a pin that is cleared while its user is connected on
  another address is never released (`libmqvpn.h:824`, "address returns to the dynamic
  pool").
* `PROPERTY PinSticks` in `ServerPinned.cfg`: a fixed address that cannot be reserved costs
  the user the one he had; setting the same address again while connected is such a case
  (`mqvpn_server.c:2872`).
* `FlowBytesKept` in `Reorder.cfg` with `Keys = {k1}`, `ZeroWait = {}`, `Cap = 8`,
  `MaxSeq = 7`, `PoolBytes = 9` and `SPECIFICATION Spec`: a packet that finds its flow at
  the byte limit is admitted after one flush without a second look at the limit
  (`reorder_rx.c:903`), where `:875` says "caller falls through to a fresh limit/pool
  admit" and `reorder.h:408`
  "per-flow byte limit".

Packet path (`DataPath.cfg`):

* `StopIsTemporary`: `platform_linux.c:433` stops reading the TUN "until ready_for_tun
  callback", which only the connection that refused can give; when it closes first the
  flag stays, on the server for all clients.
* `EstablishedIsReached`: a second connection with a pinned address takes the entry of the
  first over ("Register in session table", `mqvpn_server.c:996`); when the second one closes
  the first is still established and no packet reaches it.
* `StampFits` with `V6Clients = {}`: `mqvpn_client.c:1591` takes the 8 bytes of the stamp off
  the MTU ("the usable inner MTU shrinks by 8"); `cb_dgram_mss_updated` (1991-2013) sets it
  without them.

Linux (`LinuxHost.cfg`, `LinuxPaths.cfg`):

* `PROPERTY TermEnds` in `LinuxHost.cfg`: after a set-up that was given up the client is
  CLOSED already, `mqvpn_client_disconnect` changes nothing (`mqvpn_client.c:2830`), and
  the loop is not broken, although `platform_linux.c:493` says "state_changed callback
  will call event_base_loopbreak on CLOSED". The same after a connection that was closed
  under `--no-reconnect`.
* `AllBlocked` in `LinuxHost.cfg`: `killswitch.c:7` says "Blocks all traffic outside the VPN
  tunnel"; with an IPv4 server and a tunnel without IPv6 no rule of ip6tables is set (`:97`).
* `PROPERTY BlockedOnDrop` in `LinuxHost.cfg`: on the way to RECONNECTING the clean-up takes
  the rules away, although `scripts/ci_e2e/run_killswitch_test.sh:4` says that the kill
  switch blocks "when the VPN connection drops" (its test runs with `--no-reconnect` and
  does not see it).
* `PROPERTY PinnedToStart` in `LinuxHost.cfg`: `platform_linux.c:308` says that kill switch
  and routing "are pinned to the address resolved at startup", and warns that a restart is
  needed; in fact the clean-up of the connection that dropped has taken both away and the
  next set-up takes the new address, which is what `Protected` and `InForce` show.
* `PROPERTY UserRoutesKept` in `LinuxHost.cfg`: `ip route replace` (`routing.c:308`, `:330`)
  overwrites a route the user has for the same destination, and the clean-up deletes it;
  the comment at `routing.c:394` speaks of "stale routes from a previous session" only.
* `KillSwitchAlone` in `LinuxHost.cfg`: with `no_routes` the server's address, which only
  the route set-up fills in, is empty and the kill switch fails, although
  `platform_linux.c:132` says "killswitch and DNS overrides remain independently
  controllable".
* `ResolvConfKept` in `LinuxHost.cfg`: after a kill the next process backs the VPN's
  `resolv.conf` up over the user's.
* `NothingLeaked` in `LinuxPaths.cfg` (`SPECIFICATION PathsSpec`): `netlink_mon.c:388` re-adds an
  entry that is reported CLOSED although its slot is CLOSED_RECOVERABLE and its socket
  open; the comment at `:401` takes CLOSED for "DROPPED or FREE".
* `AttachedCounterClear` in `LinuxPaths.cfg` (`SPECIFICATION PathsSpec`, `MaxEvents = 4`): the
  failure counters are not moved with the entries, so a path may start with another's
  count (`platform_internal.h:42`, "Reset on success").

macOS (`DarwinDns.cfg`, `SPECIFICATION DnsSpec`):

* `DurableBackup`: a backup whose directory flush failed or was
  interrupted is taken over by the next apply and never flushed again (`dns.c:839-860`); a
  power loss may then take the only record. `dns.c:865` says "never mutate a single
  service's DNS without a valid, durable, authoritative backup on disk".
* `EditsKept`: a backup that was left behind overrides what the user has set since.

### Observations without a claim to check

* A handshake that completes and a CONNECT-IP request that fails leave the client
  AUTHENTICATING without a timer; a tunnel stream that is closed leaves it ESTABLISHED
  without a tunnel (`TunnelStreamClosed`).
* On an abort the server's `close(fd)` gives the origin an ordinary FIN. A SYN refused by
  a cap goes RAW without a marker. `LaneFree`'s own aborts find nothing to do, since
  xquic closes the requests first.
* A failing `event_new` while an active egress flow is registered again leaves it without
  events until its idle timeout.
* Linux: a DROP rule of a killed process
  stays; a failed copy of `resolv.conf` does not stop the override, after which nothing
  brings the user's file back (`uncopied`); when systemd-resolved
  starts or stops between apply and restore the wrong one of the two is undone; the
  recovery timer passes over an entry whose handle was given up; an address lost
  while the link is dormant goes unseen (`blind`).
* A downlink packet loses a hop on each end, an uplink one on the server only; the packet
  that meets a full queue is dropped; the client's Time Exceeded is not rate limited.
* macOS: `release_lock` closes before it unlinks, which would let two processes hold the
  lock; only the instance lock prevents it. The lock descriptor that networksetup inherits
  is what keeps an orphan from changing a service after the next process has restored it.

### Bounds

Two slots let one be bound while the other is reused, and ids 0..2 let a path fail with
the budget used up; three attempts reach the retry limit and cross it. A path that loses
its id gets a new one, so more ids only repeat the same cases. Three slots are needed
where the rotation has to skip one.

For the server, two connections compete for an address and a third finds the limit
reached (`ServerDynamic`) or the pool empty (`ServerPinned`); two names are needed for an
address to pass from one to the other: `alice` and the global key in `ServerDynamic`,
where one lease fills the table, two users in `ServerPinned`. There the two client
addresses can both be pinned, and `MaxMarred = 1` leaves the other one to show that it is
not affected.

For the receive engine, a ring of four slots that grows from 1 and numbers 0..6 let a flow
hold two packets with a hole between them at every position of the ring; packets of 2 and
3 bytes are one small and one large one for the classifier, and make "full" and "one too
many" different at a limit of 5. With these values the flow's limit
is met before the pool's. The pool's own flush is met with `PoolBytes = 4`, and both in
one packet with `Cap = 8` (two holes are needed, so that a flush leaves something behind);
the four properties hold there too. `Cap = 4` stays in the configuration because a packet
too far ahead of the window needs numbers larger than `Cap`.

In `TcpRelay` every buffer is smaller than what is sent, so each hop fills; four bytes
up cross the high and the low water mark twice. In `TcpLane` the second key finds the
table full, in `TcpEgress` the third connection finds the budget used up and each
descriptor number is used again. `LinuxPaths` needs three events for a loss, a failing
recovery and a second loss, and a third position for an entry to move. In `LinuxHost` the second session, with another
server, finds what the failing command or the kill of the first left. In `DataPath` two
flows share a table of one, so each evicts the other; lengths 3 and 5 with room for 4 are
one that fits with the stamp and one that does not; two connections are enough for one to
take over the other's address and for a flag that outlives the connection. In `DarwinDns`
the second process finds what the killed one left, and two disk faults are a flush that
fails and the power loss after it.

### Fairness

The event loop of each platform sleeps at most until the timer of
`mqvpn_client_get_interest`, so a tick action that stays enabled is taken (weak fairness
on the watchdog and the retries); xquic reports the end of a connection that was closed;
and `xqc_h3_connect` does not fail for ever (strong fairness on a reconnect that
succeeds). For the receive engine, client and server call its tick from every tick of
their own, so an armed gap timer fires. `TcpRelay`: the event loops and the two peers do
not all stop while something is left to do; each step moves something forward. `TcpLane`
and `TcpEgress`: the tick goes on, and xquic finishes requests that were closed.
`LinuxHost` (for `TermEnds`
only): a command ends. `LinuxPaths`: messages are read, the armed timer fires without
a failure some time, and xquic lets go of a dropped path. `DarwinDns`: a process goes on,
networksetup ends, a user ends a connection some time and starts mqvpn again. Where the
enabling condition of a weak fairness is costly to evaluate it is written out.

## 4. Proofs

`MqvpnClientProofs` proves each safety property of run `Client` (`SlotsSafe`, `ConnSafe`,
`PathBinding`, `TransitionsValid`), for every value
of the constants that satisfies the assumptions, with `ConnectFrom = {"IDLE"}`
(an application that leaves the reconnect to the library) and, for
`TransitionsValid` and `TunOnlyEstablished`, `DeferredDisconnect = 0`. Neither
hypothesis can be dropped: see `SlotInvariant` and `TransitionsValid` among the
disagreements of section 3. `SlotsAreSafe` and `ConnIsSafe` combine the theorems about
the parts; `ShutdownFinal` needs no hypothesis on the platform.

None of the properties is inductive alone. The inductive invariant is

    Inv == ControlType /\ SlotsOK /\ ControlInv /\ BindingInv

`ControlType` types the scalars; `SlotsOK` says that every slot is well formed,
satisfies the asserts and the retry budget, and that slots beyond `n_paths` are
fresh; `ControlInv` ties state, connection pointer, timers and xquic's connection
together; `BindingInv` is the correspondence of slots and xquic paths together
with "every path id is below `xq_next`", which is what makes a new id different
from the bound ones. The lemmas about `PathLifecycle`, one per event, say that it keeps a
slot well formed and inside the asserts. `NextInv` has one step per action.

`MqvpnServerProofs` proves for every pool size, number of connections, users,
leases and `max_clients`:

* in every configuration, pins, overlaps and failing responses included:
  `TypeOK`, `NoDanglingSession` and `LeaseUnique`. The inductive invariant is

      SafeInv == TypeOK /\ NoDanglingSession /\ AddressNeedsRequest
                 /\ CountCovers /\ LeaseInv

  `AddressNeedsRequest` (only a connection that made its request has an address)
  is why a request never moves a connection that is in the table; `CountCovers`
  (the counter is at least the size of the table) is why `n_sessions--` stays a
  natural number although `SessionCount` itself fails with pins; `LeaseInv` adds to
  `LeaseUnique` that the used entries come first, which is why "first entry that is
  empty or mine" finds the user's own.
* with `FixedIps = {}`: `AddressExclusive`, `SessionCount`, `PoolExact` and the
  refinement `KeepsPromise`; `TablesAreExact` combines them. The inductive invariant adds to `SafeInv` that every
  connection with an address is in the table (`Registered`), that the pool's flags
  are the table (`UsedIsTable`) and `SessionCount`. Then the holder of an address
  is its table entry (`HolderIsTable`), and every step leaves the table alone,
  adds one entry below the limit or removes one (`TableStepRefines`).
* with pins, overlaps and failing responses: `PinsSafe`, without a hypothesis; and with
  `AuthKey = 0`: `RemovedUserDisconnected`. The inductive invariant is

      PinInv == SafeInv /\ RegisteredBut(marred) /\ CountUntilMarred
                /\ PinnedExclusiveBut(marred) /\ HeldIsUsedBut(marred)

  `RegisteredBut` says that a connection is in the table unless its address is marred.
  Only a request mars an address (`RequestMars`), and only the one it gives out; so the
  rest of a request is shown for an address that stays clean (`AdmittedPins`), which is
  nobody else's. Section 3 shows that the exceptions are needed, and that `PoolExact`
  fails with pins. With a global key a connection
  may bear a name that never was a user's, hence `AuthKey = 0`.

`TcpEgressProofs` proves `FlowsSound` for every number of connections, streams and
descriptors and every cap, budget and timeout. The handlers are compositions of operators
on one record, so the invariant is a predicate of the record,

    SoundBut(x, N) == x \in World /\ FdIffLive(x) /\ Counted(x) /\ Owned(x) /\ Fresh(x)
                      /\ Polled(x, N) /\ Outlives(x)

with one lemma per operator; `N` holds the flow that `StartConnect` has made and not yet
registered. `Counted` gives both counters as cardinalities with their caps, `Owned` makes
descriptors and flows correspond, and `FdIffLive` (a flow that is gone has descriptor 0)
is what makes an entry of the registry point to a live flow (`Fresh`). `RoomLeft` is the
argument behind "the registry never refuses an admitted flow": the entries map injectively
to the other flows, of which the budget admitted fewer than it has places.

`TcpRelayProofs` proves `BytesExact` and `HopContracts` for every number of bytes and
faults and every window, buffer size, chunk and water mark (with `LowWater <= HighWater`
and `Mss <= SndBuf`, as the constants of the code have it). A handler works on a record of
its own side, so the invariant is

    Sides == ClientOK /\ Waits /\ ServerOK /\ Interest /\ FinsMeant /\ UpWhole /\ DownWhole

and every operator has a lemma: it keeps the predicate of its side, and the concatenation
of the buffers it moves bytes between. `UpWhole` and `DownWhole` are the two equations over
all buffers of a direction. They say more than `BytesExact`: a direction stays whole after
the flow of a side was released, if that side has sent or seen the FIN, and that is why a
FIN at the far end still means that all bytes are there. `ClientOK` and `ServerOK` are what
the pumps rely on: a side is paused exactly while a chunk is in its stash, withheld window
equals the credit lwIP is owed, a FIN was sent only from an empty queue and is passed on
only from an empty stash. `Waits` and `Interest` hold at the end of a callback and not
inside it, so they are conjuncts of their own; the lemmas show that the last call of each
handler restores them.

`TcpLaneProofs` proves `FlowsOwned` and `LaneSticky` for every set of keys and streams,
every subnet and mode and every cap and timeout. The invariant is

    LaneInv == Consistent(w) /\ Admitted(w, lane) /\ Walks(w, cur, nxt)

`Consistent` is what a handler may assume of the lane: the chain lists each entry once, the
counters are the sizes of the three populations and within their caps, open streams and
flows correspond one to one, and of every key (`KeyOK`) that a flow has a pcb and a stream
exactly between lwIP's accept and its end, and that a connection on the RAW lane has a
marker with its own initial sequence number. The last part is what `LaneSticky` needs and
does not say: a marker may be evicted and a tuple used again, and it is the number in the
marker that tells the new connection from the old. `Admitted` (an entry exists only with a
lane, and only for what the classifier gives to it) excludes that a connection is sent to
RAW with an entry left. `Walks` (the sweep holds two different entries) is why evicting the
current one leaves the saved one in the table. The sweep's own evictions, the eviction of
the oldest marker and the teardown reached from four callbacks share the lemmas about
`RemoveFlow` and `TeardownFlow`.

`DataPathProofs` proves `NumbersTrusted`, `NoBlackhole`, `PtbHonest`, `RightAddress` and
`StopOwed` for every number of clients, connections, addresses and flows, every table size,
number of reset marks, idle time and MTU setting. The inductive invariant is

    PathInv == DataInv /\ SessInv /\ StopInv

`DataInv` types the state,
ties the engines of both ends to what they negotiated, says of every datagram that it
belongs to a connection that was established (`Travels`), that no two
have the same place in the history, and (`Numbered`, `Agrees`) that the entry of a flow
counts on from the last datagram the transport accepted, and that a flow without an entry
has sent nothing for longer than the idle time; this last part is why a table that evicts
only idle flows never starts a count again too early. `SessInv` says that an entry of the
session table is an established connection with that address, and that an established
connection without its entry lost it to a later one; it is what `RightAddress` needs, as
addresses are shared. `StopInv` adds to `StopOwed` that at most one connection behind a
flag owes the notification: who has stopped reading sends nothing more that could be
refused. `PtbHonest` is not carried by an
invariant: it is arithmetic on the limits of one step, and needs the relations between
header length, minimal MTU and the cap that `mqvpn_config.c` enforces (`PathAssumption`).

`HostProofs` proves for `LinuxHost` `SetUpSound`, `Restored`, `Protected` and `InForce` for
every set of option sets, servers and user routes and any number of failing commands, kills
and flips. The inductive
invariant `HostInv` says, per resource and per position in the set-up, that what the host
has of this process is what its records make the clean-up remove: `RulesTracked`,
`PinsTracked`, `LinkTracked`, `DnsTracked`; `AddressNoted` is why rules and pin have the
address of the server in use now. `Protected` follows from the rules of this process that
are there (`RulesTracked`) and from what a chain with them lets out, whatever other rules
processes that were killed have left in it.

For `DarwinDns` it proves, for every number of processes, services and faults and without
a hypothesis, `LockSound`
(`LockInv`: the instance lock is held by the process that runs, the inode an orphan or a
process has locked is the one at the path) and `OriginalKept`. The invariant `KeptInv` of
the latter says that every version of the backup a power loss may leave is right, that the
backup covers every service that has or will have another setting than the user's, all
versions of it unless one was taken over too early, and that each loop still has before
it, or has passed, the services concerned (`Tracks`). The services in `edited` are left
out, and all of it once a power loss has hit a backup that was taken over too early
(`Kept`); section 3 shows that neither exception can be dropped.

For `LinuxPaths` it proves `Corresponds` and `DeadInterfaceDropped` for every number of
interfaces, paths and buffered messages, every limit of retries and any number of events.
The inductive invariant is

    PathsInv == CtxFine(ctx) /\ MonitorType /\ LossAnnounced

`CtxFine` is a predicate of the program's record: no two slots and no two entries have one
handle, no two attached slots one socket, the sockets of attached slots are open, an entry
has a socket exactly if it is attached, and then a watcher and a slot of the library for
just that handle and socket. It does not say that every attached slot has an entry, which
is false (`NothingLeaked` in section 3). An operator on the library's slots moves them
without attaching or detaching any (`AllMove`), detaches the slots of one handle
(`Detaches`) or adds one (`Adds`); one lemma for each says what that does to slots and
entries. The loops over the table are recursive functions; `LoopExists` shows that the
function exists, `LoopFine` by induction on the entries visited that each visit starts from
a record that is `CtxFine`, and that an entry without a socket got one only on a healthy
interface (`Follows`). `LossAnnounced` is why `DeadInterfaceDropped` holds: of an
interface that is lost while it has a path the buffer holds a message that will drop the
path, until that message is handled. It is kept although handlers look at the interface
as it is now: a handled loss of a link drops whatever it is now, a loss of address may be
skipped only if the link is lost too, and then the link's own message is still to come.

`ReorderRxProofs` proves `BuffersExact`, `GapPeriods` and `DeliverySound` for every set of
flows, every ring size, packet size, byte limit and pool, and every classifier setting. The
inductive invariant, which holds between two calls of the engine, is

    RxInv == table and pool within their limits, a flow outside the table is new,
             every flow in it is FlowOK, pool = the sum of what the flows hold

`FlowOK` has the parts: `Placed` (every packet held is in the slot of its number, in a
window of the ring's size that begins at `expected`), `Counted` (count and bytes are those
of the packets), `Settled` (`expected` itself is not held) and `Full` (timer and packets go
together). The parts are needed for each other. Two numbers of one window never share a
slot, so an insertion loses nothing and growth by rehashing is a bijection; `Settled` is
what makes a drain that stopped have stopped at a hole, and the next packet in order meet
an empty slot. Inside a call `Settled` and `Full` do not hold, so the operators are shown
to keep a weaker predicate (`Going`), which also records the delivery: what was handed up
so far is ascending and lies below `expected`, and every packet held at the start is held
still or handed up. `DeliverySound` is what it says at the end of a call. `Kept` is
`Going` with the other two again.

The bytes are sums over the packets, and the pool is a sum over flows of such sums. The
library's induction theorems take a predicate as a parameter, but the well-foundedness of
`<` on numbers is stated with sets: a set of naturals that is not empty has a least
element, so a set that contains 0 and successors is all of them (`Induct`). With the set of
those n for which the claim holds of all sets of size n this gives what is needed of sums:
an element can be split off (`SumPeel`), a set can be split in two (`SumSplit`, `SumDiff`),
and a sum of naturals is a natural that is not below any part of it. A delivered run is not
a recursion but a set, the packets below the first hole, in ascending order.

TLC checked each inductive invariant on the instance of the run before it was proved.

Every safety property of a run is proved. Only model-checked:

* liveness (`RetryHappens`, `RotationFindsPath`, `HandshakeEnds`, `HeldEnds`,
  `BothReleased`, `AllRelayed`, `Reaped`, `Answered`, `ParkedCollected`, `Recovered`,
  `ComesBack`): TLAPS does not prove properties under fairness.

## 5. Not modelled, and why

* Packet contents: parsing of headers, hashes of five-tuples, capsule and header-block
  encoding. Flows and addresses are model values.
* Flow affinity (`flow_sched.c`): a hash of headers without state; which path a flow is
  pinned to is decided inside xquic's scheduler, which is a submodule without its code.
* More than one CONNECT-IP request on a connection: the client in this repository sends
  one.
* `mqvpn_server_destroy` beyond the egress flows: nothing runs after it.
* In the reorder shim: the latency histogram and the drop counters, which nothing reads
  back; the wrap of the 48-bit sequence number, which `reorder.h` leaves unhandled on
  purpose; the evaluation knob that switches demotion off (`Window = 0` does the same).
* Parsers, configuration setters, command line, control socket I/O, status text: no
  behaviour over time.
* Routes, kill switch, TUN and the PF_ROUTE monitor of macOS and all of Windows: the
  counterparts of what `LinuxHost` and `LinuxPaths` model, with other commands; and the
  Android service except for its queued disconnect.
* A failing `event_new` in `netlink_mon.c:438`: its result goes to `event_add` unchecked, so
  the process ends there.
* Commands that delete are taken to succeed when there is something to delete; a server's
  TUN device whose address cannot be set is not destroyed, which the models of the client
  do not cover.

## 6. Plan

In this order:

1. `DataPath` over a channel that loses, repeats and reorders with `ReorderRx` at its end.
   Abstract specification: what comes out is a subsequence of what went in, in order as
   long as no gap was given up, each packet at most once.
2. The PF_ROUTE monitor of macOS beside `LinuxPaths`.
