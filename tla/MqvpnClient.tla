----------------------------- MODULE MqvpnClient -----------------------------
(***************************************************************************)
(* The client library of mqvpn (src/mqvpn_client.c): the connection state  *)
(* machine, the table of path slots, the reconnect and handshake-watchdog  *)
(* timers, and the calls and callbacks that drive them.                    *)
(*                                                                         *)
(* Everything runs on the tick thread, so an API call, an xquic callback   *)
(* and a tick are atomic steps; the interleaving of these three is the     *)
(* subject of the module.  mqvpn_client_tick is three actions, one for     *)
(* each of its parts that changes state: their guards exclude each other   *)
(* (CONNECTING, ESTABLISHED, RECONNECTING), so a tick takes one of them    *)
(* and passes the others.  The engine's callbacks run inside the tick and  *)
(* are actions of their own.                                               *)
(*                                                                         *)
(* A path handle names the occupant of a slot and is never given out       *)
(* twice, so the calls take the slot; a call with a handle that has no     *)
(* slot any more returns an error and changes nothing.                     *)
(*                                                                         *)
(* xquic is external: xq is the transport connection behind c->conn,       *)
(* xq_paths the paths it has, xq_next the next path id it will give out.   *)
(***************************************************************************)
EXTENDS PathLifecycle, FiniteSets

CONSTANTS
    MaxPaths,           \* MQVPN_MAX_PATHS
    ReconnectEnable,    \* config.reconnect_enable, 0 or 1
    Multipath,          \* config.multipath, 0 or 1
    BackupFec,          \* 1 iff config.scheduler = MQVPN_SCHED_BACKUP_FEC
    Flags,              \* values of the BACKUP flag of added paths
    DeferredDisconnect, \* 1: a platform that queues disconnect() when the TUN
                        \* device cannot be made (Android); 0: it calls it at once
    ConnectFrom         \* client states in which the application calls connect()

ASSUME MaxPathsAssumption == MaxPaths \in Nat \ {0}
ASSUME ConfigAssumption ==
    /\ ReconnectEnable \in {0, 1} /\ Multipath \in {0, 1} /\ BackupFec \in {0, 1}
    /\ Flags \subseteq {0, 1} /\ DeferredDisconnect \in {0, 1}
    /\ ConnectFrom \subseteq {"IDLE", "RECONNECTING"}

VARIABLES
    state,                  \* c->state
    conn,                   \* c->conn: 0 is NULL
    paths,                  \* c->paths
    n_paths,                \* c->n_paths
    multipath_ready,        \* c->multipath_ready
    primary_path_idx,       \* c->primary_path_idx
    reconnect_scheduled,    \* c->reconnect_scheduled_us, 0 or 1
    handshake_started,      \* c->handshake_started_us, 0 or 1
    shutting_down,          \* c->shutting_down
    tun_active,             \* c->tun_active
    masque,                 \* conn's CONNECT-IP request: none, sent, ok or closed
    xq,                     \* the xquic connection: none, open or closing
    xq_paths,               \* ids of its paths
    xq_next,                \* next id of xqc_conn_create_path
    xq_weight               \* weights xquic was told, per path id

connVars  == <<state, conn, reconnect_scheduled, handshake_started, shutting_down,
               tun_active, masque>>
slotVars  == <<paths, n_paths, multipath_ready, primary_path_idx>>
xquicVars == <<xq, xq_paths, xq_next, xq_weight>>
vars      == <<connVars, slotVars, xquicVars>>

Slots  == 0 .. MaxPaths - 1
Used   == 0 .. n_paths - 1          \* the range of every loop over c->paths
States == {"IDLE", "CONNECTING", "AUTHENTICATING", "TUNNEL_READY", "ESTABLISHED",
           "RECONNECTING", "CLOSED"}

-----------------------------------------------------------------------------
(* Client state *)

(* state_transitions, the table client_set_state asserts. *)
Successors ==
    [s \in States |->
        CASE s = "IDLE"           -> {"CONNECTING"}
          [] s = "CONNECTING"     -> {"AUTHENTICATING", "RECONNECTING", "CLOSED"}
          [] s = "AUTHENTICATING" -> {"TUNNEL_READY", "RECONNECTING", "CLOSED"}
          [] s = "TUNNEL_READY"   -> {"ESTABLISHED", "CLOSED"}
          [] s = "ESTABLISHED"    -> {"RECONNECTING", "CLOSED"}
          [] s = "RECONNECTING"   -> {"CONNECTING", "CLOSED"}
          [] s = "CLOSED"         -> {}]

(* client_set_state in a build with NDEBUG: the assert is the property     *)
(* TransitionsValid below.  The platforms' cb_state_changed destroys the   *)
(* TUN device on RECONNECTING and CLOSED; Android's does nothing.          *)
SetState(s) ==
    /\ state' = s
    /\ handshake_started' = IF s = state THEN handshake_started
                            ELSE IF s = "CONNECTING" THEN 1
                            ELSE IF state = "CONNECTING" THEN 0
                            ELSE handshake_started
    /\ tun_active' = IF s # state /\ s \in {"RECONNECTING", "CLOSED"} /\ DeferredDisconnect = 0
                     THEN 0 ELSE tun_active

-----------------------------------------------------------------------------
(* Path rotation *)

(* Mutant: the walk starts at the current path. *)
RotateStays(cur, primaries, n) == cur

(* mqvpn_rotate_primary_path, on the set of the paths without BACKUP. *)
RotatePrimaryPath(cur, primaries, n) ==
    IF n <= 1 \/ Cardinality(primaries) <= 1
    THEN cur
    ELSE LET dist(i) == (i - cur - 1 + n) % n
         IN  CHOOSE i \in primaries : \A j \in primaries : dist(i) <= dist(j)

-----------------------------------------------------------------------------
(* Creating xquic paths *)

(* Ids xqc_conn_create_path returns when it is called for the slots of ok  *)
(* in increasing order.                                                    *)
NewId(ok, i) == xq_next + Cardinality({j \in ok : j < i})

(* The calls can succeed on an open connection within its path budget. *)
CanCreate(ok) == ok # {} => xq = "open" /\ xq_next + Cardinality(ok) - 1 <= MaxPathId

CreatePaths(ok) ==
    /\ xq_paths' = xq_paths \cup {NewId(ok, i) : i \in ok}
    /\ xq_next' = xq_next + Cardinality(ok)

(* activate_pending_paths: client_activate_path on every PENDING slot, with *)
(* res the classified result of each call.                                  *)
Pending(ps, n) == {i \in 0 .. n - 1 : ps[i].state = "PENDING" /\ ps[i].xquic_path_live = 0}

ActivatePendingPaths(ps, n, res) ==
    LET pend == Pending(ps, n)
        ok   == {i \in pend : res[i] = "OK"}
    IN  /\ CanCreate(ok)
        /\ CreatePaths(ok)
        /\ paths' = [i \in Slots |->
                        IF i \in pend
                        THEN OnActivateRequested(ps[i], res[i], NewId(ok, i))
                        ELSE ps[i]]
        /\ xq_weight' = [id \in PathIds |->
                            IF \E i \in ok : NewId(ok, i) = id /\ ps[i].weight > 0
                            THEN ps[CHOOSE i \in ok : NewId(ok, i) = id].weight
                            ELSE xq_weight[id]]
        /\ xq' = xq

-----------------------------------------------------------------------------
(* Connecting *)

(* The guard of cli_start_connection. *)
PrimaryUsable(ps, idx) ==
    (n_paths > 0 /\ idx < n_paths) => ps[idx].platform_attached = 1 /\ ps[idx].fd >= 0

(* The rest of cli_start_connection, when xqc_h3_connect succeeds: xquic   *)
(* makes path 0, which becomes the primary slot's.                         *)
StartConnection(ps, idx) ==
    /\ PrimaryUsable(ps, idx)
    /\ conn' = 1
    /\ masque' = "none"
    /\ xq' = "open"
    /\ xq_paths' = {0}
    /\ xq_next' = 1
    /\ xq_weight' = [id \in PathIds |-> 0]
    /\ paths' = IF n_paths > 0 /\ idx < n_paths
                THEN [ps EXCEPT ![idx] = [@ EXCEPT !.xqc_path_id = 0,
                                                   !.xquic_path_live = 1,
                                                   !.state = "VALIDATING"]]
                ELSE ps

(* mqvpn_client_connect; a failing one changes nothing. *)
Connect ==
    /\ state \in ConnectFrom
    /\ "CONNECTING" \in Successors[state]
    /\ StartConnection(paths, primary_path_idx)
    /\ SetState("CONNECTING")
    /\ UNCHANGED <<n_paths, multipath_ready, primary_path_idx, reconnect_scheduled,
                   shutting_down>>

(* mqvpn_client_disconnect *)
Disconnect ==
    /\ state \notin {"CLOSED", "IDLE"}
    /\ shutting_down' = 1
    /\ xq' = IF conn = 1 THEN "closing" ELSE xq
    /\ SetState("CLOSED")
    /\ UNCHANGED <<conn, reconnect_scheduled, masque, slotVars, xq_paths, xq_next, xq_weight>>

-----------------------------------------------------------------------------
(* Calls of the platform on paths *)

(* Mutant: the test of xquic_path_live is dropped. *)
ReusableWhileBound == {i \in Used : /\ PublicStatus(paths[i].state) = "CLOSED"
                                    /\ paths[i].platform_attached = 0}

(* The slot mqvpn_client_add_path_fd_with_outcome takes: the first closed, *)
(* detached one without an xquic path, else a new one.                     *)
Reusable == {i \in Used : /\ PublicStatus(paths[i].state) = "CLOSED"
                          /\ paths[i].platform_attached = 0
                          /\ paths[i].xquic_path_live = 0}

AddSlot == IF Reusable = {} THEN n_paths
           ELSE CHOOSE i \in Reusable : \A j \in Reusable : i <= j

AddPathFd(flag, weight) ==
    LET idx == AddSlot
        n   == IF idx = n_paths THEN n_paths + 1 ELSE n_paths
        ps  == [paths EXCEPT ![idx] =
                   OnAddFd([PathEntryInit EXCEPT !.fd = 0, !.backup = flag, !.weight = weight])]
    IN  /\ idx < MaxPaths
        /\ n_paths' = n
        /\ IF multipath_ready = 1 /\ Multipath = 1 /\ conn = 1
           THEN \E res \in [Pending(ps, n) -> ActivateResult] : ActivatePendingPaths(ps, n, res)
           ELSE paths' = ps /\ UNCHANGED xquicVars
        /\ UNCHANGED <<connVars, multipath_ready, primary_path_idx>>

(* mqvpn_client_remove_path.  Path 0 is not closed alone: the connection   *)
(* is, and also when xqc_conn_close_path fails (failed = 1).               *)
RemovePath(i, failed) ==
    LET p == paths[i]
        bound == p.xquic_path_live = 1 /\ conn = 1
    IN  /\ p.state # "CLOSED_FREE"
        /\ xq' = IF bound /\ (p.xqc_path_id = 0 \/ failed = 1) THEN "closing" ELSE xq
        /\ paths' = [paths EXCEPT ![i] = OnDrop(p)]
        /\ UNCHANGED <<connVars, n_paths, multipath_ready, primary_path_idx, xq_paths,
                       xq_next, xq_weight>>

(* mqvpn_client_on_platform_path_dropped (and mqvpn_client_drop_path): the *)
(* result of xqc_conn_close_path is ignored.                               *)
PlatformPathDropped(i) ==
    /\ paths' = [paths EXCEPT ![i] = OnDrop(paths[i])]
    /\ UNCHANGED <<connVars, n_paths, multipath_ready, primary_path_idx, xquicVars>>

(* mqvpn_client_on_platform_fd_closed *)
PlatformFdClosed(i) ==
    /\ paths' = [paths EXCEPT ![i] = OnFdClosed(paths[i])]
    /\ UNCHANGED <<connVars, n_paths, multipath_ready, primary_path_idx, xquicVars>>

(* mqvpn_client_set_path_weight *)
SetPathWeight(i, w) ==
    LET p == paths[i] IN
    /\ paths' = [paths EXCEPT ![i].weight = w]
    /\ xq_weight' = IF p.xquic_path_live = 1 /\ conn = 1
                    THEN [xq_weight EXCEPT ![p.xqc_path_id] = w] ELSE xq_weight
    /\ UNCHANGED <<connVars, n_paths, multipath_ready, primary_path_idx, xq, xq_paths, xq_next>>

(* reactivate_slot_eligible *)
ReactivateEligible(p) ==
    /\ p.xquic_path_live = 0
    /\ p.platform_attached = 1
    /\ p.state \in {"DEGRADED", "CREATE_WAIT", "CLOSED_RECOVERABLE"}

(* mqvpn_client_reactivate_path *)
ReactivatePath(i, result) ==
    LET ok == IF result = "OK" THEN {i} ELSE {} IN
    /\ state = "ESTABLISHED"
    /\ multipath_ready = 1
    /\ ReactivateEligible(paths[i])
    /\ CanCreate(ok)
    /\ CreatePaths(ok)
    /\ paths' = [paths EXCEPT ![i] = OnManualReactivate(paths[i], result, NewId(ok, i))]
    /\ UNCHANGED <<connVars, n_paths, multipath_ready, primary_path_idx, xq, xq_weight>>

-----------------------------------------------------------------------------
(* Callbacks of xquic *)

(* cli_masque_start_tunnel: the CONNECT-IP request is sent or is not. *)
MasqueStartTunnel(sent) == masque' = IF sent = 1 THEN "sent" ELSE "none"

(* cb_h3_conn_handshake_finished; the result of cli_masque_start_tunnel is *)
(* ignored.                                                                *)
HandshakeFinished(sent) ==
    /\ xq = "open" /\ state = "CONNECTING"
    /\ MasqueStartTunnel(sent)
    /\ SetState("AUTHENTICATING")
    /\ UNCHANGED <<conn, reconnect_scheduled, shutting_down, slotVars, xquicVars>>

(* cb_ready_to_create_path *)
ReadyToCreatePath ==
    /\ xq = "open" /\ state # "CONNECTING"
    /\ multipath_ready' = 1
    /\ IF Multipath = 1
       THEN \E res \in [Pending(paths, n_paths) -> ActivateResult] :
                ActivatePendingPaths(paths, n_paths, res)
       ELSE UNCHANGED <<paths, xquicVars>>
    /\ UNCHANGED <<connVars, n_paths, primary_path_idx>>

(* cli_connect_ip_on_headers, the server's 200 *)
TunnelAccepted ==
    /\ xq = "open" /\ masque = "sent"
    /\ masque' = "ok"
    /\ UNCHANGED <<state, conn, reconnect_scheduled, handshake_started, shutting_down,
                   tun_active, slotVars, xquicVars>>

(* cb_request_close on the CONNECT-IP stream: the connection lives on. *)
TunnelStreamClosed ==
    /\ xq = "open" /\ masque \in {"sent", "ok"}
    /\ masque' = "closed"
    /\ UNCHANGED <<state, conn, reconnect_scheduled, handshake_started, shutting_down,
                   tun_active, slotVars, xquicVars>>

(* cli_connect_ip_on_body with an ADDRESS_ASSIGN capsule.  The primary     *)
(* path is validated, the client is TUNNEL_READY, and tunnel_config_ready  *)
(* runs in the platform: with the TUN device up it calls set_tun_active    *)
(* and the client is ESTABLISHED; without, the platform disconnects, in    *)
(* the callback or later.                                                  *)
AddressAssigned(tunUp) ==
    LET i == primary_path_idx IN
    /\ xq = "open" /\ masque = "ok"
    /\ state \notin {"ESTABLISHED", "TUNNEL_READY"}
    /\ paths' = IF n_paths > 0 /\ i < n_paths /\ paths[i].platform_attached = 1
                THEN [paths EXCEPT ![i] = OnValidationOk(paths[i], "ACTIVE")]
                ELSE paths
    /\ state' = IF tunUp = 1 THEN "ESTABLISHED"
                ELSE IF DeferredDisconnect = 1 THEN "TUNNEL_READY" ELSE "CLOSED"
    /\ tun_active' = IF tunUp = 1 THEN 1
                     ELSE IF DeferredDisconnect = 1 THEN tun_active ELSE 0
    /\ shutting_down' = IF tunUp = 0 /\ DeferredDisconnect = 0 THEN 1 ELSE shutting_down
    /\ xq' = IF tunUp = 0 /\ DeferredDisconnect = 0 THEN "closing" ELSE xq
    /\ UNCHANGED <<conn, reconnect_scheduled, handshake_started, masque, n_paths,
                   multipath_ready, primary_path_idx, xq_paths, xq_next, xq_weight>>

(* cb_path_removed: xquic may lose any path at any time. *)
PathRemoved(id) ==
    LET hit == {i \in Used : paths[i].xquic_path_live = 1 /\ paths[i].xqc_path_id = id}
    IN  /\ id \in xq_paths
        /\ xq_paths' = xq_paths \ {id}
        /\ paths' = IF hit = {} THEN paths
                    ELSE LET i == CHOOSE i \in hit : \A j \in hit : i <= j
                         IN  [paths EXCEPT ![i] = OnXquicRemoved(paths[i])]
        /\ UNCHANGED <<connVars, n_paths, multipath_ready, primary_path_idx, xq, xq_next,
                       xq_weight>>

(* Mutants: cli_conn_destroy is not called; shutting_down is not tested. *)
ConnCloseKeepsConn ==
    /\ xq # "none"
    /\ xq' = "none" /\ xq_paths' = {} /\ conn' = conn /\ masque' = "none"
    /\ reconnect_scheduled' = 1
    /\ SetState(IF shutting_down = 0 THEN "RECONNECTING" ELSE "CLOSED")
    /\ UNCHANGED <<shutting_down, slotVars, xq_next, xq_weight>>

ConnCloseAlwaysReconnects ==
    /\ xq # "none"
    /\ xq' = "none" /\ xq_paths' = {} /\ conn' = 0 /\ masque' = "none"
    /\ reconnect_scheduled' = 1
    /\ SetState("RECONNECTING")
    /\ UNCHANGED <<shutting_down, slotVars, xq_next, xq_weight>>

(* cb_h3_conn_close: the end of a connection, ours or the peer's doing. *)
ConnClose ==
    LET again == shutting_down = 0 /\ ReconnectEnable = 1 IN
    /\ xq # "none"
    /\ xq' = "none"
    /\ xq_paths' = {}
    /\ conn' = 0
    /\ masque' = "none"
    /\ reconnect_scheduled' = IF again THEN 1 ELSE reconnect_scheduled
    /\ SetState(IF again THEN "RECONNECTING" ELSE "CLOSED")
    /\ UNCHANGED <<shutting_down, slotVars, xq_next, xq_weight>>

-----------------------------------------------------------------------------
(* mqvpn_client_tick *)

(* Mutant: the watchdog clears its timer and does not close. *)
WatchdogDoesNotClose ==
    /\ shutting_down = 0
    /\ state = "CONNECTING" /\ handshake_started = 1
    /\ handshake_started' = 0
    /\ UNCHANGED <<state, conn, reconnect_scheduled, shutting_down, tun_active, masque,
                   slotVars, xquicVars>>

(* tick_handshake_watchdog, once the handshake took 5 s. *)
TickHandshakeWatchdog ==
    /\ shutting_down = 0
    /\ state = "CONNECTING" /\ handshake_started = 1
    /\ IF conn = 1
       THEN /\ handshake_started' = 0
            /\ xq' = "closing"
            /\ UNCHANGED <<state, tun_active, reconnect_scheduled>>
       ELSE /\ reconnect_scheduled' = 1
            /\ SetState("RECONNECTING")
            /\ xq' = xq
    /\ UNCHANGED <<conn, shutting_down, masque, slotVars, xq_paths, xq_next, xq_weight>>

(* tick_path_recovery: V are the VALIDATING slots that xquic reports       *)
(* active, R the slots whose retry timer is due, with the results of the   *)
(* calls to xquic, and C the slots usable for PATH_STABLE_THRESHOLD_US.    *)
ValidatingSlots == {i \in Used : paths[i].state = "VALIDATING" /\ paths[i].xqc_path_id \in xq_paths}

(* Mutant: only paths that had been validated are retried. *)
RetryDegradedOnly == {i \in Used : paths[i].state = "DEGRADED" /\ paths[i].recreate_after = 1}

RetrySlots  == {i \in Used : /\ paths[i].state \in {"DEGRADED", "CREATE_WAIT"}
                             /\ paths[i].recreate_after = 1}
StableSlots == {i \in Used : /\ paths[i].state \in {"ACTIVE", "STANDBY"}
                             /\ paths[i].path_stable = 1}

TickPathRecovery(V, R, C) ==
    /\ state = "ESTABLISHED" /\ Multipath = 1 /\ conn = 1
    /\ V # {} => multipath_ready = 1
    /\ \E res \in [R -> ActivateResult] :
         LET ok == {i \in R : res[i] = "OK"} IN
         /\ CanCreate(ok)
         /\ CreatePaths(ok)
         /\ paths' = [i \in Slots |->
                CASE i \in V -> OnValidationOk(paths[i], IF BackupFec = 1 THEN "STANDBY" ELSE "ACTIVE")
                  [] i \in R -> OnRetryTimer(paths[i], res[i], NewId(ok, i))
                  [] i \in C -> ConfirmStable(paths[i])
                  [] OTHER   -> paths[i]]
    /\ UNCHANGED <<connVars, n_paths, multipath_ready, primary_path_idx, xq, xq_weight>>

(* tick_reconnect, once the delay is over: reset the slots, rotate the     *)
(* primary, connect.  connected = 0 is a failure of xqc_h3_connect.        *)
ResetPaths == [i \in Slots |-> IF i \in Used THEN OnConnReset(paths[i]) ELSE paths[i]]

ReconnectIdx ==
    IF n_paths > 0
    THEN RotatePrimaryPath(primary_path_idx,
             {i \in Used : paths[i].backup = 0 /\ paths[i].platform_attached = 1}, n_paths)
    ELSE primary_path_idx

TickReconnect(connected) ==
    /\ state = "RECONNECTING" /\ reconnect_scheduled = 1
    /\ multipath_ready' = 0
    /\ primary_path_idx' = ReconnectIdx
    /\ IF connected = 1 /\ PrimaryUsable(ResetPaths, ReconnectIdx)
       THEN /\ StartConnection(ResetPaths, ReconnectIdx)
            /\ reconnect_scheduled' = 0
            /\ SetState("CONNECTING")
       ELSE /\ paths' = ResetPaths
            /\ reconnect_scheduled' = 1
            /\ UNCHANGED <<state, conn, handshake_started, tun_active, masque, xquicVars>>
    /\ UNCHANGED <<n_paths, shutting_down>>

-----------------------------------------------------------------------------
(* The specification *)

Init ==
    /\ state = "IDLE" /\ conn = 0
    /\ paths = [i \in Slots |-> PathEntryInit] /\ n_paths = 0
    /\ multipath_ready = 0 /\ primary_path_idx = 0
    /\ reconnect_scheduled = 0 /\ handshake_started = 0 /\ shutting_down = 0
    /\ tun_active = 0 /\ masque = "none"
    /\ xq = "none" /\ xq_paths = {} /\ xq_next = 0
    /\ xq_weight = [id \in PathIds |-> 0]

ApiCall ==
    \/ Connect
    \/ Disconnect
    \/ \E flag \in Flags, w \in Weights : AddPathFd(flag, w)
    \/ \E i \in Used :
          \/ \E failed \in {0, 1} : RemovePath(i, failed)
          \/ PlatformPathDropped(i)
          \/ PlatformFdClosed(i)
          \/ \E w \in Weights : SetPathWeight(i, w)
          \/ \E result \in ActivateResult : ReactivatePath(i, result)

XquicCallback ==
    \/ \E sent \in {0, 1} : HandshakeFinished(sent)
    \/ ReadyToCreatePath
    \/ TunnelAccepted
    \/ TunnelStreamClosed
    \/ \E tunUp \in {0, 1} : AddressAssigned(tunUp)
    \/ \E id \in xq_paths : PathRemoved(id)
    \/ ConnClose

Tick ==
    \/ TickHandshakeWatchdog
    \/ \E V \in SUBSET ValidatingSlots, R \in SUBSET RetrySlots, C \in SUBSET StableSlots :
          TickPathRecovery(V, R, C)
    \/ \E connected \in {0, 1} : TickReconnect(connected)

Next == ApiCall \/ XquicCallback \/ Tick

Spec == Init /\ [][Next]_vars

-----------------------------------------------------------------------------
(* Properties *)

TypeOK ==
    /\ state \in States /\ conn \in {0, 1}
    /\ paths \in [Slots -> PathEntry] /\ n_paths \in 0 .. MaxPaths
    /\ multipath_ready \in {0, 1} /\ primary_path_idx \in Slots
    /\ reconnect_scheduled \in {0, 1} /\ handshake_started \in {0, 1}
    /\ shutting_down \in {0, 1} /\ tun_active \in {0, 1}
    /\ masque \in {"none", "sent", "ok", "closed"}
    /\ xq \in {"none", "open", "closing"} /\ xq_paths \subseteq PathIds
    /\ xq_next \in 0 .. MaxPathId + 1 /\ xq_weight \in [PathIds -> Weights]

(* The asserts of path_invariant_check hold of every slot after every step *)
(* and not only in the handler that checks them.                           *)
SlotInvariant == \A i \in Slots : PathInvariant(paths[i])

(* c->conn is NULL when a connection is started, so cli_start_connection   *)
(* never leaks one, and set whenever the client may use it: reactivate and *)
(* the tick dereference it on the strength of the client state alone.      *)
ConnMatchesState ==
    /\ state \in {"IDLE", "RECONNECTING"} => conn = 0
    /\ state \in {"CONNECTING", "AUTHENTICATING", "TUNNEL_READY", "ESTABLISHED"} => conn = 1
    /\ conn = 1 <=> xq # "none"

(* While a connection is up, live slots and xquic paths correspond one to  *)
(* one, whatever was removed, dropped, retried or reused meanwhile: every  *)
(* cb_path_removed reaches the slot it is about.  Path 0 has no slot when  *)
(* the connection was started without paths.                               *)
PathBinding ==
    conn = 1 =>
        /\ \A i \in Used : paths[i].xquic_path_live = 1 => paths[i].xqc_path_id \in xq_paths
        /\ \A i, j \in Used :
              (/\ i # j
               /\ paths[i].xquic_path_live = 1
               /\ paths[j].xquic_path_live = 1) => paths[i].xqc_path_id # paths[j].xqc_path_id
        /\ \A id \in xq_paths \ {0} :
              \E i \in Used : paths[i].xquic_path_live = 1 /\ paths[i].xqc_path_id = id

(* Once multipath is negotiated no slot is left PENDING: nothing would     *)
(* activate it, since cb_ready_to_create_path does not come again and the  *)
(* tick only retries CREATE_WAIT and DEGRADED slots.                       *)
NoStrandedPending ==
    (conn = 1 /\ multipath_ready = 1 /\ Multipath = 1) =>
        \A i \in Used : paths[i].state # "PENDING"

(* A retry is armed only within the retry budget and after a failure, also *)
(* after manual reactivations, which do not give the budget back.          *)
RetryBudget ==
    \A i \in Slots : paths[i].recreate_after = 1 =>
                         paths[i].recreate_retries \in 1 .. MaxRetries - 1

(* The client never waits without a timer: a reconnect is scheduled while  *)
(* RECONNECTING, and the watchdog runs while CONNECTING until it has asked *)
(* for the connection to be closed.                                        *)
TimerArmed ==
    /\ state = "RECONNECTING" => reconnect_scheduled = 1
    /\ state = "CONNECTING" => handshake_started = 1 \/ xq = "closing"

(* The platform's TUN device is in use exactly while the client is         *)
(* ESTABLISHED (platforms that tear it down in cb_state_changed).          *)
TunOnlyEstablished == tun_active = 1 <=> state = "ESTABLISHED"

(* What the client may rely on about its slots, whatever the platform,     *)
(* xquic and the tick did in between: the asserts of path_state.c hold,    *)
(* retries stay within their budget and no slot waits for an activation    *)
(* that nobody will do.                                                    *)
SlotsSafe == TypeOK /\ SlotInvariant /\ RetryBudget /\ NoStrandedPending

(* State, connection pointer, timers and TUN device of the client move     *)
(* together through every close, timeout and reconnect.                    *)
ConnSafe == ConnMatchesState /\ TimerArmed /\ TunOnlyEstablished

(* disconnect() is final: the close callback that arrives later, with      *)
(* reconnect enabled, does not bring the client back.                      *)
ShutdownIsFinal == [][state = "CLOSED" => state' = "CLOSED"]_state

(* The assert of client_set_state: also, disconnect() is final, and a late *)
(* close callback does not bring the client back.  AUTHENTICATING to       *)
(* ESTABLISHED is the one step that passes through another state,          *)
(* TUNNEL_READY.                                                           *)
TransitionsValid ==
    [][\/ state' \in Successors[state]
       \/ /\ "TUNNEL_READY" \in Successors[state]
          /\ state' \in Successors["TUNNEL_READY"]]_state

(* libmqvpn.h on mqvpn_client_set_path_weight: the weight "Persists across *)
(* path reconnects"; README.md: it "is applied as soon as the path         *)
(* activates".                                                             *)
WeightPersists ==
    conn = 1 => \A i \in Used : paths[i].state = "ACTIVE" =>
                    xq_weight[paths[i].xqc_path_id] = paths[i].weight

(* libmqvpn.h on MQVPN_PATH_FLAG_BACKUP: "only used when all primary paths *)
(* are unavailable".                                                       *)
BackupStandsBy ==
    conn = 1 => \A i, j \in Used :
                    ~ /\ paths[i].state = "ACTIVE" /\ paths[i].backup = 1
                      /\ paths[j].state = "ACTIVE" /\ paths[j].backup = 0

-----------------------------------------------------------------------------
(* Liveness.  The event loop calls tick() when a timer of get_interest is  *)
(* due, so a tick that stays due is taken; xquic ends a connection that    *)
(* was closed; and xqc_h3_connect does not fail for ever.                  *)

Fairness ==
    /\ WF_vars(TickHandshakeWatchdog)
    /\ WF_vars(xq = "closing" /\ ConnClose)
    /\ SF_vars(TickReconnect(1) /\ state' = "CONNECTING")
    /\ \A i \in Slots : WF_vars(i \in RetrySlots /\ TickPathRecovery({}, {i}, {}))

FairSpec == Spec /\ Fairness

(* A handshake that stalls is given up. *)
HandshakeEnds == state = "CONNECTING" ~> state # "CONNECTING"

(* A failed path of an established connection is tried again, whether it   *)
(* had been validated (DEGRADED) or not (CREATE_WAIT): its timer is        *)
(* consumed or its failure count moves, unless the connection goes away.   *)
RetryHappens ==
    \A i \in Slots, n \in 1 .. MaxRetries :
        (/\ state = "ESTABLISHED" /\ Multipath = 1
         /\ paths[i].recreate_after = 1 /\ paths[i].recreate_retries = n) ~>
            (\/ state # "ESTABLISHED"
             \/ paths[i].recreate_after = 0 \/ paths[i].recreate_retries # n)

(* mqvpn_client.c on the path budget of a connection: "When exhausted,      *)
(* additional path creation cannot recover in-place; force a clean         *)
(* reconnect": a slot that was given up is not left so for good.           *)
BudgetReconnects ==
    \A i \in Slots :
        (/\ state = "ESTABLISHED" /\ xq_next > MaxPathId
         /\ paths[i].state = "CLOSED_RECOVERABLE" /\ paths[i].recreate_retries < MaxRetries) ~>
            (state # "ESTABLISHED" \/ paths[i].state # "CLOSED_RECOVERABLE")

(* mqvpn_client.c, tick_reconnect: the flags view "prevents hammering a    *)
(* dead path when a live alternative exists": a path that stays attached   *)
(* is in the end connected on.                                             *)
Attached(i) == i \in Used /\ paths[i].platform_attached = 1 /\ paths[i].backup = 0

ReconnectUsesLivePath ==
    \A i \in Slots : []<>~(state = "RECONNECTING" /\ Attached(i))

(* What the rotation does give: two paths that stay attached are enough,   *)
(* wherever the primary stood and whatever was removed.                    *)
RotationFindsPath ==
    \A i, j \in Slots :
        i # j => []<>~(state = "RECONNECTING" /\ Attached(i) /\ Attached(j))
=============================================================================
