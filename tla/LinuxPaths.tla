----------------------------- MODULE LinuxPaths -----------------------------
(***************************************************************************)
(* The paths of the Linux client: the platform's path table (path_mgr.c,   *)
(* the parallel arrays of platform_internal.h), the sockets and their      *)
(* libevent watchers, the netlink monitor and the recovery timer           *)
(* (netlink_mon.c), the control API's path commands, and the library's     *)
(* slot table, whose slots move by the operators of PathLifecycle.         *)
(*                                                                         *)
(* The program's state is the record ctx: tab is the table, fails the      *)
(* re-add failure counters beside it (indexed like the table, but not      *)
(* compacted with it), lib the library's slots, open the descriptors of    *)
(* the process.  A netlink message carries what was true when it was       *)
(* sent; the handlers look at the interface as it is when they run.        *)
(*                                                                         *)
(* Descriptors are the least free numbers, as the kernel gives them out.   *)
(* A handle is a number that neither the table nor the library holds: the  *)
(* library counts upwards and never repeats one, so a handle that nobody   *)
(* holds any more is as good as new.  xquic's path ids are 0 for the       *)
(* connection's first path and 1 for all others.                           *)
(***************************************************************************)
EXTENDS PathLifecycle, Sequences, FiniteSets

CONSTANTS
    Ifaces,         \* the interfaces of the configuration
    MaxPaths,       \* MQVPN_MAX_PATHS
    Limit,          \* PATH_RECOVER_FAILURE_LIMIT
    MaxQueue,       \* netlink messages the socket buffer holds
    MaxEvents       \* bound: changes of the interfaces, failing calls, lost
                    \* paths and connections, commands

ASSUME LinuxPathsAssumption ==
    /\ IsFiniteSet(Ifaces) /\ Cardinality(Ifaces) \in 1 .. MaxPaths
    /\ MaxPaths \in Nat /\ Limit \in Nat \ {0} /\ MaxQueue \in Nat \ {0}
    /\ 1 \in PathIds

VARIABLES
    ctx,            \* the program: table, counters, library slots, descriptors
    ifs,            \* the interfaces
    nlq,            \* the netlink socket's buffer
    draining,       \* on_netlink_event is in its loop
    st,             \* the client: state, connection, recovery timer
    blind,          \* interfaces of which a loss of address went unseen
    events          \* events so far

pathVars == <<ctx, ifs, nlq, draining, st, blind, events>>

Least(S) == CHOOSE n \in S : \A k \in S : n <= k
LeastFree(S) == Least((0 .. Cardinality(S)) \ S)
Positions == 1 .. MaxPaths

(* The configuration's order of the interfaces; which one it is does not   *)
(* matter.                                                                 *)
StartOrder ==
    CHOOSE s \in [1 .. Cardinality(Ifaces) -> Ifaces] :
        \A k, m \in DOMAIN s : s[k] = s[m] => k = m

-----------------------------------------------------------------------------
(* The library's side *)

Handles(y) == {y.tab[i].h : i \in DOMAIN y.tab} \cup {y.lib[j].h : j \in DOMAIN y.lib}
NewHandle(y) == LeastFree(Handles(y) \cup Handles(ctx))
NewFd(y) == LeastFree(y.open)

(* mqvpn_client_get_paths and the lookups of a handle in its result *)
Found(y, h) == \E j \in DOMAIN y.lib : y.lib[j].h = h
StatusOf(y, h) == LET j == CHOOSE j \in DOMAIN y.lib : y.lib[j].h = h
                  IN  PublicStatus(y.lib[j].p.state)

(* An event on the slot of handle h, where after[j] is what it makes of    *)
(* slot j; a handle the library does not know any more is ignored.         *)
OnSlot(y, h, after) ==
    [y EXCEPT !.lib = [j \in DOMAIN y.lib |->
                          IF y.lib[j].h = h THEN [y.lib[j] EXCEPT !.p = after[j]]
                          ELSE y.lib[j]]]

(* mqvpn_client_remove_path without xquic's part, and                      *)
(* mqvpn_client_on_platform_path_dropped; both leave a closed slot alone.  *)
LibDrop(y, h) == OnSlot(y, h, [j \in DOMAIN y.lib |-> OnDrop(y.lib[j].p)])
LibFdClosed(y, h) == OnSlot(y, h, [j \in DOMAIN y.lib |-> OnFdClosed(y.lib[j].p)])

(* The connection's answer to xqc_conn_create_path: a closing one refuses. *)
Result(r) == IF st.conn = "closing" THEN "TRANSIENT_FAIL" ELSE r

(* activate_pending_paths *)
Activate(y, r) ==
    [y EXCEPT !.lib = [j \in DOMAIN y.lib |->
                          [y.lib[j] EXCEPT !.p = OnActivateRequested(y.lib[j].p, Result(r), 1)]]]

ReusableSlots(y) ==
    {j \in DOMAIN y.lib : /\ PublicStatus(y.lib[j].p.state) = "CLOSED"
                          /\ y.lib[j].p.platform_attached = 0
                          /\ y.lib[j].p.xquic_path_live = 0}

CanAddFd(y) == ReusableSlots(y) # {} \/ Len(y.lib) < MaxPaths

(* mqvpn_client_add_path_fd_with_outcome for the socket fd, which gets the  *)
(* handle NewHandle(y); r is what xquic answers.                            *)
LibAddFd(y, fd, r) ==
    LET j == IF ReusableSlots(y) # {} THEN Least(ReusableSlots(y)) ELSE Len(y.lib) + 1
        s == [h |-> NewHandle(y), sock |-> fd, p |-> OnAddFd([PathEntryInit EXCEPT !.fd = 0])]
        z == [y EXCEPT !.lib = [k \in 1 .. (IF j > Len(y.lib) THEN j ELSE Len(y.lib)) |->
                                   IF k = j THEN s ELSE y.lib[k]]]
    IN  IF st.ready /\ st.conn # "none" THEN Activate(z, r) ELSE z

(* add_path_outcome_from_state; a slot that is still PENDING counts as OK. *)
Outcome(y, h) ==
    LET s == y.lib[CHOOSE j \in DOMAIN y.lib : y.lib[j].h = h].p.state
    IN  CASE s = "CREATE_WAIT"        -> "TRANSIENT_FAIL"
          [] s = "CLOSED_RECOVERABLE" -> "PERMANENT_FAIL"
          [] OTHER                    -> "OK"

-----------------------------------------------------------------------------
(* What the platform asks the kernel.  f is the fault of the step: a call  *)
(* that fails for one interface.                                           *)

NoFault == <<"none", "none">>
Faults == {NoFault} \cup
          ({"ip", "route", "socket", "event", "TRANSIENT_FAIL", "PERMANENT_FAIL"} \X Ifaces)

(* iface_is_up_and_running *)
UpAndRunning(i) == ifs[i].link = "up"

(* iface_has_usable_ip = 1; a failing getifaddrs is neither 1 nor 0. *)
UsableIp(i, f) == ifs[i].addr /\ f # <<"ip", i>>
NoUsableIp(i, f) == ~ifs[i].addr /\ f # <<"ip", i>>

(* iface_has_route_to_server # 0: an unknown answer passes. *)
RoutePasses(i, f) == ifs[i].link # "gone" /\ (ifs[i].route \/ f = <<"route", i>>)

(* The answer of xquic for a path on interface i. *)
Answer(i, f) == IF f \in {<<"TRANSIENT_FAIL", i>>, <<"PERMANENT_FAIL", i>>} THEN f[1] ELSE "OK"

-----------------------------------------------------------------------------
(* Dropping *)

(* Mutant: the library is not told that the socket is closed. *)
RemoveUntold(y, k) ==
    LET e == y.tab[k] IN
    IF e.fd < 0 THEN y
    ELSE [y EXCEPT !.tab[k] = [e EXCEPT !.fd = -1, !.att = 0, !.ev = -1], !.open = @ \ {e.fd}]

(* remove_path_by_index *)
RemovePathByIndex(y, k) ==
    LET e == y.tab[k]
        z == [LibDrop(y, e.h) EXCEPT !.tab[k] = [e EXCEPT !.fd = -1, !.att = 0, !.ev = -1],
                                     !.open = @ \ {e.fd}]
    IN  IF e.fd < 0 THEN y ELSE LibFdClosed(z, e.h)

(* drop_paths_by_ifname *)
DropPathsByIfname(y, i) ==
    LET drop[k \in 0 .. Len(y.tab)] ==
            IF k = 0 THEN y
            ELSE IF y.tab[k].iface = i THEN RemovePathByIndex(drop[k - 1], k) ELSE drop[k - 1]
    IN  drop[Len(y.tab)]

-----------------------------------------------------------------------------
(* Recovering *)

(* recovery_rollback: the library is not told that the socket is closed,   *)
(* but the slot can be taken by the next add.                              *)
RecoveryRollback(y, k, outcome) ==
    LET e == y.tab[k] IN
    [LibDrop(y, e.h) EXCEPT
        !.tab[k] = [e EXCEPT !.fd = -1, !.att = 0],
        !.open = @ \ {e.fd},
        !.fails[k] = IF outcome = "PERMANENT_FAIL" THEN Limit ELSE @ + 1]

(* The body of try_readd_removed_path's loop for the first candidate, k:   *)
(* a new socket, a slot of the library, then a watcher.  The entry's old   *)
(* socket and watcher, if it has them, are overwritten.  A watcher that    *)
(* cannot be allocated is given to event_add all the same, where the       *)
(* process ends, so that is no step of the model.                          *)
ReaddEntry(y, k, f) ==
    LET i  == y.tab[k].iface
        fd == NewFd(y)
        h  == NewHandle(y)
        z  == [LibAddFd(y, fd, Answer(i, f)) EXCEPT
                  !.tab[k] = [@ EXCEPT !.fd = fd, !.att = 1, !.h = h], !.open = @ \cup {fd}]
    IN  CASE ~RoutePasses(i, f) \/ f = <<"socket", i>> -> y
          [] RoutePasses(i, f) /\ f # <<"socket", i>> /\ ~CanAddFd(y) ->
                 [y EXCEPT !.tab[k] = [@ EXCEPT !.fd = -1, !.att = 0]]
          [] OTHER ->
                 IF Outcome(z, h) # "OK" THEN RecoveryRollback(z, k, Outcome(z, h))
                 ELSE [z EXCEPT !.tab[k].ev = fd, !.fails[k] = 0]

(* The entries try_readd_removed_path takes for candidates. *)
Candidates(y, i) ==
    {k \in DOMAIN y.tab : /\ y.tab[k].iface = i
                          /\ y.fails[k] < Limit
                          /\ Found(y, y.tab[k].h) => StatusOf(y, y.tab[k].h) = "CLOSED"}

(* try_readd_removed_path; TryReadd1 is its result being 1. *)
TryReadd(y, i, f) ==
    IF UpAndRunning(i) /\ UsableIp(i, f) /\ Candidates(y, i) # {}
    THEN ReaddEntry(y, Least(Candidates(y, i)), f)
    ELSE y
TryReadd1(y, i, f) ==
    LET k == Least(Candidates(y, i))
    IN  Candidates(y, i) # {} /\ TryReadd(y, i, f).tab[k].h # y.tab[k].h
        /\ TryReadd(y, i, f).tab[k].att = 1

(* try_reactivate_by_ifname, with mqvpn_client_reactivate_path: entries    *)
(* whose slot is DEGRADED or CLOSED in public are tried.                   *)
TryReactivate(y, i, f) ==
    LET mine == {y.tab[k].h : k \in {k \in DOMAIN y.tab : y.tab[k].iface = i}}
        again(p) ==
            IF /\ PublicStatus(p.state) \in {"DEGRADED", "CLOSED"}
               /\ p.xquic_path_live = 0 /\ p.platform_attached = 1
            THEN OnManualReactivate(p, Result(Answer(i, f)), 1)
            ELSE p
    IN  IF RoutePasses(i, f) /\ st.state = "ESTABLISHED" /\ st.ready
        THEN [y EXCEPT !.lib = [j \in DOMAIN y.lib |->
                 IF y.lib[j].h \in mine THEN [y.lib[j] EXCEPT !.p = again(@)] ELSE y.lib[j]]]
        ELSE y

ReaddOrReactivate(y, i, f) ==
    IF TryReadd1(y, i, f) THEN TryReadd(y, i, f)
    ELSE TryReactivate(TryReadd(y, i, f), i, f)

(* Mutant: the timer only looks after paths that have a socket. *)
RecoverAttached(y, y0, k, f) ==
    IF y.tab[k].att = 1 /\ y.fails[k] < Limit THEN TryReactivate(y, y.tab[k].iface, f) ELSE y

(* recover_dropped_paths_cb for entry k; y0 is the state when the library  *)
(* was asked, before the loop.                                             *)
RecoverVisit(y, y0, k, f) ==
    LET e == y.tab[k]
        closed == Found(y0, e.h) /\ StatusOf(y0, e.h) = "CLOSED"
        usable == UpAndRunning(e.iface) /\ UsableIp(e.iface, f)
    IN  CASE y.fails[k] >= Limit \/ ~closed \/ ~usable -> y
          [] y.fails[k] < Limit /\ closed /\ usable /\ e.att = 1 -> TryReactivate(y, e.iface, f)
          [] OTHER -> IF RoutePasses(e.iface, f) THEN TryReadd(y, e.iface, f) ELSE y

RecoverAll(y, f) ==
    LET visit[k \in 0 .. Len(y.tab)] ==
            IF k = 0 THEN y ELSE RecoverVisit(visit[k - 1], y, k, f)
    IN  visit[Len(y.tab)]

(* The ESTABLISHED arm of cb_state_changed *)
ReaddClosed(y, f) ==
    LET visit[k \in 0 .. Len(y.tab)] ==
            IF k = 0 THEN y
            ELSE IF visit[k - 1].tab[k].fd < 0 THEN TryReadd(visit[k - 1], y.tab[k].iface, f)
            ELSE visit[k - 1]
    IN  visit[Len(y.tab)]

-----------------------------------------------------------------------------
(* The kernel *)

(* A step takes n of the events that the bound allows. *)
Costs(n) == events' = events + n /\ events' <= MaxEvents
Fault(f) == IF f = NoFault THEN 0 ELSE 1

(* A full buffer loses messages: recv reports ENOBUFS once and goes on.    *)
Send(i, msgs) ==
    IF Len(nlq) + Len(msgs) <= MaxQueue
    THEN nlq' = nlq \o msgs /\ blind' = blind
    ELSE nlq' = nlq /\ blind' = blind \cup {i}

Msg(t, i, link) == [t |-> t, i |-> i, link |-> link]

(* A link changes, or tells of an attribute that nobody here looks at.  An *)
(* interface that goes away flushes its address first.                     *)
LinkChange(i, link) ==
    /\ Costs(1)
    /\ ifs' = [ifs EXCEPT ![i] = IF link = "gone"
                                 THEN [link |-> link, addr |-> FALSE, route |-> FALSE]
                                 ELSE [@ EXCEPT !.link = link]]
    /\ ifs[i].link = "gone" => link \in {"down", "up"}
    /\ Send(i, IF link # "gone" THEN <<Msg("NEWLINK", i, link)>>
               ELSE IF ifs[i].addr THEN <<Msg("DELADDR", i, link), Msg("DELLINK", i, link)>>
               ELSE <<Msg("DELLINK", i, link)>>)
    /\ UNCHANGED <<ctx, draining, st>>

(* An address comes, is renewed, or goes, and the routes with it. *)
AddrChange(i, there) ==
    /\ Costs(1)
    /\ ifs[i].link # "gone"
    /\ there \/ ifs[i].addr
    /\ ifs' = [ifs EXCEPT ![i] = [link |-> @.link, addr |-> there, route |-> @.route /\ there]]
    /\ Send(i, <<Msg(IF there THEN "NEWADDR" ELSE "DELADDR", i, ifs[i].link)>>)
    /\ UNCHANGED <<ctx, draining, st>>

(* Routes change without a word: the monitor does not listen to them. *)
RouteChange(i) ==
    /\ Costs(1)
    /\ ifs[i].addr
    /\ ifs' = [ifs EXCEPT ![i].route = ~@]
    /\ UNCHANGED <<ctx, nlq, draining, st, blind>>

-----------------------------------------------------------------------------
(* The netlink monitor *)

(* handle_rtm_newaddr *)
HandleNewAddr(i, f) == IF ifs[i].link = "gone" THEN ctx ELSE ReaddOrReactivate(ctx, i, f)

(* handle_rtm_deladdr; a link that is not running leaves it to the link's  *)
(* own message.                                                            *)
HandleDelAddr(i, f) ==
    IF UpAndRunning(i) /\ NoUsableIp(i, f) THEN DropPathsByIfname(ctx, i) ELSE ctx

(* Mutant: only the admin state is looked at. *)
HandleNewLinkAdminOnly(i, link, f) ==
    CASE link = "down" -> DropPathsByIfname(ctx, i)
      [] link = "up" /\ UsableIp(i, f) -> ReaddOrReactivate(ctx, i, f)
      [] OTHER -> ctx

(* handle_rtm_newlink with is_carrier_loss, which a dormant link is not;   *)
(* DELLINK (handle_rtm_dellink) drops too.                                 *)
HandleNewLink(i, link, f) ==
    CASE link \in {"down", "nocarrier", "gone"} -> DropPathsByIfname(ctx, i)
      [] link = "up" /\ UsableIp(i, f)          -> ReaddOrReactivate(ctx, i, f)
      [] OTHER                                  -> ctx

(* One message in the loop of on_netlink_event, which ends when the buffer *)
(* is empty; meanwhile only the kernel can go on.                          *)
NetlinkMessage(f) ==
    LET m == Head(nlq) IN
    /\ nlq # <<>>
    /\ Costs(Fault(f)) /\ (f # NoFault => f[2] = m.i)
    /\ ctx' = CASE m.t = "NEWADDR" -> HandleNewAddr(m.i, f)
                [] m.t = "DELADDR" -> HandleDelAddr(m.i, f)
                [] OTHER           -> HandleNewLink(m.i, m.link, f)
    /\ blind' = IF m.t = "DELADDR" /\ (f[1] = "ip" \/ ifs[m.i].link = "dormant")
                THEN blind \cup {m.i} ELSE blind
    /\ nlq' = Tail(nlq)
    /\ draining' = (nlq' # <<>>)
    /\ UNCHANGED <<ifs, st>>

(* The event loop runs another handler. *)
Loop == ~draining /\ draining' = FALSE

(* recover_dropped_paths_cb, the timer armed again at its end: also when   *)
(* the tick in it ended the connection and cb_state_changed disarmed it.   *)
RecoverTimer(f, closes) ==
    /\ Loop /\ st.armed
    /\ closes => st.conn # "none"
    /\ Costs(Fault(f) + IF closes THEN 1 ELSE 0)
    /\ LET y == RecoverAll(ctx, f)
       IN  ctx' = IF closes THEN [y EXCEPT !.fails = [k \in Positions |-> 0]] ELSE y
    /\ st' = IF closes THEN [st EXCEPT !.state = "RECONNECTING", !.conn = "none"] ELSE st
    /\ UNCHANGED <<ifs, nlq, blind>>

-----------------------------------------------------------------------------
(* The control API *)

(* platform_add_path with mqvpn_path_mgr_add: the socket is bound to the   *)
(* interface, which must be there; without the watcher the path is taken   *)
(* back.  The counter at the new index is not reset.                       *)
AddPath(i, f) ==
    LET fd == NewFd(ctx)
        h  == NewHandle(ctx)
        y  == [LibAddFd(ctx, fd, Answer(i, f)) EXCEPT
                   !.tab = Append(@, [iface |-> i, fd |-> fd, att |-> 1, h |-> h, ev |-> fd]),
                   !.open = @ \cup {fd}]
        back == [LibDrop(LibAddFd(ctx, fd, Answer(i, f)), h) EXCEPT !.open = ctx.open]
    IN  /\ Loop /\ Costs(1 + Fault(f)) /\ (f # NoFault => f[2] = i)
        /\ Len(ctx.tab) < MaxPaths
        /\ ctx' = IF f[1] = "socket" \/ ifs[i].link = "gone" \/ ~CanAddFd(ctx) THEN ctx
                  ELSE IF f[1] = "event" THEN back ELSE y
        /\ blind' = IF ifs[i].link = "up" /\ ifs[i].addr THEN blind ELSE blind \cup {i}
        /\ UNCHANGED <<ifs, nlq, st>>

Without(s, k) == [j \in 1 .. Len(s) - 1 |-> IF j < k THEN s[j] ELSE s[j + 1]]

(* The compaction of platform_remove_path and mqvpn_path_mgr_remove_at:    *)
(* paths, watchers and handles move down, the failure counters do not.     *)
RemoveEntry(y, k) ==
    [y EXCEPT !.tab = Without(@, k), !.open = @ \ {y.tab[k].fd}]

(* platform_remove_path: the last path stays.  Path 0 of the connection    *)
(* takes the connection with it.                                           *)
RemovePath(i) ==
    LET hit == {k \in DOMAIN ctx.tab : ctx.tab[k].iface = i}
        k == Least(hit)
        h == ctx.tab[k].h
        first == \E j \in DOMAIN ctx.lib : /\ ctx.lib[j].h = h /\ ctx.lib[j].p.xquic_path_live = 1
                                           /\ ctx.lib[j].p.xqc_path_id = 0
    IN  /\ Loop /\ Costs(1)
        /\ Len(ctx.tab) > 1 /\ hit # {}
        /\ ctx' = LibFdClosed(RemoveEntry(LibDrop(ctx, h), k), h)
        /\ st' = IF first /\ st.conn # "none" THEN [st EXCEPT !.conn = "closing"] ELSE st
        /\ UNCHANGED <<ifs, nlq, blind>>

-----------------------------------------------------------------------------
(* The library and xquic, as far as they move slots *)

(* cb_ready_to_create_path *)
ReadyToCreatePath(f) ==
    /\ Loop /\ st.conn = "open" /\ ~st.ready
    /\ f[1] \in {"none", "TRANSIENT_FAIL", "PERMANENT_FAIL"}
    /\ Costs(Fault(f))
    /\ ctx' = Activate(ctx, IF f = NoFault THEN "OK" ELSE f[1])
    /\ st' = [st EXCEPT !.ready = TRUE]
    /\ UNCHANGED <<ifs, nlq, blind>>

(* cb_path_removed: xquic lets go of a dropped path, or loses one. *)
PathRemoved(j) ==
    LET dropped == ctx.lib[j].p.state = "CLOSED_DROPPED" IN
    /\ Loop /\ st.conn # "none" /\ ctx.lib[j].p.xquic_path_live = 1
    /\ Costs(IF dropped THEN 0 ELSE 1)
    /\ ctx' = OnSlot(ctx, ctx.lib[j].h, [k \in DOMAIN ctx.lib |-> OnXquicRemoved(ctx.lib[k].p)])
    /\ UNCHANGED <<ifs, nlq, st, blind>>

(* tick_path_recovery: a validated path, or a retry that is due. *)
Validated(j) ==
    /\ Loop /\ st.state = "ESTABLISHED" /\ st.ready /\ st.conn = "open"
    /\ ctx.lib[j].p.state = "VALIDATING"
    /\ ctx' = [ctx EXCEPT !.lib[j].p = OnValidationOk(@, "ACTIVE")]
    /\ UNCHANGED <<ifs, nlq, st, blind, events>>

Retry(j, r) ==
    /\ Loop /\ st.state = "ESTABLISHED" /\ st.conn # "none"
    /\ ctx.lib[j].p.state \in {"CREATE_WAIT", "DEGRADED"}
    /\ Costs(IF r = "OK" THEN 0 ELSE 1)
    /\ ctx' = [ctx EXCEPT !.lib[j].p = OnRetryTimer(@, Result(r), 1)]
    /\ UNCHANGED <<ifs, nlq, st, blind>>

(* Somebody reads the socket of slot j and hands it to the library. *)
Read(y, j) == \E k \in DOMAIN y.tab : y.tab[k].fd = y.lib[j].sock /\ y.tab[k].ev = y.lib[j].sock

(* The session is established: cb_tunnel_config_ready arms the timer, the  *)
(* ESTABLISHED arm of cb_state_changed re-adds what has no socket.  The    *)
(* handshake needs a first path whose answers are read.                    *)
Established(f) ==
    /\ Loop /\ st.state = "CONNECTING" /\ st.conn = "open"
    /\ \E j \in DOMAIN ctx.lib : /\ ctx.lib[j].p.xquic_path_live = 1 /\ ctx.lib[j].p.xqc_path_id = 0
                                 /\ ctx.lib[j].p.platform_attached = 1 /\ Read(ctx, j)
    /\ Costs(Fault(f))
    /\ ctx' = ReaddClosed(ctx, f)
    /\ st' = [st EXCEPT !.state = "ESTABLISHED", !.armed = TRUE]
    /\ UNCHANGED <<ifs, nlq, blind>>

(* The connection ends and the RECONNECTING arm of cb_state_changed runs. *)
ConnEnds ==
    /\ Loop /\ st.conn # "none"
    /\ Costs(IF st.conn = "closing" THEN 0 ELSE 1)
    /\ ctx' = [ctx EXCEPT !.fails = [k \in Positions |-> 0]]
    /\ st' = [st EXCEPT !.state = "RECONNECTING", !.conn = "none", !.armed = FALSE]
    /\ UNCHANGED <<ifs, nlq, blind>>

(* tick_reconnect: the slots are reset and one that has a socket becomes   *)
(* the first path; which one, the rotation of MqvpnClient decides.         *)
Reset(y) == [y EXCEPT !.lib = [j \in DOMAIN y.lib |->
                                  [y.lib[j] EXCEPT !.p = OnConnReset(@)]]]
BeginWith(y, j) ==
    [y EXCEPT !.lib[j].p = [@ EXCEPT !.xquic_path_live = 1, !.state = "VALIDATING"]]

TickReconnect(j) ==
    /\ Loop /\ st.state = "RECONNECTING"
    /\ Reset(ctx).lib[j].p.platform_attached = 1
    /\ ctx' = BeginWith(Reset(ctx), j)
    /\ st' = [st EXCEPT !.state = "CONNECTING", !.conn = "open", !.ready = FALSE]
    /\ UNCHANGED <<ifs, nlq, blind, events>>

-----------------------------------------------------------------------------

(* run_client up to its event loop: a socket, a slot and a watcher for     *)
(* each interface of the configuration, then the first connection.         *)
StartEntry(k) == [iface |-> StartOrder[k], fd |-> k - 1, att |-> 1, h |-> k - 1, ev |-> k - 1]
StartSlot(k) ==
    [h |-> k - 1, sock |-> k - 1,
     p |-> LET p == OnAddFd([PathEntryInit EXCEPT !.fd = 0])
           IN  IF k = 1 THEN [p EXCEPT !.xquic_path_live = 1, !.state = "VALIDATING"] ELSE p]

PathsInit ==
    /\ ctx = [tab   |-> [k \in DOMAIN StartOrder |-> StartEntry(k)],
              fails |-> [k \in Positions |-> 0],
              lib   |-> [k \in DOMAIN StartOrder |-> StartSlot(k)],
              open  |-> {k - 1 : k \in DOMAIN StartOrder}]
    /\ ifs = [i \in Ifaces |-> [link |-> "up", addr |-> TRUE, route |-> TRUE]]
    /\ nlq = <<>> /\ draining = FALSE /\ blind = {}
    /\ st = [state |-> "CONNECTING", conn |-> "open", ready |-> FALSE, armed |-> FALSE]
    /\ events = 0

Links == {"gone", "down", "nocarrier", "dormant", "up"}

Kernel ==
    \/ \E i \in Ifaces, link \in Links : LinkChange(i, link)
    \/ \E i \in Ifaces, there \in BOOLEAN : AddrChange(i, there)
    \/ \E i \in Ifaces : RouteChange(i)

Library ==
    \/ \E f \in Faults : ReadyToCreatePath(f)
    \/ \E j \in DOMAIN ctx.lib : PathRemoved(j) \/ Validated(j) \/ TickReconnect(j)
    \/ \E j \in DOMAIN ctx.lib, r \in ActivateResult : Retry(j, r)
    \/ \E f \in Faults : Established(f)
    \/ ConnEnds

PathsNext ==
    \/ Kernel
    \/ \E f \in Faults : NetlinkMessage(f)
    \/ \E f \in Faults, closes \in BOOLEAN : RecoverTimer(f, closes)
    \/ \E i \in Ifaces, f \in Faults : AddPath(i, f)
    \/ \E i \in Ifaces : RemovePath(i)
    \/ Library

PathsSpec == PathsInit /\ [][PathsNext]_pathVars

(* The loop runs handlers that are due: messages are read, the armed timer *)
(* fires, and xquic lets go of a path that was dropped.                    *)
TimerDue == ~draining /\ st.armed /\ RecoverAll(ctx, NoFault) # ctx
Lingering == {j \in DOMAIN ctx.lib : /\ ctx.lib[j].p.state = "CLOSED_DROPPED"
                                     /\ ctx.lib[j].p.xquic_path_live = 1}
LoopBusy == nlq # <<>> \/ TimerDue \/ (st.conn # "none" /\ Lingering # {})
Handled ==
    \/ NetlinkMessage(NoFault) \/ RecoverTimer(NoFault, FALSE)
    \/ \E j \in Lingering : PathRemoved(j)
LoopFairness == []<>~LoopBusy \/ []<><<Handled>>_pathVars

FairPathsSpec == PathsSpec /\ LoopFairness

-----------------------------------------------------------------------------
(* Properties *)

(* The table, the slots and the descriptors have their types. *)
PathsTypeOK ==
    /\ Len(ctx.tab) \in 1 .. MaxPaths /\ Len(ctx.lib) \in 1 .. MaxPaths
    /\ \A k \in DOMAIN ctx.tab : /\ ctx.tab[k].iface \in Ifaces /\ ctx.tab[k].att \in {0, 1}
                                 /\ ctx.tab[k].fd \in Nat \cup {-1} /\ ctx.tab[k].ev \in Nat \cup {-1}
    /\ \A j \in DOMAIN ctx.lib : ctx.lib[j].p \in PathEntry /\ ctx.lib[j].sock \in Nat
    /\ IsFiniteSet(ctx.open) /\ ctx.open \subseteq Nat
    /\ ctx.fails \in [Positions -> 0 .. Limit]
    /\ Len(nlq) <= MaxQueue

(* However paths are dropped, re-added, taken back and compacted: an entry *)
(* with a socket has one of its own, open and watched by its own watcher,  *)
(* and the library has an attached slot for its handle with that socket.   *)
EntryBacked ==
    \A k \in DOMAIN ctx.tab : ctx.tab[k].att = 1 =>
        /\ ctx.tab[k].fd \in ctx.open /\ ctx.tab[k].ev = ctx.tab[k].fd
        /\ \A m \in DOMAIN ctx.tab \ {k} : ctx.tab[m].fd # ctx.tab[k].fd
        /\ \E j \in DOMAIN ctx.lib : /\ ctx.lib[j].h = ctx.tab[k].h
                                     /\ ctx.lib[j].sock = ctx.tab[k].fd
                                     /\ ctx.lib[j].p.platform_attached = 1

(* The library sends only on attached slots' sockets.  Each is open, and   *)
(* no other attached slot has it: a descriptor number that was closed and  *)
(* given out again does not make two paths one.                            *)
SlotSocketsOwn ==
    \A j \in DOMAIN ctx.lib : ctx.lib[j].p.platform_attached = 1 =>
        /\ ctx.lib[j].sock \in ctx.open
        /\ \A m \in DOMAIN ctx.lib \ {j} :
              ctx.lib[m].p.platform_attached = 1 => ctx.lib[m].sock # ctx.lib[j].sock

(* The platform's table and the library's slots describe the same sockets, *)
(* although the two are changed by different calls that may fail on the    *)
(* way.                                                                    *)
Corresponds == PathsTypeOK /\ EntryBacked /\ SlotSocketsOwn

(* Once all netlink messages are handled and none was missed, no path      *)
(* stays on an interface that is gone, down, without carrier or without    *)
(* an address, unless it was added there.                                  *)
DeadInterfaceDropped ==
    nlq = <<>> =>
        \A k \in DOMAIN ctx.tab : ctx.tab[k].att = 1 /\ ctx.tab[k].iface \notin blind =>
            ifs[ctx.tab[k].iface].link \in {"up", "dormant"} /\ ifs[ctx.tab[k].iface].addr

(* Slots with a socket that no entry of the table has. *)
Leaked == {j \in DOMAIN ctx.lib :
              /\ ctx.lib[j].p.platform_attached = 1
              /\ ~\E k \in DOMAIN ctx.tab : /\ ctx.tab[k].h = ctx.lib[j].h
                                            /\ ctx.tab[k].fd = ctx.lib[j].sock}

(* Re-adding never loses a socket: the comments at handle_rtm_newaddr and  *)
(* in try_readd_removed_path take an entry with CLOSED status for one      *)
(* whose socket is gone.                                                   *)
NothingLeaked == Leaked = {}

(* A path without a socket although its interface is usable, its retries   *)
(* are not used up and the library knows its handle.                       *)
Owed ==
    \E k \in DOMAIN ctx.tab :
        /\ ctx.tab[k].att = 0 /\ ctx.fails[k] < Limit /\ Found(ctx, ctx.tab[k].h)
        /\ ifs[ctx.tab[k].iface].link = "up" /\ ifs[ctx.tab[k].iface].addr
        /\ ifs[ctx.tab[k].iface].route

(* A dropped path comes back once its interface is usable again: also when *)
(* the one netlink message that told of it was lost, when the re-add it    *)
(* started failed, or when only a route was missing.                       *)
Recovered == []<>~(Owed /\ st.state = "ESTABLISHED" /\ NothingLeaked)

(* platform_internal.h: the counter is reset on success. *)
AttachedCounterClear == \A k \in DOMAIN ctx.tab : ctx.tab[k].att = 1 => ctx.fails[k] = 0
=============================================================================
