----------------------------- MODULE LinuxHost ------------------------------
(***************************************************************************)
(* What the Linux client changes on the host and gives back: the TUN       *)
(* device (tun.c), routes (routing.c), kill switch rules (killswitch.c)    *)
(* and resolver settings (dns.c), driven by the callbacks and the clean-up *)
(* of platform_linux.c, all under src/src/platform/linux.                  *)
(*                                                                         *)
(* The set-up is a sequence of external commands.  Each one is a step of   *)
(* its own that may fail, and the process may be killed between any two.   *)
(* A command that deletes succeeds when there is something to delete; a    *)
(* copy may fail in either direction.  The device, the routes through it   *)
(* and its resolvectl settings vanish with the descriptor; pins, firewall  *)
(* rules and files stay.                                                   *)
(***************************************************************************)
EXTENDS Naturals, Sequences, FiniteSets

CONSTANTS
    Servers,      \* addresses the server's name resolves to
    V6Servers,    \* those of family AF_INET6
    Configs,      \* option sets: "ks", "via", "noroutes", "dns", "v6", "anon", "oneshot"
    UserRoutes,   \* sets of destinations the user may have routes of his own for
    None,         \* no address yet
    MaxFail,      \* bound: commands that fail
    MaxCrash,     \* bound: kills of the process
    MaxFlip       \* bound: starts and stops of systemd-resolved

ASSUME HostAssumption ==
    /\ V6Servers \subseteq Servers /\ None \notin Servers
    /\ {MaxFail, MaxCrash, MaxFlip} \subseteq Nat

VARIABLES
    x,        \* [p |-> the process's own record, h |-> the host], see Fresh
    pc,       \* the command to run next; "loop" is the event loop
    cstate,   \* the library's connection state
    cfg,      \* the options of the running process
    signalled,\* SIGTERM was delivered
    aborted,  \* the last set-up was given up
    fails, crashes, flips

vars == <<x, pc, cstate, cfg, signalled, aborted, fails, crashes, flips>>

-----------------------------------------------------------------------------
(* platform_ctx_t: server_addr is addr, server_ip_str is ip, a non-empty   *)
(* orig_gateway is gw; active, use_resolvectl and lock_fd of mqvpn_dns_t   *)
(* are dns, ctl and lock.                                                  *)
Fresh(addr) ==
    [tun |-> FALSE, up |-> FALSE, routing |-> FALSE, routing6 |-> FALSE, gw |-> FALSE, v6 |-> FALSE,
     ip |-> None, addr |-> addr, ks |-> FALSE, dns |-> FALSE, ctl |-> FALSE, lock |-> FALSE]

(* pins: host routes to servers; routes: those through the device; user:   *)
(* the user's own routes, by destination; rules: <<owner, rule, server>>,  *)
(* where the comment of a rule names its process.  A file that is not the  *)
(* user's, whole or cut short, is "ours"; uncopied: a copy or the writing  *)
(* of the new file has failed.                                             *)
CleanHost(user, resolved) ==
    [pins |-> {}, routes |-> {}, user |-> user, rules |-> {}, resolv |-> "orig", bak |-> "absent",
     uncopied |-> FALSE, link |-> FALSE, resolved |-> resolved]

Init ==
    /\ \E u \in UserRoutes, r \in BOOLEAN : x = [p |-> Fresh(None), h |-> CleanHost(u, r)]
    /\ pc = "off" /\ cstate = "CLOSED" /\ cfg = {}
    /\ signalled = FALSE /\ aborted = FALSE
    /\ fails = 0 /\ crashes = 0 /\ flips = 0

IsV6(y) == y.p.addr \in V6Servers

-----------------------------------------------------------------------------
(* Giving back *)

DestroyTun(y) ==
    [y EXCEPT !.p.tun = FALSE, !.p.up = FALSE, !.h.routes = {}, !.h.link = FALSE]

(* Mutant: the routes through the device are deleted, the server's own     *)
(* host route is forgotten.                                                *)
CleanupKeepsPin(y) ==
    IF ~y.p.routing THEN y
    ELSE [y EXCEPT !.h.routes = {}, !.p.routing = FALSE, !.p.routing6 = FALSE]

(* cleanup_routes *)
CleanupRoutes(y) ==
    IF ~y.p.routing THEN y
    ELSE [y EXCEPT
            !.h.routes = @ \ ({"default", "low", "high"} \cup (IF y.p.routing6 THEN {"v6low", "v6high"} ELSE {})),
            !.h.pins = IF y.p.gw THEN @ \ {y.p.ip} ELSE @,
            !.p.routing = FALSE, !.p.routing6 = FALSE]

(* cleanup_killswitch: the rules with this process's comment. *)
CleanupKillswitch(y) ==
    IF ~y.p.ks THEN y
    ELSE LET srv == IF IsV6(y) THEN "srv6" ELSE "srv4"
         IN  [y EXCEPT !.p.ks = FALSE,
                       !.h.rules = {r \in @ : ~(/\ r[1] = "me"
                                                /\ \/ r[2] \notin {"srv4", "srv6"}
                                                   \/ r[2] = srv /\ r[3] = y.p.ip)}]

(* Mutant: the lock file is given back by the next process only. *)
DnsRestoreKeepsLock(y, back) ==
    IF ~y.p.dns THEN y
    ELSE IF y.p.ctl THEN [y EXCEPT !.p.dns = FALSE, !.h.link = FALSE]
    ELSE IF back /\ y.h.bak # "absent"
    THEN [y EXCEPT !.p.dns = FALSE, !.h.resolv = y.h.bak, !.h.bak = "absent"]
    ELSE [y EXCEPT !.p.dns = FALSE, !.h.uncopied = TRUE]

(* mqvpn_dns_restore; back: a backup that is there can be copied back.     *)
(* Otherwise the generated file stays, and the backup too.                 *)
DnsRestore(y, back) ==
    IF ~y.p.dns THEN y
    ELSE IF y.p.ctl THEN [y EXCEPT !.p.dns = FALSE, !.h.link = FALSE]
    ELSE IF back /\ y.h.bak # "absent"
    THEN [y EXCEPT !.p.dns = FALSE, !.p.lock = FALSE, !.h.resolv = y.h.bak, !.h.bak = "absent"]
    ELSE [y EXCEPT !.p.dns = FALSE, !.p.lock = FALSE, !.h.uncopied = TRUE]

ManageRoutes == "noroutes" \notin cfg

(* The order of cb_state_changed, of the label fail and of the clean-up.   *)
Teardown(y, back) ==
    LET a == CleanupKillswitch(y)
        b == IF ManageRoutes THEN CleanupRoutes(a) ELSE a
    IN  DestroyTun(DnsRestore(b, back))

-----------------------------------------------------------------------------
(* Set-up: cb_tunnel_config_ready.  The label fail disconnects the client, *)
(* whose state is then CLOSED.                                             *)

Counts == UNCHANGED <<crashes, flips>>

Give(y, next) == x' = y /\ pc' = next /\ UNCHANGED <<cstate, cfg, signalled, aborted, fails>> /\ Counts

Fail(y, cause) ==
    /\ \E back \in BOOLEAN : x' = Teardown(y, back)
    /\ pc' = "loop" /\ cstate' = "CLOSED" /\ aborted' = TRUE
    /\ fails' = fails + cause /\ UNCHANGED <<cfg, signalled>> /\ Counts

CanFail == fails < MaxFail

ConfigReady ==
    /\ pc = "loop" /\ cstate = "CONNECTING" /\ ~signalled
    /\ x' = IF x.p.tun THEN DestroyTun(x) ELSE x
    /\ pc' = "tun" /\ aborted' = FALSE
    /\ UNCHANGED <<cstate, cfg, signalled, fails>> /\ Counts

(* mqvpn_tun_create, then address, MTU and up; IPv6 is best effort. *)
TunCreate ==
    /\ pc = "tun"
    /\ \/ Give([x EXCEPT !.p.tun = TRUE], "addr")
       \/ CanFail /\ Fail(x, 1)

TunConfigure ==
    /\ pc = "addr"
    /\ \/ \E v6 \in BOOLEAN : (v6 => "v6" \in cfg)
            /\ Give([x EXCEPT !.p.v6 = @ \/ v6], IF ManageRoutes THEN "discover" ELSE "ks")
       \/ CanFail /\ Fail(x, 1)

(* Mutant: an on-link server needs no pin, so its address is not noted. *)
DiscoverNotesLate ==
    /\ pc = "discover"
    /\ \/ Give([x EXCEPT !.p.ip = x.p.addr, !.p.gw = TRUE], "pin")
       \/ Give([x EXCEPT !.p.gw = FALSE], "catch1")
       \/ /\ CanFail /\ fails' = fails + 1
          /\ UNCHANGED <<x, pc, cstate, cfg, signalled, aborted>> /\ Counts

(* Mutant: the address is written down by the first session only. *)
DiscoverOnce ==
    /\ pc = "discover"
    /\ LET y == IF x.p.ip = None THEN [x EXCEPT !.p.ip = x.p.addr] ELSE x
       IN  \/ Give([y EXCEPT !.p.gw = TRUE], "pin")
           \/ Give([y EXCEPT !.p.gw = FALSE], "catch1")
           \/ CanFail /\ Fail(y, 1)

(* What "ip route get" may say of the way to the server: a gateway, an     *)
(* interface the server is on, or nothing the parser can use: the command  *)
(* failed, or the route has several next hops.                             *)
DiscoverRoute == {"gateway", "onlink", "unknown"}

(* The same question to "ip route show", which reads next hops as well. *)
DiscoverRouteFromShow == {"gateway", "onlink", "unknown"}

(* setup_routes, first part: server_ip_str, then the way to the server     *)
(* that is in force.  Unknown ends the set-up only when the first path     *)
(* names no interface.                                                     *)
Discover ==
    /\ pc = "discover"
    /\ \E get \in DiscoverRoute, show \in DiscoverRouteFromShow :
         LET way == IF get = "unknown" THEN show ELSE get
             y == [x EXCEPT !.p.ip = x.p.addr, !.p.gw = (way = "gateway")]
         IN  \/ way # "unknown" /\ Give(y, IF y.p.gw THEN "pin" ELSE "catch1")
             \/ CanFail /\ way = "unknown" /\ "anon" \in cfg /\ Fail(y, 1)
             \/ /\ CanFail /\ way = "unknown" /\ "anon" \notin cfg
                /\ x' = y /\ pc' = "catch1" /\ fails' = fails + 1
                /\ UNCHANGED <<cstate, cfg, signalled, aborted>> /\ Counts

(* Like the other routes it is set by "ip route replace", which puts it in *)
(* the place of a route the user had for the same destination.             *)
Pin ==
    /\ pc = "pin"
    /\ \/ Give([x EXCEPT !.h.pins = @ \cup {x.p.ip}, !.h.user = @ \ {x.p.ip}], "catch1")
       \/ CanFail /\ Fail(x, 1)

UndoPin(y) == IF y.p.gw THEN [y EXCEPT !.h.pins = @ \ {y.p.ip}] ELSE y

(* The catch-all: one default route, or two halves; a failure undoes them. *)
CatchAll ==
    /\ pc \in {"catch1", "catch2"}
    /\ \/ IF "via" \in cfg
          THEN Give([x EXCEPT !.h.routes = (@ \ {"low", "high"}) \cup {"default"}, !.h.user = @ \ {"default"},
                              !.p.routing = TRUE], "v61")
          ELSE IF pc = "catch1"
          THEN Give([x EXCEPT !.h.routes = @ \cup {"low"}, !.h.user = @ \ {"low"}], "catch2")
          ELSE Give([x EXCEPT !.h.routes = @ \cup {"high"}, !.h.user = @ \ {"high"}, !.p.routing = TRUE], "v61")
       \/ CanFail /\ Fail(UndoPin([x EXCEPT !.h.routes = @ \ {"low", "high"}]), 1)

(* Both IPv6 halves, or the client goes on without. *)
CatchAll6 ==
    /\ pc \in {"v61", "v62"}
    /\ \/ ~x.p.v6 /\ Give(x, "ks")
       \/ x.p.v6 /\ pc = "v61" /\ Give([x EXCEPT !.h.routes = @ \cup {"v6low"}, !.h.user = @ \ {"v6low"}], "v62")
       \/ x.p.v6 /\ pc = "v62" /\ Give([x EXCEPT !.h.routes = @ \cup {"v6high"}, !.h.user = @ \ {"v6high"},
                                                !.p.routing6 = TRUE], "ks")
       \/ /\ x.p.v6 /\ CanFail /\ fails' = fails + 1 /\ pc' = "ks"
          /\ UNCHANGED <<x, cstate, cfg, signalled, aborted>> /\ Counts

(* The rules of setup_killswitch in their order: the first ones must all   *)
(* be set, those for IPv6 beside an IPv4 server are best effort.           *)
MustRules(y) == IF IsV6(y) THEN <<"tun4", "lo4", "drop4", "srv6", "lo6", "drop6">>
                ELSE <<"tun4", "lo4", "drop4", "srv4">>

TryRules(y) == IF ~y.p.v6 THEN {} ELSE IF IsV6(y) THEN {"tun6"} ELSE {"tun6", "lo6", "drop6"}

Rule(y, n) == <<"me", n, IF n \in {"srv4", "srv6"} THEN y.p.ip ELSE None>>

Mine(y) == {r[2] : r \in {q \in y.h.rules : q[1] = "me"}}

(* The next rule that is not there; without an address the server's rule   *)
(* is refused by iptables.                                                 *)
KillSwitchMust ==
    /\ pc = "ks"
    /\ \/ ("ks" \notin cfg \/ x.p.ks) /\ Give(x, "dns")
       \/ /\ "ks" \in cfg /\ ~x.p.ks
          /\ LET missing == {k \in DOMAIN MustRules(x) : MustRules(x)[k] \notin Mine(x)}
                 first == CHOOSE k \in missing : \A j \in missing : k <= j
                 n == MustRules(x)[first]
                 last == missing = {first}
                 tried == [x EXCEPT !.p.ks = TRUE]
             IN  \/ /\ Rule(x, n)[3] # None \/ n \notin {"srv4", "srv6"}
                    /\ Give([x EXCEPT !.h.rules = @ \cup {Rule(x, n)}, !.p.ks = last],
                            IF last THEN "ks6" ELSE "ks")
                 \/ n \in {"srv4", "srv6"} /\ x.p.ip = None /\ Fail(tried, 0)
                 \/ CanFail /\ Fail(tried, 1)

(* Each of them is tried, whatever became of the others. *)
KillSwitchTry ==
    /\ pc = "ks6"
    /\ \E failed \in SUBSET TryRules(x) :
         /\ fails + Cardinality(failed) <= MaxFail /\ fails' = fails + Cardinality(failed)
         /\ x' = [x EXCEPT !.h.rules = @ \cup {Rule(x, n) : n \in TryRules(x) \ failed}]
         /\ pc' = "dns"
         /\ UNCHANGED <<cstate, cfg, signalled, aborted>> /\ Counts

(* mqvpn_dns_apply: resolvectl first, the file if it is not there or       *)
(* fails.  No failure here ends the set-up.                                *)
DnsCtl ==
    /\ pc = "dns"
    /\ \/ "dns" \notin cfg /\ Give(x, "event")
       \/ "dns" \in cfg /\ ~x.h.resolved /\ Give(x, "lock")
       \/ "dns" \in cfg /\ x.h.resolved
            /\ Give([x EXCEPT !.p.ctl = TRUE, !.p.dns = TRUE, !.h.link = TRUE], "event")
       \/ /\ "dns" \in cfg /\ x.h.resolved /\ CanFail
          /\ x' = [x EXCEPT !.p.ctl = FALSE] /\ pc' = "lock" /\ fails' = fails + 1
          /\ UNCHANGED <<cstate, cfg, signalled, aborted>> /\ Counts

(* flock: a lock this process did not give back refuses it as well.  When  *)
(* the file cannot be opened the client goes on without the lock.          *)
DnsLock ==
    /\ pc = "lock"
    /\ \/ ~x.p.lock /\ Give([x EXCEPT !.p.lock = TRUE], "backup")
       \/ x.p.lock /\ Give(x, "event")
       \/ /\ CanFail /\ fails' = fails + 1 /\ pc' = "backup"
          /\ UNCHANGED <<x, cstate, cfg, signalled, aborted>> /\ Counts

(* A copy that fails, at once or half-way, does not end the override. *)
DnsBackup ==
    /\ pc = "backup"
    /\ \/ Give([x EXCEPT !.h.bak = x.h.resolv], "write")
       \/ /\ CanFail /\ fails' = fails + 1 /\ pc' = "write"
          /\ \E b \in {x.h.bak, "ours"} : x' = [x EXCEPT !.h.bak = b, !.h.uncopied = TRUE]
          /\ UNCHANGED <<cstate, cfg, signalled, aborted>> /\ Counts

(* A file that cannot be opened is left alone, one that cannot be written  *)
(* is already empty.                                                       *)
DnsWrite ==
    /\ pc = "write"
    /\ \/ Give([x EXCEPT !.h.resolv = "ours", !.p.dns = TRUE], "event")
       \/ /\ CanFail /\ fails' = fails + 1 /\ pc' = "event"
          /\ \/ x' = [x EXCEPT !.p.lock = FALSE]
             \/ x' = [x EXCEPT !.p.lock = FALSE, !.h.resolv = "ours", !.h.uncopied = TRUE]
          /\ UNCHANGED <<cstate, cfg, signalled, aborted>> /\ Counts

(* The read event, then mqvpn_client_set_tun_active: ESTABLISHED. *)
TunActive ==
    /\ pc = "event"
    /\ \/ /\ x' = [x EXCEPT !.p.up = TRUE] /\ pc' = "loop" /\ cstate' = "ESTABLISHED"
          /\ UNCHANGED <<cfg, signalled, aborted, fails>> /\ Counts
       \/ CanFail /\ Fail(x, 1)

-----------------------------------------------------------------------------
(* The event loop *)

(* linux_platform_run_client up to event_base_dispatch. *)
Start ==
    /\ pc = "off"
    /\ \E s \in Servers, c \in Configs : x' = [x EXCEPT !.p = Fresh(s)] /\ cfg' = c
    /\ pc' = "loop" /\ cstate' = "CONNECTING" /\ signalled' = FALSE /\ aborted' = FALSE
    /\ UNCHANGED fails /\ Counts

(* cb_h3_conn_close, then cb_state_changed and cb_reconnect_scheduled: the *)
(* name is resolved again, after the old address was given back.           *)
ConnClosed ==
    /\ pc = "loop" /\ cstate \in {"CONNECTING", "ESTABLISHED"} /\ ~signalled
    /\ \E back \in BOOLEAN, s \in Servers :
         LET y == Teardown(x, back)
         IN  IF "oneshot" \in cfg
             THEN cstate' = "CLOSED" /\ x' = y
             ELSE cstate' = "RECONNECTING" /\ x' = [y EXCEPT !.p.addr = s]
    /\ UNCHANGED <<pc, cfg, signalled, aborted, fails>> /\ Counts

(* tick_reconnect *)
Reconnecting ==
    /\ pc = "loop" /\ cstate = "RECONNECTING" /\ ~signalled
    /\ cstate' = "CONNECTING"
    /\ UNCHANGED <<x, pc, cfg, signalled, aborted, fails>> /\ Counts

(* on_signal: mqvpn_client_disconnect returns at once when the state is    *)
(* CLOSED, and the loop is left by the change to CLOSED only.              *)
OnSignal ==
    /\ pc = "loop" /\ ~signalled
    /\ signalled' = TRUE /\ cstate' = "CLOSED"
    /\ IF cstate = "CLOSED" THEN UNCHANGED <<x, pc>>
       ELSE pc' = "exit" /\ \E back \in BOOLEAN : x' = Teardown(x, back)
    /\ UNCHANGED <<cfg, aborted, fails>> /\ Counts

(* The label cleanup of linux_platform_run_client. *)
Exit ==
    /\ pc = "exit"
    /\ \E back \in BOOLEAN : x' = Teardown(x, back)
    /\ pc' = "off" /\ cstate' = "CLOSED"
    /\ UNCHANGED <<cfg, signalled, aborted, fails>> /\ Counts

-----------------------------------------------------------------------------
(* The environment *)

(* The process is killed: the kernel closes its descriptors. *)
Crash ==
    /\ pc # "off" /\ crashes < MaxCrash
    /\ crashes' = crashes + 1 /\ pc' = "off" /\ cstate' = "CLOSED" /\ signalled' = FALSE
    /\ x' = [p |-> Fresh(None),
             h |-> [x.h EXCEPT !.routes = {}, !.link = FALSE,
                               !.rules = {<<"stale", r[2], r[3]>> : r \in @}]]
    /\ UNCHANGED <<cfg, aborted, fails, flips>>

ResolvedFlips ==
    /\ flips < MaxFlip
    /\ flips' = flips + 1
    /\ x' = [x EXCEPT !.h.resolved = ~@]
    /\ UNCHANGED <<pc, cstate, cfg, signalled, aborted, fails, crashes>>

Setup == \/ TunCreate \/ TunConfigure \/ Discover \/ Pin \/ CatchAll \/ CatchAll6
         \/ KillSwitchMust \/ KillSwitchTry \/ DnsCtl \/ DnsLock \/ DnsBackup \/ DnsWrite \/ TunActive

Next ==
    \/ Start \/ ConfigReady \/ Setup
    \/ ConnClosed \/ Reconnecting \/ OnSignal \/ Exit
    \/ Crash \/ ResolvedFlips

(* A command ends, and the loop is left once it was broken. *)
Busy == pc \notin {"off", "loop"}

Spec == Init /\ [][Next]_vars /\ ([]<>~Busy \/ []<><<Setup \/ Exit>>_vars)

-----------------------------------------------------------------------------
(* Properties *)

TypeOK ==
    /\ x.p \in [tun : BOOLEAN, up : BOOLEAN, routing : BOOLEAN, routing6 : BOOLEAN, gw : BOOLEAN,
                v6 : BOOLEAN, ip : Servers \cup {None}, addr : Servers \cup {None}, ks : BOOLEAN,
                dns : BOOLEAN, ctl : BOOLEAN, lock : BOOLEAN]
    /\ x.h.pins \subseteq Servers
    /\ x.h.routes \subseteq {"default", "low", "high", "v6low", "v6high"}
    /\ x.h.resolv \in {"orig", "ours"} /\ x.h.bak \in {"absent", "orig", "ours"}
    /\ x.h.user \subseteq UNION UserRoutes
    /\ {x.h.link, x.h.resolved, x.h.uncopied, signalled, aborted} \subseteq BOOLEAN
    /\ pc \in {"off", "loop", "exit", "tun", "addr", "discover", "pin", "catch1", "catch2", "v61", "v62",
               "ks", "ks6", "dns", "lock", "backup", "write", "event"}
    /\ cstate \in {"CONNECTING", "ESTABLISHED", "RECONNECTING", "CLOSED"}

(* Whatever command of the set-up failed and however often the client      *)
(* reconnected: while no tunnel is up no route through the device, no pin  *)
(* and no resolver setting or lock of this process is left, and when it    *)
(* has ended no firewall rule either.  (A backup of resolv.conf may stay:  *)
(* nobody unlinks it when writing the new file fails.  The user's own      *)
(* route to a destination that was pinned does not come back.)  The file   *)
(* needs that it could be copied and written, and that systemd-resolved    *)
(* was not started or stopped in between.                                  *)
Restored ==
    (pc = "off" \/ (pc = "loop" /\ cstate \in {"RECONNECTING", "CLOSED"})) /\ crashes = 0 =>
        /\ x.h.pins = {} /\ x.h.routes = {} /\ ~x.h.link
        /\ pc = "off" => x.h.rules = {}
        /\ flips = 0 => ~x.p.lock /\ (~x.h.uncopied => x.h.resolv = "orig")

(* What an OUTPUT chain lets out: into the tunnel, to the loopback, to a   *)
(* server, or anywhere else.  ACCEPT rules are inserted before, DROP rules *)
(* appended after whatever is there.                                       *)
Out(tun, lo, srv, drop) ==
    {d \in Servers \cup {"tun", "lo", "other"} :
        \/ \A r \in x.h.rules : r[2] # drop
        \/ \E r \in x.h.rules : (d = "tun" /\ r[2] = tun) \/ (d = "lo" /\ r[2] = lo) \/ (r[2] = srv /\ r[3] = d)}

Out4 == Out("tun4", "lo4", "srv4", "drop4")
Out6 == Out("tun6", "lo6", "srv6", "drop6")

(* While the tunnel is up and the kill switch is on, no IPv4 packet gets   *)
(* out but into the tunnel, to the loopback and to the server in use now,  *)
(* after a reconnect to another address too, and what the client sends to  *)
(* that server does get out.  The same of IPv6 when the server is reached  *)
(* by IPv6, or when the tunnel carries it and no command has failed: with  *)
(* an IPv4 server and an IPv4 tunnel no IPv6 rule is set (AllBlocked).     *)
(* Servers of killed processes, whose rules nobody deletes, are excepted.  *)
Protected ==
    pc = "loop" /\ cstate = "ESTABLISHED" /\ "ks" \in cfg =>
        LET inside == {"tun", "lo", x.p.addr} \cup {r[3] : r \in {q \in x.h.rules : q[1] = "stale"}}
        IN  /\ Out4 \subseteq inside /\ {"tun", "lo"} \subseteq Out4
            /\ x.p.addr \in IF IsV6(x) THEN Out6 ELSE Out4
            /\ IsV6(x) \/ (x.p.v6 /\ fails = 0) => Out6 \subseteq inside

(* While the tunnel is up, in the first session and in every later one,    *)
(* everything that was asked for is in force: the server in use now is     *)
(* pinned where it has a gateway, so that the tunnel's own packets do not  *)
(* enter the tunnel, all other traffic does, and (when no command failed   *)
(* and systemd-resolved was not started or stopped) names are resolved by  *)
(* the servers of the VPN, whatever lock, flag or file earlier sessions    *)
(* and killed processes have left.                                         *)
InForce ==
    pc = "loop" /\ cstate = "ESTABLISHED" =>
        /\ ManageRoutes => /\ x.p.gw => x.p.addr \in x.h.pins
                           /\ (IF "via" \in cfg THEN {"default"} ELSE {"low", "high"}) \subseteq x.h.routes
        /\ "dns" \in cfg /\ fails = 0 /\ flips = 0 => IF x.p.ctl THEN x.h.link ELSE x.h.resolv = "ours"

(* The tunnel is given up because a command failed, and not because of the *)
(* options: except the kill switch without routes, see KillSwitchAlone.    *)
AbortHasCause == aborted => fails > 0 \/ {"ks", "noroutes"} \subseteq cfg

(* Set-up is deterministic but for failing commands: no reconnect, crash   *)
(* or change of the resolver leaves something that makes it give up.       *)
SetUpSound == TypeOK /\ AbortHasCause

(* The kill switch can be used without the routes. *)
KillSwitchAlone == aborted => fails > 0

(* The resolver settings the user had are in place or in the backup.       *)
ResolvConfKept == "orig" \in {x.h.resolv, x.h.bak}

(* SIGTERM ends the process. *)
TermEnds == signalled ~> pc = "off"

(* The kill switch "blocks all traffic outside the VPN tunnel". *)
AllBlocked ==
    pc = "loop" /\ cstate = "ESTABLISHED" /\ "ks" \in cfg => "other" \notin Out4 \cup Out6

(* It blocks traffic "when the VPN connection drops". *)
BlockedOnDrop ==
    [][cstate = "ESTABLISHED" /\ cstate' = "RECONNECTING" /\ "ks" \in cfg =>
         <<"me", "drop4", None>> \in x'.h.rules]_vars

(* Kill switch and routes are "pinned to the address resolved at startup". *)
PinnedToStart == [][pc # "off" /\ pc' # "off" /\ x.p.ip # None => x'.p.ip = x.p.ip]_vars

(* A route the user had is not taken away. *)
UserRoutesKept == [][x'.h.user = x.h.user]_vars
=============================================================================
