----------------------------- MODULE HostProofs -----------------------------
(***************************************************************************)
(* What the client does to the host it runs on.  Part 1: what LinuxHost    *)
(* guarantees for every set of servers, of options and for any number of   *)
(* failures, kills and changes of the resolver.  Part 2: what DarwinDns    *)
(* guarantees for every number of services, processes, faults and edits.   *)
(* Part 3: what LinuxPaths guarantees for every number of interfaces,      *)
(* paths, retries and buffered netlink messages.                           *)
(***************************************************************************)
EXTENDS LinuxHost, DarwinDns, LinuxPaths, FiniteSetTheorems, FunctionTheorems,
        WellFoundedInduction, TLAPS

-----------------------------------------------------------------------------
(* The inductive invariant *)

RuleNames == {"tun4", "lo4", "drop4", "srv4", "srv6", "lo6", "drop6", "tun6"}
Rules     == {"me", "stale"} \X RuleNames \X (Servers \cup {None})

ClientType == [tun : BOOLEAN, up : BOOLEAN, routing : BOOLEAN, routing6 : BOOLEAN, gw : BOOLEAN,
             v6 : BOOLEAN, ip : Servers \cup {None}, addr : Servers \cup {None}, ks : BOOLEAN,
             dns : BOOLEAN, ctl : BOOLEAN, lock : BOOLEAN]

HostType == [pins : SUBSET Servers, routes : SUBSET {"default", "low", "high", "v6low", "v6high"},
             user : SUBSET UNION UserRoutes, uncopied : BOOLEAN, rules : SUBSET Rules, resolv : {"orig", "ours"}, bak : {"absent", "orig", "ours"},
             link : BOOLEAN, resolved : BOOLEAN]

HostWorld == [p : ClientType, h : HostType]

HostPcs == {"off", "loop", "exit", "tun", "addr", "discover", "pin", "catch1", "catch2", "v61", "v62",
        "ks", "ks6", "dns", "lock", "backup", "write", "event"}

HostTypeOK ==
    /\ x \in HostWorld /\ pc \in HostPcs
    /\ cstate \in {"CONNECTING", "ESTABLISHED", "RECONNECTING", "CLOSED"}
    /\ signalled \in BOOLEAN /\ aborted \in BOOLEAN
    /\ fails \in Nat /\ crashes \in Nat /\ flips \in Nat

(* Between two tunnels; the process may be off, waiting or on its way out. *)
Between == pc \in {"off", "exit"} \/ (pc = "loop" /\ cstate # "ESTABLISHED")

(* Steps of the set-up, by what they come after. *)
BeforeRules == Between \/ pc \in {"tun", "addr", "discover", "pin", "catch1", "catch2", "v61", "v62"}
AfterMust   == pc \in {"ks6", "dns", "lock", "backup", "write", "event"} \/ (pc = "loop" /\ cstate = "ESTABLISHED")
AfterDns    == pc = "event" \/ (pc = "loop" /\ cstate = "ESTABLISHED")

(* A running process has an address, and set-up notes it before it is used: *)
(* without the routes it is never noted.                                    *)
AddressNoted ==
    /\ pc # "off" => x.p.addr \in Servers
    /\ ~ManageRoutes => x.p.ip = None \/ pc = "off"
    /\ ~Between /\ pc \notin {"tun", "addr", "discover"} /\ ManageRoutes => x.p.ip = x.p.addr
    /\ pc \in {"discover", "pin", "catch1", "catch2", "v61", "v62"} => ManageRoutes
    /\ pc \notin {"off", "loop"} /\ pc # "exit" => cstate = "CONNECTING"
    /\ pc = "exit" => cstate = "CLOSED"

(* A rule of this process: its name and the address it lets through. *)
WellShaped(r) ==
    /\ r = Rule(x, r[2])
    /\ r[2] \in {"srv4", "srv6"} => r[2] = (IF IsV6(x) THEN "srv6" ELSE "srv4") /\ x.p.ip # None

(* The rules of this process are those CleanupKillswitch deletes, they are *)
(* there only once it would delete them, and all of the first ones are     *)
(* there once the set-up has gone past them.                               *)
Shaped ==
    \A r \in x.h.rules : r[1] = "me" => WellShaped(r)

NoneMine    == \A r \in x.h.rules : r[1] # "me"
AllMine     == \A r \in x.h.rules : r[1] = "me"
MustMissing == \E k \in DOMAIN MustRules(x) : MustRules(x)[k] \notin Mine(x)
MustThere   == \A k \in DOMAIN MustRules(x) : Rule(x, MustRules(x)[k]) \in x.h.rules

RulesTracked ==
    /\ Shaped
    /\ BeforeRules => ~x.p.ks /\ NoneMine
    /\ pc = "ks" => ~x.p.ks /\ (IF "ks" \in cfg THEN MustMissing ELSE NoneMine)
    /\ AfterMust => (x.p.ks <=> "ks" \in cfg) /\ (IF "ks" \in cfg THEN MustThere /\ x.p.ip # None ELSE NoneMine)
    /\ pc = "ks6" => "ks" \in cfg
    /\ crashes = 0 => AllMine

(* What cleanup_routes and the undo of a failed catch-all will remove. *)
PinsTracked ==
    crashes = 0 =>
        /\ x.h.pins \subseteq {x.p.ip}
        /\ ~ManageRoutes => x.h.pins = {}
        /\ Between \/ pc \in {"tun", "addr", "discover", "pin"} => x.h.pins = {}
        /\ x.h.pins # {} => x.p.gw /\ (x.p.routing \/ pc \in {"catch1", "catch2"})
        /\ pc = "pin" => x.p.gw

(* What DestroyTun takes along exists only with a tunnel. *)
LinkTracked == Between => x.h.routes = {} /\ ~x.h.link

(* The flags and the lock of mqvpn_dns_t are not out of date; the user's   *)
(* resolv.conf is in place, or mqvpn_dns_restore brings it back.           *)
DnsTracked ==
    /\ flips = 0 =>
        /\ x.p.ctl => x.h.resolved
        /\ pc \in {"lock", "backup", "write"} => ~x.p.ctl
        /\ ~AfterDns => ~x.p.dns
        /\ ~AfterDns /\ pc \notin {"backup", "write"} => ~x.p.lock
        /\ AfterDns /\ x.p.lock => x.p.dns /\ ~x.p.ctl
    /\ crashes = 0 /\ flips = 0 /\ ~x.h.uncopied =>
        /\ x.h.bak # "ours"
        /\ ~AfterDns => x.h.resolv = "orig"
        /\ pc = "write" => x.h.bak = "orig"
        /\ AfterDns => IF x.p.dns /\ ~x.p.ctl THEN x.h.bak = "orig" ELSE x.h.resolv = "orig"

HostInv ==
    /\ HostTypeOK /\ AddressNoted /\ RulesTracked /\ PinsTracked /\ LinkTracked /\ DnsTracked
    /\ AbortHasCause

-----------------------------------------------------------------------------
(* Giving back *)

LEMMA DestroyTunEffect ==
  ASSUME NEW y \in HostWorld
  PROVE  LET z == DestroyTun(y)
         IN  /\ z \in HostWorld
             /\ z.p = [y.p EXCEPT !.tun = FALSE, !.up = FALSE]
             /\ z.h = [y.h EXCEPT !.routes = {}, !.link = FALSE]
BY DEF DestroyTun, HostWorld, ClientType, HostType

(* The fields that no clean-up of rules, routes or resolver touches. *)
Identity(y, z) ==
    /\ z.p.ip = y.p.ip /\ z.p.addr = y.p.addr /\ z.p.ctl = y.p.ctl /\ z.p.gw = y.p.gw
    /\ z.h.resolved = y.h.resolved

LEMMA KillswitchEffect ==
  ASSUME NEW y \in HostWorld
  PROVE  LET z == CleanupKillswitch(y)
         IN  /\ z \in HostWorld /\ Identity(y, z)
             /\ ~z.p.ks /\ z.p.dns = y.p.dns /\ z.p.lock = y.p.lock /\ z.p.routing = y.p.routing
             /\ z.h.pins = y.h.pins /\ z.h.resolv = y.h.resolv /\ z.h.bak = y.h.bak /\ z.h.uncopied = y.h.uncopied
             /\ z.h.rules = IF y.p.ks
                            THEN {r \in y.h.rules :
                                    ~(/\ r[1] = "me"
                                      /\ \/ r[2] \notin {"srv4", "srv6"}
                                         \/ r[2] = (IF IsV6(y) THEN "srv6" ELSE "srv4") /\ r[3] = y.p.ip)}
                            ELSE y.h.rules
<1>1. CASE y.p.ks
  <2> DEFINE z == CleanupKillswitch(y)
  <2>1. z.p \in ClientType
    BY <1>1 DEF CleanupKillswitch, HostWorld, ClientType
  <2>2. z.h \in HostType
    BY <1>1 DEF CleanupKillswitch, HostWorld, HostType
  <2>3. z \in HostWorld
    BY <1>1, <2>1, <2>2 DEF CleanupKillswitch, HostWorld
  <2>4. Identity(y, z)
    BY <1>1 DEF CleanupKillswitch, HostWorld, ClientType, HostType, Identity
  <2>5. /\ ~z.p.ks /\ z.p.dns = y.p.dns /\ z.p.lock = y.p.lock /\ z.p.routing = y.p.routing
        /\ z.h.pins = y.h.pins /\ z.h.resolv = y.h.resolv /\ z.h.bak = y.h.bak /\ z.h.uncopied = y.h.uncopied
    BY <1>1 DEF CleanupKillswitch, HostWorld, ClientType, HostType
  <2>6. z.h.rules = {r \in y.h.rules :
                       ~(/\ r[1] = "me"
                         /\ \/ r[2] \notin {"srv4", "srv6"}
                            \/ r[2] = (IF IsV6(y) THEN "srv6" ELSE "srv4") /\ r[3] = y.p.ip)}
    BY <1>1 DEF CleanupKillswitch, HostWorld, HostType
  <2> HIDE DEF z
  <2> QED BY <1>1, <2>3, <2>4, <2>5, <2>6 DEF z
<1>2. CASE ~y.p.ks
  BY <1>2 DEF CleanupKillswitch, HostWorld, ClientType, HostType, Identity
<1> QED BY <1>1, <1>2

LEMMA RoutesEffect ==
  ASSUME NEW y \in HostWorld
  PROVE  LET z == CleanupRoutes(y)
         IN  /\ z \in HostWorld /\ Identity(y, z)
             /\ z.p.ks = y.p.ks /\ z.p.dns = y.p.dns /\ z.p.lock = y.p.lock
             /\ z.h.rules = y.h.rules /\ z.h.resolv = y.h.resolv /\ z.h.bak = y.h.bak /\ z.h.uncopied = y.h.uncopied
             /\ z.h.pins = IF y.p.routing /\ y.p.gw THEN y.h.pins \ {y.p.ip} ELSE y.h.pins
<1>1. CASE y.p.routing
  <2> DEFINE z == CleanupRoutes(y)
  <2>1. z.p \in ClientType
    BY ZenonT(90), <1>1 DEF CleanupRoutes, HostWorld, ClientType
  <2>2. z.h \in HostType
    BY <1>1 DEF CleanupRoutes, HostWorld, HostType
  <2>3. z \in HostWorld
    BY <1>1, <2>1, <2>2 DEF CleanupRoutes, HostWorld
  <2>4. Identity(y, z)
    BY <1>1 DEF CleanupRoutes, HostWorld, ClientType, HostType, Identity
  <2>5. /\ z.p.ks = y.p.ks /\ z.p.dns = y.p.dns /\ z.p.lock = y.p.lock
        /\ z.h.rules = y.h.rules /\ z.h.resolv = y.h.resolv /\ z.h.bak = y.h.bak /\ z.h.uncopied = y.h.uncopied
    BY ZenonT(90), <1>1 DEF CleanupRoutes, HostWorld, ClientType, HostType
  <2>6. z.h.pins = IF y.p.gw THEN y.h.pins \ {y.p.ip} ELSE y.h.pins
    BY <1>1 DEF CleanupRoutes, HostWorld, HostType
  <2> HIDE DEF z
  <2> QED BY <1>1, <2>3, <2>4, <2>5, <2>6 DEF z
<1>2. CASE ~y.p.routing
  BY <1>2 DEF CleanupRoutes, Identity
<1> QED BY <1>1, <1>2

(* The backup is there and can be copied back. *)
Copied(y, back) == y.p.dns /\ ~y.p.ctl /\ back /\ y.h.bak # "absent"
Missed(y, back) == y.p.dns /\ ~y.p.ctl /\ ~(back /\ y.h.bak # "absent")

LEMMA DnsEffect ==
  ASSUME NEW y \in HostWorld, NEW back \in BOOLEAN
  PROVE  LET z == DnsRestore(y, back)
         IN  /\ z \in HostWorld /\ Identity(y, z)
             /\ z.p.ks = y.p.ks /\ ~z.p.dns
             /\ z.p.lock = IF y.p.dns /\ ~y.p.ctl THEN FALSE ELSE y.p.lock
             /\ z.h.rules = y.h.rules /\ z.h.pins = y.h.pins
             /\ z.h.resolv = IF Copied(y, back) THEN y.h.bak ELSE y.h.resolv
             /\ z.h.bak = IF Copied(y, back) THEN "absent" ELSE y.h.bak
             /\ z.h.uncopied = IF Missed(y, back) THEN TRUE ELSE y.h.uncopied
<1>1. CASE ~y.p.dns
  BY <1>1 DEF DnsRestore, Identity, HostWorld, ClientType, Copied, Missed
<1>2. CASE y.p.dns /\ y.p.ctl
  BY <1>2 DEF DnsRestore, Identity, HostWorld, ClientType, HostType, Copied, Missed
<1>3. CASE Copied(y, back)
  <2> DEFINE z == DnsRestore(y, back)
  <2>0. z = [y EXCEPT !.p.dns = FALSE, !.p.lock = FALSE, !.h.resolv = y.h.bak, !.h.bak = "absent"]
    BY <1>3 DEF DnsRestore, Copied
  <2>1. z.p = [y.p EXCEPT !.dns = FALSE, !.lock = FALSE] /\ z.h = [y.h EXCEPT !.resolv = y.h.bak, !.bak = "absent"]
        /\ z = [p |-> z.p, h |-> z.h]
    BY <2>0 DEF HostWorld
  <2>2. ~Missed(y, back) /\ y.p.dns /\ ~y.p.ctl /\ y.h.bak # "absent"
    BY <1>3 DEF Copied, Missed
  <2> HIDE DEF z
  <2>3. z.p \in ClientType /\ z.p.ks = y.p.ks /\ ~z.p.dns /\ z.p.lock = FALSE
        /\ z.p.ip = y.p.ip /\ z.p.addr = y.p.addr /\ z.p.ctl = y.p.ctl /\ z.p.gw = y.p.gw
    BY <2>1 DEF HostWorld, ClientType
  <2>4. z.h \in HostType /\ z.h.rules = y.h.rules /\ z.h.pins = y.h.pins /\ z.h.resolv = y.h.bak /\ z.h.bak = "absent"
        /\ z.h.uncopied = y.h.uncopied /\ z.h.resolved = y.h.resolved
    BY <2>1, <2>2 DEF HostWorld, HostType
  <2>5. z \in HostWorld
    BY <2>1, <2>3, <2>4 DEF HostWorld
  <2> QED BY <1>3, <2>2, <2>3, <2>4, <2>5 DEF z, Identity
<1>4. CASE Missed(y, back)
  <2> DEFINE z == DnsRestore(y, back)
  <2>0. z = [y EXCEPT !.p.dns = FALSE, !.p.lock = FALSE, !.h.uncopied = TRUE]
    BY <1>4 DEF DnsRestore, Missed
  <2>1. z.p = [y.p EXCEPT !.dns = FALSE, !.lock = FALSE] /\ z.h = [y.h EXCEPT !.uncopied = TRUE]
        /\ z = [p |-> z.p, h |-> z.h]
    BY <2>0 DEF HostWorld
  <2>2. ~Copied(y, back) /\ y.p.dns /\ ~y.p.ctl
    BY <1>4 DEF Copied, Missed
  <2> HIDE DEF z
  <2>3. z.p \in ClientType /\ z.p.ks = y.p.ks /\ ~z.p.dns /\ z.p.lock = FALSE
        /\ z.p.ip = y.p.ip /\ z.p.addr = y.p.addr /\ z.p.ctl = y.p.ctl /\ z.p.gw = y.p.gw
    BY <2>1 DEF HostWorld, ClientType
  <2>4. z.h \in HostType /\ z.h.rules = y.h.rules /\ z.h.pins = y.h.pins /\ z.h.resolv = y.h.resolv
        /\ z.h.bak = y.h.bak /\ z.h.uncopied = TRUE /\ z.h.resolved = y.h.resolved
    BY <2>1 DEF HostWorld, HostType
  <2>5. z \in HostWorld
    BY <2>1, <2>3, <2>4 DEF HostWorld
  <2> QED BY <1>4, <2>2, <2>3, <2>4, <2>5 DEF z, Identity
<1> QED BY <1>1, <1>2, <1>3, <1>4 DEF HostWorld, ClientType, Copied, Missed

(* cleanup_killswitch, cleanup_routes, mqvpn_dns_restore and the end of    *)
(* the device, one after the other.                                        *)
LEMMA TeardownEffect ==
  ASSUME NEW y \in HostWorld, NEW back \in BOOLEAN
  PROVE  LET z == Teardown(y, back)
         IN  /\ z \in HostWorld /\ Identity(y, z)
             /\ ~z.p.ks /\ ~z.p.dns /\ z.h.routes = {} /\ ~z.h.link
             /\ z.p.lock = IF y.p.dns /\ ~y.p.ctl THEN FALSE ELSE y.p.lock
             /\ z.h.resolv = IF Copied(y, back) THEN y.h.bak ELSE y.h.resolv
             /\ z.h.bak = IF Copied(y, back) THEN "absent" ELSE y.h.bak
             /\ z.h.uncopied = IF Missed(y, back) THEN TRUE ELSE y.h.uncopied
             /\ z.h.pins = IF ManageRoutes /\ y.p.routing /\ y.p.gw THEN y.h.pins \ {y.p.ip} ELSE y.h.pins
             /\ z.h.rules = IF y.p.ks
                            THEN {r \in y.h.rules :
                                    ~(/\ r[1] = "me"
                                      /\ \/ r[2] \notin {"srv4", "srv6"}
                                         \/ r[2] = (IF IsV6(y) THEN "srv6" ELSE "srv4") /\ r[3] = y.p.ip)}
                            ELSE y.h.rules
<1> DEFINE a == CleanupKillswitch(y)
           b == IF ManageRoutes THEN CleanupRoutes(a) ELSE a
           d == DnsRestore(b, back)
           z == DestroyTun(d)
<1>1. a \in HostWorld /\ Identity(y, a)
  BY KillswitchEffect
<1>2. b \in HostWorld /\ Identity(y, b) /\ ~b.p.ks /\ b.p.dns = y.p.dns /\ b.p.lock = y.p.lock
      /\ b.h.rules = a.h.rules /\ b.h.resolv = y.h.resolv /\ b.h.bak = y.h.bak /\ b.h.uncopied = y.h.uncopied
      /\ b.h.pins = IF ManageRoutes /\ y.p.routing /\ y.p.gw THEN y.h.pins \ {y.p.ip} ELSE y.h.pins
  <2>1. /\ ~a.p.ks /\ a.p.dns = y.p.dns /\ a.p.lock = y.p.lock /\ a.p.routing = y.p.routing
        /\ a.h.pins = y.h.pins /\ a.h.resolv = y.h.resolv /\ a.h.bak = y.h.bak /\ a.h.uncopied = y.h.uncopied
    BY KillswitchEffect
  <2>2. CASE ManageRoutes
    <3> DEFINE r == CleanupRoutes(a)
    <3>1. b = r
      BY <2>2
    <3> HIDE DEF a
    <3>2. /\ r \in HostWorld /\ Identity(a, r)
          /\ r.p.ks = a.p.ks /\ r.p.dns = a.p.dns /\ r.p.lock = a.p.lock
          /\ r.h.rules = a.h.rules /\ r.h.resolv = a.h.resolv /\ r.h.bak = a.h.bak /\ r.h.uncopied = a.h.uncopied
          /\ r.h.pins = IF a.p.routing /\ a.p.gw THEN a.h.pins \ {a.p.ip} ELSE a.h.pins
      BY SMTT(90), <1>1, RoutesEffect
    <3> HIDE DEF r, b
    <3> QED BY <1>1, <2>1, <2>2, <3>1, <3>2 DEF Identity
  <2>3. CASE ~ManageRoutes
    BY <2>3, <1>1, <2>1
  <2> QED BY <2>2, <2>3
<1>3. d \in HostWorld /\ Identity(y, d) /\ ~d.p.ks /\ ~d.p.dns
      /\ d.p.lock = (IF y.p.dns /\ ~y.p.ctl THEN FALSE ELSE y.p.lock)
      /\ d.h.rules = a.h.rules /\ d.h.pins = b.h.pins
      /\ d.h.resolv = (IF Copied(y, back) THEN y.h.bak ELSE y.h.resolv)
      /\ d.h.bak = (IF Copied(y, back) THEN "absent" ELSE y.h.bak)
      /\ d.h.uncopied = (IF Missed(y, back) THEN TRUE ELSE y.h.uncopied)
  <2> HIDE DEF b
  <2>1. /\ d \in HostWorld /\ Identity(b, d)
        /\ d.p.ks = b.p.ks /\ ~d.p.dns
        /\ d.p.lock = (IF b.p.dns /\ ~b.p.ctl THEN FALSE ELSE b.p.lock)
        /\ d.h.rules = b.h.rules /\ d.h.pins = b.h.pins
        /\ d.h.resolv = (IF Copied(b, back) THEN b.h.bak ELSE b.h.resolv)
        /\ d.h.bak = (IF Copied(b, back) THEN "absent" ELSE b.h.bak)
        /\ d.h.uncopied = (IF Missed(b, back) THEN TRUE ELSE b.h.uncopied)
    BY <1>2, DnsEffect
  <2> HIDE DEF a, d
  <2>2. Copied(b, back) = Copied(y, back) /\ Missed(b, back) = Missed(y, back)
    BY <1>2 DEF Copied, Missed, Identity
  <2> QED BY <1>2, <2>1, <2>2 DEF Identity
<1>4. z \in HostWorld /\ z.p = [d.p EXCEPT !.tun = FALSE, !.up = FALSE]
      /\ z.h = [d.h EXCEPT !.routes = {}, !.link = FALSE]
  BY <1>3, DestroyTunEffect
<1>5. /\ Identity(y, z) /\ z.p.ks = d.p.ks /\ z.p.dns = d.p.dns /\ z.p.lock = d.p.lock
      /\ z.h.routes = {} /\ ~z.h.link /\ z.h.rules = d.h.rules /\ z.h.pins = d.h.pins
      /\ z.h.resolv = d.h.resolv /\ z.h.bak = d.h.bak /\ z.h.uncopied = d.h.uncopied
  <2> HIDE DEF d, z
  <2> QED BY ZenonT(90), <1>3, <1>4 DEF Identity, HostWorld, ClientType, HostType
<1>6. z = Teardown(y, back)
  BY DEF Teardown
<1>7. a.h.rules = IF y.p.ks
                  THEN {r \in y.h.rules :
                          ~(/\ r[1] = "me"
                            /\ \/ r[2] \notin {"srv4", "srv6"}
                               \/ r[2] = (IF IsV6(y) THEN "srv6" ELSE "srv4") /\ r[3] = y.p.ip)}
                  ELSE y.h.rules
  BY KillswitchEffect
<1> HIDE DEF a, b, d, z
<1> QED BY <1>2, <1>3, <1>4, <1>5, <1>6, <1>7

-----------------------------------------------------------------------------
(* What a clean-up needs to find, and what it leaves *)

Removable(y, r) ==
    /\ y.p.ks
    /\ \/ r[2] \notin {"srv4", "srv6"}
       \/ r[2] = (IF IsV6(y) THEN "srv6" ELSE "srv4") /\ r[3] = y.p.ip

Accounted(y) ==
    /\ y \in HostWorld /\ y.p.addr \in Servers /\ (~ManageRoutes => y.p.ip = None)
    /\ \A r \in y.h.rules : r[1] = "me" => Removable(y, r)
    /\ crashes = 0 => /\ \A r \in y.h.rules : r[1] = "me"
                      /\ y.h.pins \subseteq {y.p.ip}
                      /\ y.h.pins # {} => ManageRoutes /\ y.p.gw /\ y.p.routing
    /\ flips = 0 => (y.p.ctl => y.h.resolved) /\ (y.p.lock => y.p.dns /\ ~y.p.ctl)
    /\ crashes = 0 /\ flips = 0 /\ ~y.h.uncopied =>
         y.h.bak # "ours" /\ IF y.p.dns /\ ~y.p.ctl THEN y.h.bak = "orig" ELSE y.h.resolv = "orig"

Gone(z) ==
    /\ z \in HostWorld /\ z.p.addr \in Servers /\ (~ManageRoutes => z.p.ip = None)
    /\ ~z.p.ks /\ z.h.routes = {} /\ ~z.h.link
    /\ \A r \in z.h.rules : r[1] # "me"
    /\ crashes = 0 => z.h.rules = {} /\ z.h.pins = {}
    /\ flips = 0 => (z.p.ctl => z.h.resolved) /\ ~z.p.dns /\ ~z.p.lock
    /\ crashes = 0 /\ flips = 0 /\ ~z.h.uncopied => z.h.bak # "ours" /\ z.h.resolv = "orig"

LEMMA TeardownGone ==
  ASSUME NEW y, Accounted(y), NEW back \in BOOLEAN
  PROVE  Gone(Teardown(y, back)) /\ Teardown(y, back).p.addr = y.p.addr
<1> DEFINE z == Teardown(y, back)
<1>0. y \in HostWorld
  BY DEF Accounted
<1>1. /\ z \in HostWorld /\ Identity(y, z)
      /\ ~z.p.ks /\ ~z.p.dns /\ z.h.routes = {} /\ ~z.h.link
      /\ z.p.lock = (IF y.p.dns /\ ~y.p.ctl THEN FALSE ELSE y.p.lock)
      /\ z.h.resolv = (IF Copied(y, back) THEN y.h.bak ELSE y.h.resolv)
      /\ z.h.bak = (IF Copied(y, back) THEN "absent" ELSE y.h.bak)
      /\ z.h.uncopied = (IF Missed(y, back) THEN TRUE ELSE y.h.uncopied)
      /\ z.h.pins = (IF ManageRoutes /\ y.p.routing /\ y.p.gw THEN y.h.pins \ {y.p.ip} ELSE y.h.pins)
      /\ z.h.rules = IF y.p.ks
                     THEN {r \in y.h.rules :
                             ~(/\ r[1] = "me"
                               /\ \/ r[2] \notin {"srv4", "srv6"}
                                  \/ r[2] = (IF IsV6(y) THEN "srv6" ELSE "srv4") /\ r[3] = y.p.ip)}
                     ELSE y.h.rules
  BY <1>0, TeardownEffect
<1> HIDE DEF z
<1>2. \A r \in z.h.rules : r[1] # "me"
  BY <1>1 DEF Accounted, Removable
<1>3. crashes = 0 => z.h.rules = {} /\ z.h.pins = {}
  <2> SUFFICES ASSUME crashes = 0 PROVE z.h.rules = {} /\ z.h.pins = {}
    OBVIOUS
  <2>1. z.h.rules \subseteq y.h.rules
    BY <1>1
  <2>2. z.h.rules = {}
    BY <1>2, <2>1 DEF Accounted
  <2>3. z.h.pins = {}
    BY <1>1 DEF Accounted
  <2> QED BY <2>2, <2>3
<1>4. /\ flips = 0 => (z.p.ctl => z.h.resolved) /\ ~z.p.dns /\ ~z.p.lock
      /\ crashes = 0 /\ flips = 0 /\ ~z.h.uncopied => z.h.bak # "ours" /\ z.h.resolv = "orig"
  BY <1>1 DEF Accounted, Identity, Copied, Missed
<1>5. z.p.addr \in Servers /\ (~ManageRoutes => z.p.ip = None) /\ z.p.addr = y.p.addr
  BY <1>1 DEF Accounted, Identity
<1>6. Gone(z) /\ z.p.addr = y.p.addr
  BY <1>1, <1>2, <1>3, <1>4, <1>5 DEF Gone
<1> QED BY <1>6 DEF z

(* A state between two tunnels is as the invariant wants it. *)
LEMMA GoneInv ==
  ASSUME NEW z, Gone(z), x' = z, UNCHANGED <<crashes, flips>>, cfg' = cfg \/ z.p.ip = None,
         pc' \in {"off", "loop", "exit"}, cstate' \in {"CONNECTING", "RECONNECTING", "CLOSED"},
         pc' = "exit" => cstate' = "CLOSED",
         signalled' \in BOOLEAN, aborted' \in BOOLEAN, fails' \in Nat, crashes \in Nat, flips \in Nat,
         AbortHasCause'
  PROVE  HostInv'
<1>0. Between' /\ BeforeRules' /\ ~AfterMust' /\ ~AfterDns'
  BY DEF Between, BeforeRules, AfterMust, AfterDns
<1>1. HostTypeOK'
  BY DEF HostTypeOK, Gone, HostPcs
<1>2. AddressNoted'
  BY <1>0 DEF AddressNoted, Gone, ManageRoutes
<1>3. RulesTracked'
  BY <1>0 DEF RulesTracked, Shaped, NoneMine, AllMine, Gone
<1>4. PinsTracked'
  BY <1>0 DEF PinsTracked, Gone
<1>5. LinkTracked'
  BY <1>0 DEF LinkTracked, Gone
<1>6. DnsTracked'
  BY <1>0 DEF DnsTracked, Gone
<1> QED BY <1>1, <1>2, <1>3, <1>4, <1>5, <1>6 DEF HostInv

(* The label fail. *)
LEMMA FailInv ==
  ASSUME HostInv, NEW y, Accounted(y), NEW cause \in {0, 1}, Fail(y, cause),
         cause = 1 \/ {"ks", "noroutes"} \subseteq cfg
  PROVE  HostInv'
<1>1. PICK back \in BOOLEAN : x' = Teardown(y, back)
  BY DEF Fail
<1>3. Gone(x')
  BY <1>1, TeardownGone
<1>2. fails' \in Nat /\ AbortHasCause'
  BY DEF Fail, AbortHasCause, HostInv, HostTypeOK
<1> QED BY <1>2, <1>3, GoneInv DEF Fail, Counts, HostInv, HostTypeOK

-----------------------------------------------------------------------------
(* The steps of the set-up *)

LEMMA InvAccounted ==
  ASSUME HostInv, pc \in {"tun", "addr", "discover", "pin", "event", "loop", "exit"}
  PROVE  Accounted(x)
<1>1. x \in HostWorld /\ x.p.addr \in Servers /\ (~ManageRoutes => x.p.ip = None)
  BY DEF HostInv, HostTypeOK, AddressNoted
<1>2. \A r \in x.h.rules : r[1] = "me" => Removable(x, r)
  <2> SUFFICES ASSUME NEW r \in x.h.rules, r[1] = "me" PROVE Removable(x, r)
    OBVIOUS
  <2>1. AfterMust /\ x.p.ks
    BY DEF HostInv, RulesTracked, Shaped, NoneMine, AllMine, BeforeRules, AfterMust, Between
  <2>2. r = Rule(x, r[2]) /\ (r[2] \notin {"srv4", "srv6"} \/ r[2] = IF IsV6(x) THEN "srv6" ELSE "srv4")
    <3>1. Shaped
      BY DEF HostInv, RulesTracked
    <3> QED BY <3>1 DEF Shaped, WellShaped
  <2>3. r[2] \in {"srv4", "srv6"} => r[3] = x.p.ip
    BY <2>2 DEF Rule
  <2> QED BY <2>1, <2>2, <2>3 DEF Removable
<1>3. crashes = 0 => /\ \A r \in x.h.rules : r[1] = "me"
                     /\ x.h.pins \subseteq {x.p.ip}
                     /\ x.h.pins # {} => ManageRoutes /\ x.p.gw /\ x.p.routing
  BY DEF HostInv, RulesTracked, Shaped, NoneMine, AllMine, PinsTracked
<1>4. /\ flips = 0 => (x.p.ctl => x.h.resolved) /\ (x.p.lock => x.p.dns /\ ~x.p.ctl)
      /\ crashes = 0 /\ flips = 0 /\ ~x.h.uncopied =>
           x.h.bak # "ours" /\ IF x.p.dns /\ ~x.p.ctl THEN x.h.bak = "orig" ELSE x.h.resolv = "orig"
  BY DEF HostInv, DnsTracked, AfterDns
<1> QED BY <1>1, <1>2, <1>3, <1>4 DEF Accounted

(* A step of the set-up before the rules that leaves them and the resolver *)
(* alone.                                                                  *)
Early == {"tun", "addr", "discover", "pin", "catch1", "catch2", "v61", "v62"}

LEMMA EarlyInv ==
  ASSUME HostInv, pc \in Early, pc' \in Early \cup {"ks"}, UNCHANGED <<cstate, cfg, signalled, aborted, crashes, flips>>,
         x' \in HostWorld, fails' \in Nat, fails' >= fails,
         x'.p.addr = x.p.addr, x'.p.ks = x.p.ks, x'.p.dns = x.p.dns, x'.p.ctl = x.p.ctl, x'.p.lock = x.p.lock,
         x'.h.rules = x.h.rules, x'.h.resolv = x.h.resolv, x'.h.bak = x.h.bak /\ x'.h.uncopied = x.h.uncopied, x'.h.resolved = x.h.resolved,
         ~ManageRoutes => x'.p.ip = x.p.ip,
         pc' \notin {"tun", "addr", "discover"} /\ ManageRoutes => x'.p.ip = x'.p.addr,
         pc' \in Early \ {"tun", "addr"} => ManageRoutes,
         PinsTracked'
  PROVE  HostInv'
<1>0. ~Between /\ ~Between' /\ BeforeRules /\ ~AfterMust' /\ ~AfterDns /\ ~AfterDns'
      /\ pc' \notin {"off", "loop", "exit", "ks6"} /\ (BeforeRules' <=> pc' # "ks")
      /\ pc \notin {"off", "loop", "exit", "lock", "backup", "write"} /\ pc' \notin {"lock", "backup", "write"}
  BY DEF Between, BeforeRules, AfterMust, AfterDns, Early
<1>1. HostTypeOK'
  BY DEF HostTypeOK, HostInv, HostPcs, Early
<1>2. AddressNoted'
  BY <1>0 DEF AddressNoted, HostInv, ManageRoutes, Early, HostTypeOK
<1>3. RulesTracked'
  <2>1. ~x.p.ks /\ \A r \in x.h.rules : r[1] # "me"
    BY <1>0 DEF HostInv, RulesTracked, Shaped, NoneMine, AllMine
  <2>2. MustMissing'
    <3>1. Mine(x)' = {}
      BY <2>1 DEF Mine
    <3>2. 1 \in DOMAIN MustRules(x)'
      BY DEF MustRules
    <3> QED BY <3>1, <3>2 DEF MustMissing
  <2>3. crashes' = 0 => \A r \in x'.h.rules : r[1] = "me"
    BY DEF HostInv, RulesTracked, Shaped, NoneMine, AllMine
  <2> QED BY <1>0, <2>1, <2>2, <2>3 DEF RulesTracked, Shaped, NoneMine, AllMine
<1>4. LinkTracked'
  BY <1>0 DEF LinkTracked
<1>5. DnsTracked'
  BY <1>0 DEF DnsTracked, HostInv
<1>6. AbortHasCause'
  BY DEF AbortHasCause, HostInv, HostTypeOK
<1> QED BY <1>1, <1>2, <1>3, <1>4, <1>5, <1>6 DEF HostInv

LEMMA TunCreateInv == HostInv /\ TunCreate => HostInv'
<1> SUFFICES ASSUME HostInv, TunCreate PROVE HostInv'
  OBVIOUS
<1>1. CASE Give([x EXCEPT !.p.tun = TRUE], "addr")
  <2>0. x \in HostWorld /\ pc = "tun"
    BY DEF HostInv, HostTypeOK, TunCreate
  <2>1. /\ x' \in HostWorld /\ x'.p.addr = x.p.addr /\ x'.p.ks = x.p.ks /\ x'.p.dns = x.p.dns
        /\ x'.p.ctl = x.p.ctl /\ x'.p.lock = x.p.lock /\ x'.p.ip = x.p.ip /\ x'.h = x.h
    BY <1>1, <2>0 DEF Give, HostWorld, ClientType
  <2>2. PinsTracked'
    BY <1>1, <2>0, <2>1 DEF PinsTracked, HostInv, Give, Counts, ManageRoutes
  <2> QED BY <1>1, <2>0, <2>1, <2>2, EarlyInv DEF Give, Counts, Early, HostInv, HostTypeOK
<1>2. CASE Fail(x, 1)
  BY <1>2, InvAccounted, FailInv DEF TunCreate
<1> QED BY <1>1, <1>2 DEF TunCreate

LEMMA TunConfigureInv == HostInv /\ TunConfigure => HostInv'
<1> SUFFICES ASSUME HostInv, TunConfigure PROVE HostInv'
  OBVIOUS
<1>1. ASSUME NEW v6 \in BOOLEAN, Give([x EXCEPT !.p.v6 = @ \/ v6], IF ManageRoutes THEN "discover" ELSE "ks")
      PROVE  HostInv'
  <2>0. x \in HostWorld /\ pc = "addr"
    BY DEF HostInv, HostTypeOK, TunConfigure
  <2>1. /\ x' \in HostWorld /\ x'.p.addr = x.p.addr /\ x'.p.ks = x.p.ks /\ x'.p.dns = x.p.dns
        /\ x'.p.ctl = x.p.ctl /\ x'.p.lock = x.p.lock /\ x'.p.ip = x.p.ip /\ x'.h = x.h
    BY <1>1, <2>0 DEF Give, HostWorld, ClientType
  <2>2. PinsTracked'
    BY <1>1, <2>0, <2>1 DEF PinsTracked, HostInv, Give, Counts, ManageRoutes
  <2> QED BY <1>1, <2>0, <2>1, <2>2, EarlyInv DEF Give, Counts, Early, HostInv, HostTypeOK
<1>2. CASE Fail(x, 1)
  BY <1>2, InvAccounted, FailInv DEF TunConfigure
<1> QED BY <1>1, <1>2 DEF TunConfigure

LEMMA DiscoverInv == HostInv /\ Discover => HostInv'
<1> SUFFICES ASSUME HostInv, Discover PROVE HostInv'
  OBVIOUS
<1>0. x \in HostWorld /\ pc = "discover" /\ ManageRoutes /\ x.p.addr \in Servers
  BY SMTT(90) DEF HostInv, HostTypeOK, Discover, AddressNoted
<1>1. PICK get \in DiscoverRoute, show \in DiscoverRouteFromShow :
        LET way == IF get = "unknown" THEN show ELSE get
            y == [x EXCEPT !.p.ip = x.p.addr, !.p.gw = (way = "gateway")]
        IN  \/ way # "unknown" /\ Give(y, IF y.p.gw THEN "pin" ELSE "catch1")
            \/ CanFail /\ way = "unknown" /\ "anon" \in cfg /\ Fail(y, 1)
            \/ /\ CanFail /\ way = "unknown" /\ "anon" \notin cfg
               /\ x' = y /\ pc' = "catch1" /\ fails' = fails + 1
               /\ UNCHANGED <<cstate, cfg, signalled, aborted>> /\ Counts
  BY DEF Discover
<1> DEFINE way == IF get = "unknown" THEN show ELSE get
           g == way = "gateway"
           y == [x EXCEPT !.p.ip = x.p.addr, !.p.gw = g]
<1>2. /\ y \in HostWorld /\ y.p.addr = x.p.addr /\ y.p.ks = x.p.ks /\ y.p.dns = x.p.dns
      /\ y.p.ctl = x.p.ctl /\ y.p.lock = x.p.lock /\ y.p.ip = x.p.addr /\ y.h = x.h /\ y.p.gw = g
  <2>1. g \in BOOLEAN
    OBVIOUS
  <2> HIDE DEF g
  <2> QED BY <1>0, <2>1 DEF HostWorld, ClientType
<1>3. crashes = 0 => x.h.pins = {}
  BY <1>0 DEF HostInv, PinsTracked
<1>4. CASE /\ x' = y /\ pc' = (IF y.p.gw THEN "pin" ELSE "catch1") /\ fails' \in Nat /\ fails' >= fails
           /\ UNCHANGED <<cstate, cfg, signalled, aborted, crashes, flips>>
  <2> HIDE DEF y, g
  <2>1. PinsTracked'
    BY <1>0, <1>2, <1>3, <1>4 DEF PinsTracked, ManageRoutes
  <2> QED BY <1>0, <1>2, <1>4, <2>1, EarlyInv DEF Early
<1>5. CASE Fail(y, 1)
  <2>1. Accounted(x)
    BY <1>0, InvAccounted
  <2>2. \A r \in x.h.rules : r[1] # "me"
    BY <1>0 DEF HostInv, RulesTracked, Shaped, NoneMine, AllMine, BeforeRules
  <2> HIDE DEF y, g
  <2>3. Accounted(y)
    BY <1>0, <1>2, <1>3, <2>1, <2>2 DEF Accounted
  <2> QED BY <1>5, <2>3, FailInv
<1>6. fails \in Nat
  BY DEF HostInv, HostTypeOK
<1>7. way # "unknown" => g \/ ~g
  OBVIOUS
<1>8. CASE way # "unknown" /\ Give(y, IF y.p.gw THEN "pin" ELSE "catch1")
  BY <1>4, <1>6, <1>8 DEF Give, Counts
<1>9. CASE /\ CanFail /\ way = "unknown" /\ "anon" \notin cfg
           /\ x' = y /\ pc' = "catch1" /\ fails' = fails + 1
           /\ UNCHANGED <<cstate, cfg, signalled, aborted>> /\ Counts
  <2>1. ~y.p.gw
    BY <1>2, <1>9
  <2> QED BY <1>4, <1>6, <1>9, <2>1 DEF Counts
<1> QED BY <1>1, <1>5, <1>8, <1>9

LEMMA PinInv == HostInv /\ Pin => HostInv'
<1> SUFFICES ASSUME HostInv, Pin PROVE HostInv'
  OBVIOUS
<1>0. x \in HostWorld /\ pc = "pin" /\ ManageRoutes /\ x.p.ip = x.p.addr /\ x.p.addr \in Servers
  BY DEF HostInv, HostTypeOK, Pin, AddressNoted, Between
<1>1. CASE Give([x EXCEPT !.h.pins = @ \cup {x.p.ip}, !.h.user = @ \ {x.p.ip}], "catch1")
  <2> DEFINE P == x.h.pins \cup {x.p.ip}
             U == x.h.user \ {x.p.ip}
  <2>a. P \in SUBSET Servers /\ U \in SUBSET UNION UserRoutes
    BY <1>0 DEF HostWorld, HostType
  <2>b. x' = [x EXCEPT !.h.pins = P, !.h.user = U]
    BY <1>0, <1>1 DEF Give, HostWorld, HostType
  <2>1. /\ x' \in HostWorld /\ x'.p = x.p /\ x'.h = [x.h EXCEPT !.pins = P, !.user = U]
    <3> HIDE DEF P, U
    <3> QED BY <1>0, <2>a, <2>b DEF HostWorld, HostType
  <2>2. /\ x'.h.rules = x.h.rules /\ x'.h.resolv = x.h.resolv /\ x'.h.bak = x.h.bak /\ x'.h.uncopied = x.h.uncopied
        /\ x'.h.resolved = x.h.resolved /\ x'.h.pins = x.h.pins \cup {x.p.ip}
    BY <1>0, <2>1 DEF HostWorld, HostType
  <2>3. PinsTracked'
    BY <1>0, <1>1, <2>1, <2>2 DEF PinsTracked, HostInv, Give, Counts, ManageRoutes, Between
  <2> QED BY <1>0, <1>1, <2>1, <2>2, <2>3, EarlyInv DEF Give, Counts, Early, HostInv, HostTypeOK
<1>2. CASE Fail(x, 1)
  BY <1>2, InvAccounted, FailInv DEF Pin
<1> QED BY <1>1, <1>2 DEF Pin

LEMMA CatchAllInv == HostInv /\ CatchAll => HostInv'
<1> SUFFICES ASSUME HostInv, CatchAll PROVE HostInv'
  OBVIOUS
<1>0. x \in HostWorld /\ pc \in {"catch1", "catch2"} /\ ManageRoutes /\ x.p.ip = x.p.addr /\ x.p.addr \in Servers
  BY DEF HostInv, HostTypeOK, CatchAll, AddressNoted, Between
<1>1. ASSUME NEW R \in SUBSET {"default", "low", "high", "v6low", "v6high"}, NEW U \in SUBSET UNION UserRoutes, NEW b \in BOOLEAN, NEW next,
             b \/ (b = x.p.routing /\ next = "catch2"), next \in {"catch2", "v61"},
             x' = [x EXCEPT !.h.routes = R, !.h.user = U, !.p.routing = b],
             pc' = next, UNCHANGED <<cstate, cfg, signalled, aborted, fails, crashes, flips>>
      PROVE  HostInv'
  <2>1. x' \in HostWorld
    BY <1>0, <1>1 DEF HostWorld, HostType, ClientType
  <2>2. /\ x'.p.addr = x.p.addr /\ x'.p.ks = x.p.ks /\ x'.p.dns = x.p.dns
        /\ x'.p.ctl = x.p.ctl /\ x'.p.lock = x.p.lock /\ x'.p.ip = x.p.ip /\ x'.p.gw = x.p.gw /\ x'.p.routing = b
        /\ x'.h.rules = x.h.rules /\ x'.h.resolv = x.h.resolv /\ x'.h.bak = x.h.bak /\ x'.h.uncopied = x.h.uncopied
        /\ x'.h.resolved = x.h.resolved /\ x'.h.pins = x.h.pins
    BY <1>0, <1>1 DEF HostWorld, HostType, ClientType
  <2>3. PinsTracked'
    BY <1>0, <1>1, <2>2 DEF PinsTracked, HostInv, ManageRoutes, Between
  <2> QED BY <1>0, <1>1, <2>1, <2>2, <2>3, EarlyInv DEF Early, HostInv, HostTypeOK
<1>2. CASE Give([x EXCEPT !.h.routes = (@ \ {"low", "high"}) \cup {"default"}, !.h.user = @ \ {"default"},
                          !.p.routing = TRUE], "v61")
  <2>1. (x.h.routes \ {"low", "high"}) \cup {"default"} \subseteq {"default", "low", "high", "v6low", "v6high"}
        /\ x.h.user \ {"default"} \in SUBSET UNION UserRoutes
    BY <1>0 DEF HostWorld, HostType
  <2> QED BY <1>1, <1>2, <2>1 DEF Give, Counts
<1>3. CASE Give([x EXCEPT !.h.routes = @ \cup {"low"}, !.h.user = @ \ {"low"}], "catch2")
  <2>1. x.h.routes \cup {"low"} \subseteq {"default", "low", "high", "v6low", "v6high"} /\ x.p.routing \in BOOLEAN
        /\ x.h.user \ {"low"} \in SUBSET UNION UserRoutes
    BY <1>0 DEF HostWorld, HostType, ClientType
  <2>2. x' = [x EXCEPT !.h.routes = @ \cup {"low"}, !.h.user = @ \ {"low"}, !.p.routing = x.p.routing]
    BY <1>0, <1>3 DEF Give, HostWorld, ClientType
  <2> QED BY <1>1, <1>3, <2>1, <2>2 DEF Give, Counts
<1>4. CASE Give([x EXCEPT !.h.routes = @ \cup {"high"}, !.h.user = @ \ {"high"}, !.p.routing = TRUE], "v61")
  <2>1. x.h.routes \cup {"high"} \subseteq {"default", "low", "high", "v6low", "v6high"}
        /\ x.h.user \ {"high"} \in SUBSET UNION UserRoutes
    BY <1>0 DEF HostWorld, HostType
  <2> QED BY <1>1, <1>4, <2>1 DEF Give, Counts
<1>5. CASE Fail(UndoPin([x EXCEPT !.h.routes = @ \ {"low", "high"}]), 1)
  <2> DEFINE a == [x EXCEPT !.h.routes = @ \ {"low", "high"}]
             y == UndoPin(a)
  <2>1. /\ a \in HostWorld /\ a.p = x.p
        /\ a.h.rules = x.h.rules /\ a.h.resolv = x.h.resolv /\ a.h.bak = x.h.bak /\ a.h.uncopied = x.h.uncopied
        /\ a.h.resolved = x.h.resolved /\ a.h.pins = x.h.pins
    BY <1>0 DEF HostWorld, HostType
  <2> HIDE DEF a
  <2>2. /\ y \in HostWorld /\ y.p = x.p
        /\ y.h.rules = x.h.rules /\ y.h.resolv = x.h.resolv /\ y.h.bak = x.h.bak /\ y.h.uncopied = x.h.uncopied
        /\ y.h.resolved = x.h.resolved /\ y.h.pins = IF x.p.gw THEN x.h.pins \ {x.p.ip} ELSE x.h.pins
    <3>1. CASE x.p.gw
      BY <2>1, <3>1 DEF UndoPin, HostWorld, HostType
    <3>2. CASE ~x.p.gw
      BY <2>1, <3>2 DEF UndoPin
    <3> QED BY <3>1, <3>2
  <2> HIDE DEF y
  <2>3. crashes = 0 => y.h.pins = {} /\ \A r \in x.h.rules : r[1] = "me"
    BY <2>2 DEF HostInv, PinsTracked, RulesTracked, Shaped, NoneMine, AllMine
  <2>4. (\A r \in x.h.rules : r[1] # "me")
    BY <1>0 DEF HostInv, RulesTracked, Shaped, NoneMine, AllMine, BeforeRules
  <2>5. /\ flips = 0 => (x.p.ctl => x.h.resolved) /\ ~x.p.dns /\ ~x.p.lock
        /\ crashes = 0 /\ flips = 0 /\ ~x.h.uncopied => x.h.bak # "ours" /\ x.h.resolv = "orig"
    BY <1>0 DEF HostInv, DnsTracked, AfterDns
  <2>6. Accounted(y)
    BY <1>0, <2>2, <2>3, <2>4, <2>5 DEF Accounted
  <2> QED BY <1>5, <2>6, FailInv DEF a, y
<1> QED BY <1>2, <1>3, <1>4, <1>5 DEF CatchAll

LEMMA CatchAll6Inv == HostInv /\ CatchAll6 => HostInv'
<1> SUFFICES ASSUME HostInv, CatchAll6 PROVE HostInv'
  OBVIOUS
<1>0. x \in HostWorld /\ pc \in {"v61", "v62"} /\ ManageRoutes /\ x.p.ip = x.p.addr /\ x.p.addr \in Servers /\ fails \in Nat
  BY DEF HostInv, HostTypeOK, CatchAll6, AddressNoted, Between
<1>1. ASSUME x' \in HostWorld, pc' \in {"v62", "ks"}, fails' \in {fails, fails + 1},
             UNCHANGED <<cstate, cfg, signalled, aborted, crashes, flips>>,
             x'.p.addr = x.p.addr, x'.p.ks = x.p.ks, x'.p.dns = x.p.dns, x'.p.routing = x.p.routing,
             x'.p.ctl = x.p.ctl, x'.p.lock = x.p.lock, x'.p.ip = x.p.ip, x'.p.gw = x.p.gw,
             x'.h.rules = x.h.rules, x'.h.resolv = x.h.resolv, x'.h.bak = x.h.bak /\ x'.h.uncopied = x.h.uncopied,
             x'.h.resolved = x.h.resolved, x'.h.pins = x.h.pins
      PROVE  HostInv'
  <2>1. PinsTracked'
    BY <1>0, <1>1 DEF PinsTracked, HostInv, ManageRoutes, Between
  <2> QED BY <1>0, <1>1, <2>1, EarlyInv DEF Early
<1>2. CASE x' = x /\ pc' = "ks" /\ fails' \in {fails, fails + 1} /\ UNCHANGED <<cstate, cfg, signalled, aborted, crashes, flips>>
  BY <1>0, <1>1, <1>2
<1>3. CASE Give([x EXCEPT !.h.routes = @ \cup {"v6low"}, !.h.user = @ \ {"v6low"}], "v62")
  <2>1. x' \in HostWorld /\ x'.p = x.p
    BY <1>0, <1>3 DEF Give, HostWorld, HostType
  <2>2. /\ x'.h.rules = x.h.rules /\ x'.h.resolv = x.h.resolv /\ x'.h.bak = x.h.bak /\ x'.h.uncopied = x.h.uncopied
        /\ x'.h.resolved = x.h.resolved /\ x'.h.pins = x.h.pins
    BY <1>0, <1>3 DEF Give, HostWorld, HostType
  <2> QED BY <1>1, <1>3, <2>1, <2>2 DEF Give, Counts
<1>4. CASE Give([x EXCEPT !.h.routes = @ \cup {"v6high"}, !.h.user = @ \ {"v6high"}, !.p.routing6 = TRUE], "ks")
  <2>1. x' \in HostWorld
    BY <1>0, <1>4 DEF Give, HostWorld, HostType, ClientType
  <2>2. /\ x'.h.rules = x.h.rules /\ x'.h.resolv = x.h.resolv /\ x'.h.bak = x.h.bak /\ x'.h.uncopied = x.h.uncopied
        /\ x'.h.resolved = x.h.resolved /\ x'.h.pins = x.h.pins
    BY <1>0, <1>4 DEF Give, HostWorld, HostType
  <2>3. /\ x'.p.addr = x.p.addr /\ x'.p.ks = x.p.ks /\ x'.p.dns = x.p.dns /\ x'.p.routing = x.p.routing
        /\ x'.p.ctl = x.p.ctl /\ x'.p.lock = x.p.lock /\ x'.p.ip = x.p.ip /\ x'.p.gw = x.p.gw
    BY <1>0, <1>4 DEF Give, HostWorld, ClientType
  <2> QED BY <1>1, <1>4, <2>1, <2>2, <2>3 DEF Give, Counts
<1> QED BY <1>2, <1>3, <1>4 DEF CatchAll6, Give, Counts

(* A step of the set-up after the routes. *)
Late == {"ks", "ks6", "dns", "lock", "backup", "write"}

LEMMA LateInv ==
  ASSUME HostInv, pc \in Late, pc' \in Late \cup {"event"},
         UNCHANGED <<cstate, cfg, signalled, aborted, crashes, flips>>,
         x' \in HostWorld, fails' \in Nat, fails' >= fails,
         x'.p.addr = x.p.addr, x'.p.ip = x.p.ip, x'.p.gw = x.p.gw, x'.p.routing = x.p.routing,
         x'.h.pins = x.h.pins, RulesTracked', DnsTracked'
  PROVE  HostInv'
<1>0. ~Between /\ ~Between' /\ pc' \notin {"off", "loop", "exit"} \cup Early /\ pc \notin {"off", "loop", "exit"} \cup Early
  BY DEF Between, Late, Early
<1>1. HostTypeOK'
  BY DEF HostTypeOK, HostInv, HostPcs, Late
<1>2. AddressNoted'
  BY <1>0 DEF AddressNoted, HostInv, ManageRoutes, Early
<1>3. PinsTracked'
  BY <1>0 DEF PinsTracked, HostInv, ManageRoutes, Early
<1>4. LinkTracked'
  BY <1>0 DEF LinkTracked
<1>5. AbortHasCause'
  BY DEF AbortHasCause, HostInv, HostTypeOK
<1> QED BY <1>1, <1>2, <1>3, <1>4, <1>5 DEF HostInv

(* The rules once those that must be set are. *)
LEMMA RulesStay ==
  ASSUME HostInv, AfterMust, AfterMust', pc' # "ks6", UNCHANGED <<cfg, crashes>>,
         x'.p.addr = x.p.addr, x'.p.ip = x.p.ip, x'.p.ks = x.p.ks, x'.h.rules = x.h.rules
  PROVE  RulesTracked'
<1>1. ~BeforeRules' /\ pc' # "ks"
  BY DEF AfterMust, BeforeRules, Between
<1>2. Shaped /\ (crashes = 0 => AllMine) /\ (x.p.ks <=> "ks" \in cfg)
      /\ IF "ks" \in cfg THEN MustThere /\ x.p.ip # None ELSE NoneMine
  BY DEF HostInv, RulesTracked, Shaped, NoneMine, AllMine
<1>3. Shaped'
  BY <1>2 DEF Shaped, WellShaped, Rule, IsV6
<1>4. MustThere => MustThere'
  BY DEF MustThere, MustRules, Rule, IsV6
<1>5. (NoneMine => NoneMine') /\ (AllMine => AllMine')
  BY DEF NoneMine, AllMine
<1> QED BY <1>1, <1>2, <1>3, <1>4, <1>5 DEF RulesTracked, Shaped, NoneMine, AllMine

(* The resolver before it is its turn. *)
LEMMA ResolverStays ==
  ASSUME HostInv, pc \in {"ks", "ks6"}, pc' \in {"ks", "ks6", "dns"}, UNCHANGED <<crashes, flips>>,
         x'.p.dns = x.p.dns, x'.p.ctl = x.p.ctl, x'.p.lock = x.p.lock,
         x'.h.resolv = x.h.resolv, x'.h.bak = x.h.bak /\ x'.h.uncopied = x.h.uncopied, x'.h.resolved = x.h.resolved
  PROVE  DnsTracked'
BY DEF DnsTracked, HostInv, AfterDns

LEMMA KillSwitchMustInv == HostInv /\ KillSwitchMust => HostInv'
<1> SUFFICES ASSUME HostInv, KillSwitchMust PROVE HostInv'
  OBVIOUS
<1>0. x \in HostWorld /\ pc = "ks" /\ fails \in Nat /\ x.p.addr \in Servers
      /\ ~AfterMust /\ ~BeforeRules /\ ~x.p.ks /\ ~Between /\ ~AfterDns
  BY DEF HostInv, HostTypeOK, KillSwitchMust, AddressNoted, AfterMust, BeforeRules, Between, RulesTracked, Shaped, NoneMine, AllMine, AfterDns
<1>1. CASE "ks" \notin cfg /\ Give(x, "dns")
  <2>1. \A r \in x.h.rules : r[1] # "me"
    BY <1>0, <1>1 DEF HostInv, RulesTracked, Shaped, NoneMine, AllMine
  <2>2. crashes = 0 => \A r \in x.h.rules : r[1] = "me"
    BY DEF HostInv, RulesTracked, Shaped, NoneMine, AllMine
  <2>3. ~BeforeRules' /\ pc' # "ks"
    BY <1>1 DEF BeforeRules, Between, Give
  <2>4. RulesTracked'
    BY <1>0, <1>1, <2>1, <2>2, <2>3 DEF RulesTracked, Shaped, NoneMine, AllMine, Give, Counts
  <2>5. DnsTracked'
    BY <1>0, <1>1, ResolverStays DEF Give, Counts
  <2> QED BY <1>0, <1>1, <2>4, <2>5, LateInv DEF Give, Counts, Late
<1>2. CASE "ks" \in cfg
  <2> DEFINE missing == {k \in DOMAIN MustRules(x) : MustRules(x)[k] \notin Mine(x)}
             first == CHOOSE k \in missing : \A j \in missing : k <= j
             n == MustRules(x)[first]
             last == missing = {first}
             tried == [x EXCEPT !.p.ks = TRUE]
  <2>1. first \in missing
    <3>1. \E k \in missing : TRUE
      BY <1>0, <1>2 DEF HostInv, RulesTracked, MustMissing
    <3>2. missing \subseteq 1..6
      BY DEF MustRules
    <3> HIDE DEF missing
    <3>3. \E k \in missing : \A j \in missing : k <= j
      <4>1. CASE 1 \in missing
        BY <3>2, <4>1
      <4>2. CASE 1 \notin missing /\ 2 \in missing
        BY <3>2, <4>2
      <4>3. CASE 1 \notin missing /\ 2 \notin missing /\ 3 \in missing
        BY <3>2, <4>3
      <4>4. CASE 1 \notin missing /\ 2 \notin missing /\ 3 \notin missing /\ 4 \in missing
        BY <3>2, <4>4
      <4>5. CASE 1 \notin missing /\ 2 \notin missing /\ 3 \notin missing /\ 4 \notin missing /\ 5 \in missing
        BY <3>2, <4>5
      <4>6. CASE 1 \notin missing /\ 2 \notin missing /\ 3 \notin missing /\ 4 \notin missing /\ 5 \notin missing
        BY <3>1, <3>2, <4>6
      <4> QED BY <4>1, <4>2, <4>3, <4>4, <4>5, <4>6
    <3> QED BY <3>3
  <2>2. /\ first \in DOMAIN MustRules(x) /\ n \notin Mine(x) /\ n \in RuleNames
        /\ n \in {"srv4", "srv6"} => n = IF IsV6(x) THEN "srv6" ELSE "srv4"
        /\ \A j \in DOMAIN MustRules(x) : MustRules(x)[j] = n => j = first
    <3>1. first \in DOMAIN MustRules(x) /\ n \notin Mine(x)
      BY <2>1
    <3> HIDE DEF first, missing
    <3>2. /\ \A i \in DOMAIN MustRules(x) : MustRules(x)[i] \in RuleNames
          /\ \A i \in DOMAIN MustRules(x) : MustRules(x)[i] # (IF IsV6(x) THEN "srv4" ELSE "srv6")
          /\ \A i, j \in DOMAIN MustRules(x) : MustRules(x)[i] = MustRules(x)[j] => i = j
      <4>1. CASE IsV6(x)
        <5> DEFINE s == <<"tun4", "lo4", "drop4", "srv6", "lo6", "drop6">>
        <5>1. MustRules(x) = s /\ DOMAIN s = 1..6
          BY <4>1 DEF MustRules
        <5>2. s[1] = "tun4" /\ s[2] = "lo4" /\ s[3] = "drop4" /\ s[4] = "srv6" /\ s[5] = "lo6" /\ s[6] = "drop6"
          OBVIOUS
        <5> HIDE DEF s
        <5>3. \A i \in 1..6 : i = 1 \/ i = 2 \/ i = 3 \/ i = 4 \/ i = 5 \/ i = 6
          OBVIOUS
        <5>4. \A i \in 1..6 : s[i] \in RuleNames /\ s[i] # "srv4"
          BY <5>2, <5>3 DEF RuleNames
        <5>5. \A i, j \in 1..6 : s[i] = s[j] => i = j
          BY <5>2, <5>3
        <5> QED BY <4>1, <5>1, <5>4, <5>5
      <4>2. CASE ~IsV6(x)
        <5> DEFINE s == <<"tun4", "lo4", "drop4", "srv4">>
        <5>1. MustRules(x) = s /\ DOMAIN s = 1..4
          BY <4>2 DEF MustRules
        <5>2. s[1] = "tun4" /\ s[2] = "lo4" /\ s[3] = "drop4" /\ s[4] = "srv4"
          OBVIOUS
        <5> HIDE DEF s
        <5>3. \A i \in 1..4 : i = 1 \/ i = 2 \/ i = 3 \/ i = 4
          OBVIOUS
        <5>4. "srv4" # "srv6" /\ \A i \in 1..4 : s[i] \in RuleNames /\ s[i] # "srv6"
          BY <5>2, <5>3 DEF RuleNames
        <5>5. \A i, j \in 1..4 : s[i] = s[j] => i = j
          BY <5>2, <5>3
        <5> QED BY <4>2, <5>1, <5>4, <5>5
      <4> QED BY <4>1, <4>2
    <3>3. n = MustRules(x)[first]
      OBVIOUS
    <3> HIDE DEF n
    <3> QED BY <3>1, <3>2, <3>3
  <2>3. \A r \in x.h.rules : r[1] = "me" => WellShaped(r)
    BY DEF HostInv, RulesTracked, Shaped
  <2>4. /\ tried \in HostWorld /\ tried.p.ks /\ tried.h = x.h /\ IsV6(tried) = IsV6(x)
        /\ tried.p.addr = x.p.addr /\ tried.p.ip = x.p.ip /\ tried.p.gw = x.p.gw /\ tried.p.routing = x.p.routing
        /\ tried.p.dns = x.p.dns /\ tried.p.ctl = x.p.ctl /\ tried.p.lock = x.p.lock
    BY <1>0 DEF HostWorld, ClientType, IsV6
  <2>5. Accounted(tried)
    <3> HIDE DEF tried
    <3>1. \A r \in tried.h.rules : r[1] = "me" => Removable(tried, r)
      <4> SUFFICES ASSUME NEW r \in x.h.rules, r[1] = "me" PROVE Removable(tried, r)
        BY <2>4
      <4>1. r = Rule(x, r[2]) /\ (r[2] \notin {"srv4", "srv6"} \/ r[2] = IF IsV6(x) THEN "srv6" ELSE "srv4")
        BY <2>3 DEF WellShaped
      <4>2. r[2] \in {"srv4", "srv6"} => r[3] = x.p.ip
        BY <4>1 DEF Rule
      <4> QED BY <2>4, <4>1, <4>2 DEF Removable
    <3>2. ~ManageRoutes => x.p.ip = None
      BY <1>0 DEF HostInv, AddressNoted
    <3>3. crashes = 0 => /\ \A r \in x.h.rules : r[1] = "me"
                         /\ x.h.pins \subseteq {x.p.ip}
                         /\ x.h.pins # {} => ManageRoutes /\ x.p.gw /\ x.p.routing
      BY <1>0 DEF HostInv, RulesTracked, Shaped, NoneMine, AllMine, PinsTracked
    <3>4. /\ flips = 0 => (x.p.ctl => x.h.resolved) /\ ~x.p.dns /\ ~x.p.lock
          /\ crashes = 0 /\ flips = 0 /\ ~x.h.uncopied => x.h.bak # "ours" /\ x.h.resolv = "orig"
      BY <1>0 DEF HostInv, DnsTracked
    <3> QED BY <1>0, <2>4, <3>1, <3>2, <3>3, <3>4 DEF Accounted
  <2>6. CASE Fail(tried, 1)
    BY <2>5, <2>6, FailInv
  <2>7. CASE x.p.ip = None /\ Fail(tried, 0)
    <3>1. ~ManageRoutes
      BY <1>0, <2>7, HostAssumption DEF HostInv, AddressNoted
    <3> QED BY <1>2, <2>5, <2>7, <3>1, FailInv DEF ManageRoutes
  <2>8. CASE /\ Rule(x, n)[3] # None \/ n \notin {"srv4", "srv6"}
             /\ Give([x EXCEPT !.h.rules = @ \cup {Rule(x, n)}, !.p.ks = last], IF last THEN "ks6" ELSE "ks")
    <3>0. last \in BOOLEAN
      OBVIOUS
    <3>a. n \in {"srv4", "srv6"} => x.p.ip # None
      BY <2>8 DEF Rule
    <3>c. missing = {first} <=> last
      OBVIOUS
    <3>d. \A k \in DOMAIN MustRules(x) : k \in missing \/ MustRules(x)[k] \in Mine(x)
      OBVIOUS
    <3>e. missing \subseteq DOMAIN MustRules(x) /\ \A k \in missing : MustRules(x)[k] \notin Mine(x)
      OBVIOUS
    <3> HIDE DEF last, n, first, missing
    <3>b. Rule(x, n) \in Rules
      BY <1>0, <2>2 DEF Rule, Rules, HostWorld, ClientType
    <3>1. x' \in HostWorld
      BY ZenonT(90), <1>0, <2>8, <3>0, <3>b DEF Give, HostWorld, ClientType, HostType
    <3>2. /\ x'.p.addr = x.p.addr /\ x'.p.ip = x.p.ip /\ x'.p.gw = x.p.gw /\ x'.p.routing = x.p.routing
          /\ x'.p.dns = x.p.dns /\ x'.p.ctl = x.p.ctl /\ x'.p.lock = x.p.lock /\ x'.p.ks = last
      BY <1>0, <2>8, <3>0 DEF Give, HostWorld, ClientType
    <3>3. /\ x'.h.pins = x.h.pins /\ x'.h.resolv = x.h.resolv /\ x'.h.bak = x.h.bak /\ x'.h.uncopied = x.h.uncopied
          /\ x'.h.resolved = x.h.resolved /\ x'.h.rules = x.h.rules \cup {Rule(x, n)}
      BY <1>0, <2>8, <3>0 DEF Give, HostWorld, HostType
    <3>4. pc' = (IF last THEN "ks6" ELSE "ks") /\ UNCHANGED <<cstate, cfg, signalled, aborted, fails, crashes, flips>>
      BY <2>8 DEF Give, Counts
    <3>5. RulesTracked'
      <4>1. Rule(x, n)[1] = "me" /\ Rule(x, n)[2] = n
        BY DEF Rule
      <4>2. \A r \in x'.h.rules : r[1] = "me" => WellShaped(r)
        <5>1. Rule(x, n) = Rule(x, Rule(x, n)[2])
          BY <4>1
        <5>2. WellShaped(Rule(x, n))
          BY <2>2, <3>a, <4>1, <5>1 DEF WellShaped
        <5> QED BY <2>3, <3>3, <5>2
      <4>3. Shaped'
        BY <3>2, <4>2 DEF Shaped, WellShaped, Rule, IsV6
      <4>4. ~last => MustMissing'
        <5> SUFFICES ASSUME ~last PROVE MustMissing'
          OBVIOUS
        <5>1. PICK k \in missing : k # first
          BY <2>1, <3>c
        <5>2. Mine(x)' = Mine(x) \cup {n}
          BY <3>3, <4>1 DEF Mine
        <5>3. MustRules(x)[k] \notin Mine(x)' /\ k \in DOMAIN MustRules(x)
          BY <2>2, <3>e, <5>1, <5>2
        <5>4. MustRules(x)' = MustRules(x)
          BY <3>2 DEF MustRules, IsV6
        <5> QED BY <5>3, <5>4 DEF MustMissing
      <4>5. last => \A k \in DOMAIN MustRules(x) : Rule(x, MustRules(x)[k]) \in x'.h.rules
        <5> SUFFICES ASSUME last, NEW k \in DOMAIN MustRules(x) PROVE Rule(x, MustRules(x)[k]) \in x'.h.rules
          OBVIOUS
        <5>1. CASE k = first
          BY <3>3, <5>1 DEF n
        <5>2. CASE k # first
          <6>1. MustRules(x)[k] \in Mine(x)
            BY <3>c, <3>d, <5>2
          <6>2. PICK r \in x.h.rules : r[1] = "me" /\ r[2] = MustRules(x)[k]
            BY <6>1 DEF Mine
          <6>3. r = Rule(x, r[2])
            BY <2>3, <6>2 DEF WellShaped
          <6> QED BY <3>3, <6>2, <6>3
        <5> QED BY <5>1, <5>2
      <4>6. last => MustThere'
        BY <3>2, <4>5 DEF MustThere, MustRules, Rule, IsV6
      <4>7. last => x.p.ip # None
        <5> SUFFICES ASSUME last PROVE x.p.ip # None
          OBVIOUS
        <5>1. 4 \in DOMAIN MustRules(x) /\ MustRules(x)[4] \in {"srv4", "srv6"}
          BY DEF MustRules
        <5>2. Rule(x, MustRules(x)[4]) \in x'.h.rules
          BY <4>5, <5>1
        <5>3. Rule(x, MustRules(x)[4])[1] = "me" /\ Rule(x, MustRules(x)[4])[2] = MustRules(x)[4]
          BY DEF Rule
        <5>4. WellShaped(Rule(x, MustRules(x)[4]))
          BY <4>2, <5>2, <5>3
        <5> QED BY <5>1, <5>3, <5>4 DEF WellShaped
      <4>8. crashes = 0 => AllMine'
        BY <3>3, <4>1 DEF HostInv, RulesTracked, AllMine
      <4>9. ~BeforeRules' /\ (AfterMust' <=> last) /\ (pc' = "ks" <=> ~last)
        BY <3>0, <3>4 DEF BeforeRules, Between, AfterMust
      <4> QED BY <1>2, <3>0, <3>2, <3>4, <4>3, <4>4, <4>6, <4>7, <4>8, <4>9 DEF RulesTracked
    <3>6. DnsTracked'
      BY <1>0, <3>2, <3>3, <3>4, ResolverStays
    <3> QED BY <1>0, <3>1, <3>2, <3>3, <3>4, <3>5, <3>6, LateInv DEF Late
  <2> QED BY <1>0, <1>2, <2>6, <2>7, <2>8 DEF KillSwitchMust
<1> QED BY <1>0, <1>1, <1>2 DEF KillSwitchMust

LEMMA KillSwitchTryInv == HostInv /\ KillSwitchTry => HostInv'
<1> SUFFICES ASSUME HostInv, KillSwitchTry PROVE HostInv'
  OBVIOUS
<1>0. x \in HostWorld /\ pc = "ks6" /\ fails \in Nat /\ AfterMust
  BY DEF HostInv, HostTypeOK, KillSwitchTry, AfterMust
<1>1. PICK failed \in SUBSET TryRules(x) :
        /\ fails' = fails + Cardinality(failed)
        /\ x' = [x EXCEPT !.h.rules = @ \cup {Rule(x, n) : n \in TryRules(x) \ failed}]
        /\ pc' = "dns"
        /\ UNCHANGED <<cstate, cfg, signalled, aborted, crashes, flips>>
  BY DEF KillSwitchTry, Counts
<1> DEFINE new == {Rule(x, n) : n \in TryRules(x) \ failed}
<1>2. fails' \in Nat /\ fails' >= fails
  <2>1. IsFiniteSet(TryRules(x))
    <3>1. IsFiniteSet({}) /\ IsFiniteSet({"tun6"})
      BY FS_EmptySet, FS_Singleton
    <3>2. IsFiniteSet({"tun6"} \cup {"lo6"}) /\ IsFiniteSet(({"tun6"} \cup {"lo6"}) \cup {"drop6"})
      BY <3>1, FS_AddElement
    <3>3. ({"tun6"} \cup {"lo6"}) \cup {"drop6"} = {"tun6", "lo6", "drop6"}
      OBVIOUS
    <3> QED BY <3>1, <3>2, <3>3 DEF TryRules
  <2>2. Cardinality(failed) \in Nat
    BY <2>1, FS_Subset, FS_CardinalityType
  <2> QED BY <1>0, <1>1, <2>2
<1>3. \A r \in new : r[1] = "me" /\ WellShaped(r) /\ r \in Rules
  <2> SUFFICES ASSUME NEW n \in TryRules(x) PROVE Rule(x, n)[1] = "me" /\ WellShaped(Rule(x, n)) /\ Rule(x, n) \in Rules
    OBVIOUS
  <2>1. n \in {"tun6", "lo6", "drop6"}
    BY DEF TryRules
  <2>2. Rule(x, n) = <<"me", n, None>>
    BY <2>1 DEF Rule
  <2>3. Rule(x, n)[1] = "me" /\ Rule(x, n)[2] = n
    BY <2>2
  <2> QED BY <2>1, <2>2, <2>3 DEF WellShaped, Rules, RuleNames
<1> HIDE DEF new
<1>4. x' = [x EXCEPT !.h.rules = @ \cup new]
  BY <1>1 DEF new
<1>5. x' \in HostWorld /\ x'.p = x.p /\ x'.h.rules = x.h.rules \cup new
      /\ x'.h.pins = x.h.pins /\ x'.h.resolv = x.h.resolv /\ x'.h.bak = x.h.bak /\ x'.h.uncopied = x.h.uncopied /\ x'.h.resolved = x.h.resolved
  BY <1>0, <1>3, <1>4 DEF HostWorld, HostType
<1>6. RulesTracked'
  <2>1. Shaped /\ (crashes = 0 => AllMine) /\ x.p.ks /\ "ks" \in cfg /\ MustThere /\ x.p.ip # None
    BY <1>0 DEF HostInv, RulesTracked
  <2>2. \A r \in x'.h.rules : r[1] = "me" => WellShaped(r)
    BY <1>3, <1>5, <2>1 DEF Shaped
  <2>3. Shaped'
    BY <1>5, <2>2 DEF Shaped, WellShaped, Rule, IsV6
  <2>4. MustThere => MustThere'
    BY <1>5 DEF MustThere, MustRules, Rule, IsV6
  <2>5. crashes = 0 => AllMine'
    BY <1>3, <1>5, <2>1 DEF AllMine
  <2>8. ~BeforeRules' /\ pc' # "ks"
    BY <1>1 DEF BeforeRules, Between
  <2> QED BY <1>1, <1>5, <2>1, <2>3, <2>4, <2>5, <2>8 DEF RulesTracked
<1>7. DnsTracked'
  BY <1>0, <1>1, <1>5, ResolverStays
<1> QED BY <1>0, <1>1, <1>2, <1>5, <1>6, <1>7, LateInv DEF Late

LEMMA DnsCtlInv == HostInv /\ DnsCtl => HostInv'
<1> SUFFICES ASSUME HostInv, DnsCtl PROVE HostInv'
  OBVIOUS
<1>0. x \in HostWorld /\ pc = "dns" /\ fails \in Nat /\ AfterMust /\ ~AfterDns
  BY DEF HostInv, HostTypeOK, DnsCtl, AfterMust, AfterDns
<1>1. ASSUME pc' \in {"event", "lock"}, x' \in HostWorld, fails' \in Nat, fails' >= fails,
             UNCHANGED <<cstate, cfg, signalled, aborted, crashes, flips>>,
             x'.p.addr = x.p.addr, x'.p.ip = x.p.ip, x'.p.gw = x.p.gw, x'.p.routing = x.p.routing,
             x'.p.ks = x.p.ks, x'.p.lock = x.p.lock, x'.h.rules = x.h.rules, x'.h.pins = x.h.pins,
             x'.h.resolv = x.h.resolv, x'.h.bak = x.h.bak /\ x'.h.uncopied = x.h.uncopied, x'.h.resolved = x.h.resolved,
             flips = 0 =>
                /\ x'.p.ctl => x.h.resolved
                /\ pc' = "lock" => ~x'.p.dns /\ ~x'.p.ctl
                /\ pc' = "event" => ~x'.p.dns \/ x'.p.ctl
      PROVE  HostInv'
  <2>1. AfterMust' /\ (AfterDns' <=> pc' = "event") /\ pc' \notin {"ks6", "backup", "write"}
    BY <1>1 DEF AfterMust, AfterDns
  <2>2. RulesTracked'
    BY <1>0, <1>1, <2>1, RulesStay
  <2>3. /\ flips = 0 => ~x.p.dns /\ ~x.p.lock
        /\ crashes = 0 /\ flips = 0 /\ ~x.h.uncopied => x.h.bak # "ours" /\ x.h.resolv = "orig"
    BY <1>0 DEF HostInv, DnsTracked
  <2>4. DnsTracked'
    BY <1>1, <2>1, <2>3 DEF DnsTracked
  <2> QED BY <1>0, <1>1, <2>2, <2>4, LateInv DEF Late
<1>2. flips = 0 => ~x.p.dns /\ (x.p.ctl => x.h.resolved)
  BY <1>0 DEF HostInv, DnsTracked
<1>3. CASE Give(x, "event") \/ (~x.h.resolved /\ Give(x, "lock"))
  BY <1>0, <1>1, <1>2, <1>3 DEF Give, Counts
<1>4. CASE Give([x EXCEPT !.p.ctl = TRUE, !.p.dns = TRUE, !.h.link = TRUE], "event") /\ x.h.resolved
  <2>1. x' \in HostWorld
    BY <1>0, <1>4 DEF Give, HostWorld, ClientType, HostType
  <2>2. /\ x'.p.addr = x.p.addr /\ x'.p.ip = x.p.ip /\ x'.p.gw = x.p.gw /\ x'.p.routing = x.p.routing
        /\ x'.p.ks = x.p.ks /\ x'.p.lock = x.p.lock /\ x'.p.ctl
    BY <1>0, <1>4 DEF Give, HostWorld, ClientType
  <2>3. /\ x'.h.rules = x.h.rules /\ x'.h.pins = x.h.pins
        /\ x'.h.resolv = x.h.resolv /\ x'.h.bak = x.h.bak /\ x'.h.uncopied = x.h.uncopied /\ x'.h.resolved = x.h.resolved
    BY <1>0, <1>4 DEF Give, HostWorld, HostType
  <2> QED BY <1>0, <1>1, <1>4, <2>1, <2>2, <2>3 DEF Give, Counts
<1>5. CASE /\ x' = [x EXCEPT !.p.ctl = FALSE] /\ pc' = "lock" /\ fails' = fails + 1
           /\ UNCHANGED <<cstate, cfg, signalled, aborted>> /\ Counts
  <2>1. x' \in HostWorld /\ x'.h = x.h
    BY <1>0, <1>5 DEF HostWorld, ClientType
  <2>2. /\ x'.p.addr = x.p.addr /\ x'.p.ip = x.p.ip /\ x'.p.gw = x.p.gw /\ x'.p.routing = x.p.routing
        /\ x'.p.ks = x.p.ks /\ x'.p.lock = x.p.lock /\ ~x'.p.ctl /\ x'.p.dns = x.p.dns
    BY <1>0, <1>5 DEF HostWorld, ClientType
  <2> QED BY <1>0, <1>1, <1>2, <1>5, <2>1, <2>2 DEF Counts
<1> QED BY <1>3, <1>4, <1>5 DEF DnsCtl

(* The three steps that write resolv.conf. *)
LEMMA DnsFileInv == HostInv /\ (DnsLock \/ DnsBackup \/ DnsWrite) => HostInv'
<1> SUFFICES ASSUME HostInv, DnsLock \/ DnsBackup \/ DnsWrite PROVE HostInv'
  OBVIOUS
<1>0. x \in HostWorld /\ pc \in {"lock", "backup", "write"} /\ fails \in Nat /\ AfterMust /\ ~AfterDns
  BY DEF HostInv, HostTypeOK, DnsLock, DnsBackup, DnsWrite, AfterMust, AfterDns
<1>1. ASSUME pc' \in {"event", "backup", "write"}, x' \in HostWorld, fails' \in Nat, fails' >= fails,
             UNCHANGED <<cstate, cfg, signalled, aborted, crashes, flips>>,
             x'.p.addr = x.p.addr, x'.p.ip = x.p.ip, x'.p.gw = x.p.gw, x'.p.routing = x.p.routing,
             x'.p.ks = x.p.ks, x'.h.rules = x.h.rules, x'.h.pins = x.h.pins, DnsTracked'
      PROVE  HostInv'
  <2>1. AfterMust' /\ pc' # "ks6"
    BY <1>1 DEF AfterMust
  <2>2. RulesTracked'
    BY <1>0, <1>1, <2>1, RulesStay
  <2> QED BY <1>0, <1>1, <2>2, LateInv DEF Late
<1>2. /\ flips = 0 => ~x.p.dns /\ ~x.p.ctl /\ (pc = "lock" => ~x.p.lock)
      /\ crashes = 0 /\ flips = 0 /\ ~x.h.uncopied =>
           x.h.bak # "ours" /\ x.h.resolv = "orig" /\ (pc = "write" => x.h.bak = "orig")
  BY <1>0 DEF HostInv, DnsTracked
<1>3. CASE pc = "lock" /\ ~x.p.lock /\ Give([x EXCEPT !.p.lock = TRUE], "backup")
  <2>0. pc' = "backup" /\ UNCHANGED <<crashes, flips>> /\ ~AfterDns'
    BY <1>3 DEF Give, Counts, AfterDns
  <2>1. x' \in HostWorld /\ x'.h = x.h
    BY <1>0, <1>3 DEF Give, HostWorld, ClientType
  <2>2. /\ x'.p.addr = x.p.addr /\ x'.p.ip = x.p.ip /\ x'.p.gw = x.p.gw /\ x'.p.routing = x.p.routing
        /\ x'.p.ks = x.p.ks /\ x'.p.ctl = x.p.ctl /\ x'.p.dns = x.p.dns /\ x'.p.lock
    BY <1>0, <1>3 DEF Give, HostWorld, ClientType
  <2>3. DnsTracked'
    BY <2>0, <1>2, <1>3, <2>1, <2>2 DEF DnsTracked
  <2> QED BY <1>0, <1>1, <1>3, <2>1, <2>2, <2>3 DEF Give, Counts
<1>4. CASE pc = "lock" /\ x.p.lock /\ Give(x, "event")
  <2>0. pc' = "event" /\ UNCHANGED <<crashes, flips>> /\ AfterDns'
    BY <1>4 DEF Give, Counts, AfterDns
  <2>1. DnsTracked'
    BY <2>0, <1>2, <1>4 DEF DnsTracked, Give
  <2> QED BY <1>0, <1>1, <1>4, <2>1 DEF Give, Counts
<1>8. CASE /\ pc = "lock" /\ fails' = fails + 1 /\ pc' = "backup"
           /\ UNCHANGED <<x, cstate, cfg, signalled, aborted>> /\ Counts
  <2>0. pc' = "backup" /\ UNCHANGED <<crashes, flips>> /\ ~AfterDns' /\ x' = x
    BY <1>8 DEF Counts, AfterDns
  <2>1. DnsTracked'
    BY <2>0, <1>2 DEF DnsTracked
  <2> QED BY <1>0, <1>1, <1>8, <2>1 DEF Counts
<1>9. ASSUME NEW c \in {x.h.bak, "ours"}, pc = "backup", fails' = fails + 1, pc' = "write",
             x' = [x EXCEPT !.h.bak = c, !.h.uncopied = TRUE],
             UNCHANGED <<cstate, cfg, signalled, aborted>>, Counts
      PROVE  HostInv'
  <2>0. UNCHANGED <<crashes, flips>> /\ ~AfterDns'
    BY <1>9 DEF Counts, AfterDns
  <2>1. x' \in HostWorld /\ x'.p = x.p
    BY <1>0, <1>9 DEF HostWorld, HostType
  <2>2. x'.h.rules = x.h.rules /\ x'.h.pins = x.h.pins /\ x'.h.uncopied /\ x'.h.resolved = x.h.resolved
    BY <1>0, <1>9 DEF HostWorld, HostType
  <2>3. DnsTracked'
    BY <2>0, <1>2, <1>9, <2>1, <2>2 DEF DnsTracked
  <2> QED BY <1>0, <1>1, <1>9, <2>0, <2>1, <2>2, <2>3
<1>5. CASE pc = "backup" /\ Give([x EXCEPT !.h.bak = x.h.resolv], "write")
  <2>0. pc' = "write" /\ UNCHANGED <<crashes, flips>> /\ ~AfterDns'
    BY <1>5 DEF Give, Counts, AfterDns
  <2>1. x' \in HostWorld /\ x'.p = x.p
    BY <1>0, <1>5 DEF Give, HostWorld, HostType
  <2>2. /\ x'.h.rules = x.h.rules /\ x'.h.pins = x.h.pins
        /\ x'.h.resolv = x.h.resolv /\ x'.h.bak = x.h.resolv /\ x'.h.resolved = x.h.resolved
        /\ x'.h.uncopied = x.h.uncopied
    BY <1>0, <1>5 DEF Give, HostWorld, HostType
  <2>3. DnsTracked'
    BY <2>0, <1>2, <1>5, <2>1, <2>2 DEF DnsTracked
  <2> QED BY <1>0, <1>1, <1>5, <2>1, <2>2, <2>3 DEF Give, Counts
<1>6. CASE pc = "write" /\ Give([x EXCEPT !.h.resolv = "ours", !.p.dns = TRUE], "event")
  <2>0. pc' = "event" /\ UNCHANGED <<crashes, flips>> /\ AfterDns'
    BY <1>6 DEF Give, Counts, AfterDns
  <2>1. x' \in HostWorld
    BY <1>0, <1>6 DEF Give, HostWorld, HostType, ClientType
  <2>2. /\ x'.p.addr = x.p.addr /\ x'.p.ip = x.p.ip /\ x'.p.gw = x.p.gw /\ x'.p.routing = x.p.routing
        /\ x'.p.ks = x.p.ks /\ x'.p.ctl = x.p.ctl /\ x'.p.dns /\ x'.p.lock = x.p.lock
    BY <1>0, <1>6 DEF Give, HostWorld, ClientType
  <2>3. x'.h.rules = x.h.rules /\ x'.h.pins = x.h.pins /\ x'.h.bak = x.h.bak /\ x'.h.uncopied = x.h.uncopied /\ x'.h.resolved = x.h.resolved
    BY <1>0, <1>6 DEF Give, HostWorld, HostType
  <2>5. DnsTracked'
    BY <2>0, <1>2, <1>6, <2>2, <2>3 DEF DnsTracked
  <2> QED BY <1>0, <1>1, <1>6, <2>1, <2>2, <2>3, <2>5 DEF Give, Counts
<1>7. CASE /\ pc = "write" /\ fails' = fails + 1 /\ pc' = "event"
           /\ x' = [x EXCEPT !.p.lock = FALSE]
           /\ UNCHANGED <<cstate, cfg, signalled, aborted>> /\ Counts
  <2>0. pc' = "event" /\ UNCHANGED <<crashes, flips>> /\ AfterDns'
    BY <1>7 DEF Give, Counts, AfterDns
  <2>1. x' \in HostWorld /\ x'.h = x.h
    BY <1>0, <1>7 DEF HostWorld, ClientType
  <2>2. /\ x'.p.addr = x.p.addr /\ x'.p.ip = x.p.ip /\ x'.p.gw = x.p.gw /\ x'.p.routing = x.p.routing
        /\ x'.p.ks = x.p.ks /\ x'.p.ctl = x.p.ctl /\ x'.p.dns = x.p.dns /\ ~x'.p.lock
    BY <1>0, <1>7 DEF HostWorld, ClientType
  <2>3. DnsTracked'
    BY <2>0, <1>2, <1>7, <2>1, <2>2 DEF DnsTracked
  <2> QED BY <1>0, <1>1, <1>7, <2>1, <2>2, <2>3 DEF Counts
<1>10. CASE /\ pc = "write" /\ fails' = fails + 1 /\ pc' = "event"
            /\ x' = [x EXCEPT !.p.lock = FALSE, !.h.resolv = "ours", !.h.uncopied = TRUE]
            /\ UNCHANGED <<cstate, cfg, signalled, aborted>> /\ Counts
  <2>0. pc' = "event" /\ UNCHANGED <<crashes, flips>> /\ AfterDns'
    BY <1>10 DEF Counts, AfterDns
  <2>1. x' \in HostWorld
    BY <1>0, <1>10 DEF HostWorld, HostType, ClientType
  <2>2. /\ x'.p.addr = x.p.addr /\ x'.p.ip = x.p.ip /\ x'.p.gw = x.p.gw /\ x'.p.routing = x.p.routing
        /\ x'.p.ks = x.p.ks /\ x'.p.ctl = x.p.ctl /\ x'.p.dns = x.p.dns /\ ~x'.p.lock
    BY <1>0, <1>10 DEF HostWorld, ClientType
  <2>3. x'.h.rules = x.h.rules /\ x'.h.pins = x.h.pins /\ x'.h.uncopied /\ x'.h.resolved = x.h.resolved
    BY <1>0, <1>10 DEF HostWorld, HostType
  <2>4. DnsTracked'
    BY <2>0, <1>2, <1>10, <2>2, <2>3 DEF DnsTracked
  <2> QED BY <1>0, <1>1, <1>10, <2>0, <2>1, <2>2, <2>3, <2>4 DEF Counts
<1> QED BY <1>3, <1>4, <1>5, <1>6, <1>7, <1>8, <1>9, <1>10 DEF DnsLock, DnsBackup, DnsWrite

LEMMA TunActiveInv == HostInv /\ TunActive => HostInv'
<1> SUFFICES ASSUME HostInv, TunActive PROVE HostInv'
  OBVIOUS
<1>0. x \in HostWorld /\ pc = "event" /\ fails \in Nat /\ AfterMust /\ AfterDns /\ ~Between
  BY DEF HostInv, HostTypeOK, TunActive, AfterMust, AfterDns, Between
<1>1. CASE /\ x' = [x EXCEPT !.p.up = TRUE] /\ pc' = "loop" /\ cstate' = "ESTABLISHED"
           /\ UNCHANGED <<cfg, signalled, aborted, fails, crashes, flips>>
  <2>1. x' \in HostWorld /\ x'.h = x.h
    BY <1>0, <1>1 DEF HostWorld, ClientType
  <2>2. /\ x'.p.addr = x.p.addr /\ x'.p.ip = x.p.ip /\ x'.p.gw = x.p.gw /\ x'.p.routing = x.p.routing
        /\ x'.p.ks = x.p.ks /\ x'.p.ctl = x.p.ctl /\ x'.p.dns = x.p.dns /\ x'.p.lock = x.p.lock
    BY <1>0, <1>1 DEF HostWorld, ClientType
  <2>3. AfterMust' /\ AfterDns' /\ ~Between' /\ pc' = "loop"
    BY <1>1 DEF AfterMust, AfterDns, Between
  <2>4. HostTypeOK'
    BY <1>1, <2>1 DEF HostInv, HostTypeOK, HostPcs
  <2>5. AddressNoted'
    BY <1>0, <1>1, <2>2, <2>3 DEF HostInv, AddressNoted, ManageRoutes
  <2>6. RulesTracked'
    BY <1>0, <1>1, <2>1, <2>2, <2>3, RulesStay
  <2>7. PinsTracked'
    BY <1>0, <1>1, <2>1, <2>2, <2>3 DEF HostInv, PinsTracked, ManageRoutes
  <2>8. LinkTracked'
    BY <2>3 DEF LinkTracked
  <2>9. DnsTracked'
    BY <1>0, <1>1, <2>1, <2>2, <2>3 DEF HostInv, DnsTracked
  <2>10. AbortHasCause'
    BY <1>1 DEF HostInv, AbortHasCause
  <2> QED BY <2>4, <2>5, <2>6, <2>7, <2>8, <2>9, <2>10 DEF HostInv
<1>2. CASE Fail(x, 1)
  BY <1>0, <1>2, InvAccounted, FailInv
<1> QED BY <1>1, <1>2 DEF TunActive, Counts

-----------------------------------------------------------------------------
(* The event loop and the environment *)

LEMMA BetweenGone ==
  ASSUME HostInv, Between, pc # "off"
  PROVE  Gone(x)
<1>0. BeforeRules /\ ~AfterDns /\ pc \notin {"backup", "write"}
  BY DEF Between, BeforeRules, AfterDns
<1>1. x \in HostWorld /\ x.p.addr \in Servers /\ (~ManageRoutes => x.p.ip = None)
  BY DEF HostInv, HostTypeOK, AddressNoted
<1>2. ~x.p.ks /\ (\A r \in x.h.rules : r[1] # "me") /\ (crashes = 0 => \A r \in x.h.rules : r[1] = "me")
  BY <1>0 DEF HostInv, RulesTracked, NoneMine, AllMine
<1>3. x.h.routes = {} /\ ~x.h.link
  BY DEF HostInv, LinkTracked
<1>4. crashes = 0 => x.h.rules = {} /\ x.h.pins = {}
  BY <1>2 DEF HostInv, PinsTracked
<1>5. /\ flips = 0 => (x.p.ctl => x.h.resolved) /\ ~x.p.dns /\ ~x.p.lock
      /\ crashes = 0 /\ flips = 0 /\ ~x.h.uncopied => x.h.bak # "ours" /\ x.h.resolv = "orig"
  BY <1>0 DEF HostInv, DnsTracked
<1> QED BY <1>1, <1>2, <1>3, <1>4, <1>5 DEF Gone

LEMMA StartInv == HostInv /\ Start => HostInv'
<1> SUFFICES ASSUME HostInv, Start PROVE HostInv'
  OBVIOUS
<1>0. Between /\ BeforeRules /\ ~AfterDns /\ pc \notin {"backup", "write"} /\ x \in HostWorld /\ fails \in Nat /\ crashes \in Nat /\ flips \in Nat
  BY DEF Start, Between, BeforeRules, AfterDns, HostInv, HostTypeOK
<1>1. PICK s \in Servers : x' = [x EXCEPT !.p = Fresh(s)]
  BY DEF Start
<1>2. /\ Fresh(s) \in ClientType /\ Fresh(s).addr = s /\ Fresh(s).ip = None
      /\ ~Fresh(s).ks /\ ~Fresh(s).dns /\ ~Fresh(s).ctl /\ ~Fresh(s).lock
  BY DEF Fresh, ClientType
<1>3. x' \in HostWorld /\ x'.p = Fresh(s) /\ x'.h = x.h
  BY <1>0, <1>1, <1>2 DEF HostWorld
<1>4. (\A r \in x.h.rules : r[1] # "me") /\ (crashes = 0 => \A r \in x.h.rules : r[1] = "me")
  BY <1>0 DEF HostInv, RulesTracked, NoneMine, AllMine
<1>5. x.h.routes = {} /\ ~x.h.link
  BY <1>0 DEF HostInv, LinkTracked
<1>6. crashes = 0 => x.h.rules = {} /\ x.h.pins = {}
  BY <1>0, <1>4 DEF HostInv, PinsTracked
<1>7. crashes = 0 /\ flips = 0 /\ ~x.h.uncopied => x.h.bak # "ours" /\ x.h.resolv = "orig"
  BY <1>0 DEF HostInv, DnsTracked
<1>8. Gone(x')
  BY <1>2, <1>3, <1>4, <1>5, <1>6, <1>7 DEF Gone
<1>9. AbortHasCause'
  BY DEF Start, AbortHasCause
<1>10. x'.p.ip = None
  BY <1>2, <1>3
<1>11. /\ pc' = "loop" /\ cstate' = "CONNECTING" /\ signalled' \in BOOLEAN /\ aborted' \in BOOLEAN
       /\ fails' \in Nat /\ UNCHANGED <<crashes, flips>>
  BY <1>0 DEF Start, Counts
<1> QED BY <1>0, <1>8, <1>9, <1>10, <1>11, GoneInv

LEMMA ConfigReadyInv == HostInv /\ ConfigReady => HostInv'
<1> SUFFICES ASSUME HostInv, ConfigReady PROVE HostInv'
  OBVIOUS
<1>0. x \in HostWorld /\ pc = "loop" /\ Between /\ BeforeRules /\ ~AfterMust' /\ ~AfterDns /\ ~Between' /\ ~AfterDns' /\ pc' = "tun"
  BY DEF HostInv, HostTypeOK, ConfigReady, BeforeRules, AfterMust, AfterDns, Between
<1>1. Gone(x)
  BY <1>0, BetweenGone
<1>2. /\ x' \in HostWorld /\ x'.h.rules = x.h.rules /\ x'.h.pins = x.h.pins /\ x'.h.resolv = x.h.resolv
      /\ x'.h.bak = x.h.bak /\ x'.h.uncopied = x.h.uncopied /\ x'.h.resolved = x.h.resolved
      /\ x'.p.addr = x.p.addr /\ x'.p.ip = x.p.ip /\ x'.p.ks = x.p.ks /\ x'.p.ctl = x.p.ctl
      /\ x'.p.dns = x.p.dns /\ x'.p.lock = x.p.lock
  <2>1. CASE x.p.tun
    <3> DEFINE z == DestroyTun(x)
    <3>1. x' = z
      BY SMTT(90), <2>1 DEF ConfigReady
    <3>2. z \in HostWorld /\ z.p = [x.p EXCEPT !.tun = FALSE, !.up = FALSE]
          /\ z.h = [x.h EXCEPT !.routes = {}, !.link = FALSE]
      BY <1>0, DestroyTunEffect
    <3> HIDE DEF z
    <3> QED BY SMTT(90), <1>0, <3>1, <3>2 DEF HostWorld, ClientType, HostType
  <2>2. CASE ~x.p.tun
    BY <1>0, <2>2 DEF ConfigReady
  <2> QED BY <2>1, <2>2
<1>3. UNCHANGED <<cstate, cfg, signalled, fails, crashes, flips>> /\ cstate = "CONNECTING" /\ aborted' = FALSE
  BY DEF ConfigReady, Counts
<1>4. HostTypeOK'
  BY <1>0, <1>2, <1>3 DEF HostInv, HostTypeOK, HostPcs
<1>5. AddressNoted'
  BY <1>0, <1>1, <1>2, <1>3 DEF AddressNoted, Gone, ManageRoutes
<1>6. RulesTracked'
  BY <1>0, <1>1, <1>2, <1>3 DEF RulesTracked, Shaped, NoneMine, AllMine, Gone
<1>7. PinsTracked'
  BY <1>0, <1>1, <1>2, <1>3 DEF PinsTracked, Gone
<1>8. LinkTracked' /\ AbortHasCause'
  BY <1>0, <1>3 DEF LinkTracked, AbortHasCause
<1>9. DnsTracked'
  BY <1>0, <1>1, <1>2, <1>3 DEF DnsTracked, Gone
<1> QED BY <1>4, <1>5, <1>6, <1>7, <1>8, <1>9 DEF HostInv

LEMMA ConnClosedInv == HostInv /\ ConnClosed => HostInv'
<1> SUFFICES ASSUME HostInv, ConnClosed PROVE HostInv'
  OBVIOUS
<1>0. pc = "loop" /\ pc' = "loop" /\ UNCHANGED <<cfg, signalled, aborted, fails, crashes, flips>>
      /\ cstate' \in {"RECONNECTING", "CLOSED"} /\ fails \in Nat /\ crashes \in Nat /\ flips \in Nat
      /\ signalled \in BOOLEAN /\ aborted \in BOOLEAN
  BY DEF ConnClosed, Counts, HostInv, HostTypeOK
<1>a. PICK back \in BOOLEAN, s \in Servers : x' = Teardown(x, back) \/ x' = [Teardown(x, back) EXCEPT !.p.addr = s]
  BY DEF ConnClosed
<1> DEFINE y == Teardown(x, back)
<1>1. Gone(y)
  BY <1>0, InvAccounted, TeardownGone
<1>2. AbortHasCause'
  BY <1>0 DEF HostInv, AbortHasCause
<1>3. CASE x' = [y EXCEPT !.p.addr = s]
  <2>1. x' = [y EXCEPT !.p.addr = s]
    BY <1>3
  <2> HIDE DEF y
  <2>2. /\ x' \in HostWorld /\ x'.h = y.h /\ x'.p.addr = s /\ x'.p.ip = y.p.ip /\ x'.p.ks = y.p.ks
        /\ x'.p.ctl = y.p.ctl /\ x'.p.dns = y.p.dns /\ x'.p.lock = y.p.lock
    BY <1>1, <2>1 DEF Gone, HostWorld, ClientType
  <2>3. Gone(x')
    BY <1>1, <2>2 DEF Gone
  <2> QED BY <1>0, <1>2, <2>3, GoneInv
<1>4. CASE x' = y
  BY <1>0, <1>1, <1>2, <1>4, GoneInv
<1> QED BY <1>a, <1>3, <1>4

LEMMA LoopInv == HostInv /\ (Reconnecting \/ OnSignal \/ Exit) => HostInv'
<1> SUFFICES ASSUME HostInv, Reconnecting \/ OnSignal \/ Exit PROVE HostInv'
  OBVIOUS
<1>0. /\ UNCHANGED <<cfg, aborted, fails, crashes, flips>> /\ fails \in Nat /\ crashes \in Nat /\ flips \in Nat
      /\ signalled' \in BOOLEAN /\ aborted \in BOOLEAN /\ pc \in {"loop", "exit"} /\ pc' \in {"off", "loop", "exit"}
      /\ cstate' \in {"CONNECTING", "RECONNECTING", "CLOSED"} /\ (pc' = "exit" => cstate' = "CLOSED")
  BY DEF Reconnecting, OnSignal, Exit, Counts, HostInv, HostTypeOK
<1>1. AbortHasCause'
  BY <1>0 DEF HostInv, AbortHasCause
<1>2. ASSUME NEW back \in BOOLEAN, x' = Teardown(x, back) PROVE HostInv'
  BY <1>0, <1>1, <1>2, InvAccounted, TeardownGone, GoneInv
<1>3. CASE x' = x /\ cstate \in {"RECONNECTING", "CLOSED"} /\ pc = "loop"
  <2>1. Gone(x)
    BY <1>3, BetweenGone DEF Between
  <2> QED BY <1>0, <1>1, <1>3, <2>1, GoneInv
<1> QED BY <1>2, <1>3 DEF Reconnecting, OnSignal, Exit

LEMMA CrashInv == HostInv /\ Crash => HostInv'
<1> SUFFICES ASSUME HostInv, Crash PROVE HostInv'
  OBVIOUS
<1>0. x \in HostWorld /\ crashes' \in Nat /\ crashes' # 0 /\ pc' = "off" /\ cstate' = "CLOSED" /\ signalled' = FALSE
      /\ UNCHANGED <<cfg, aborted, fails, flips>>
  BY DEF Crash, HostInv, HostTypeOK
<1> DEFINE R == {<<"stale", r[2], r[3]>> : r \in x.h.rules}
<1>1. R \subseteq Rules /\ \A r \in R : r[1] # "me"
  BY <1>0 DEF HostWorld, HostType, Rules
<1>2. x' = [p |-> Fresh(None), h |-> [x.h EXCEPT !.routes = {}, !.link = FALSE, !.rules = R]]
  BY <1>0 DEF Crash, HostWorld, HostType
<1> HIDE DEF R
<1>3. Fresh(None) \in ClientType /\ Fresh(None).ip = None /\ ~Fresh(None).ks /\ ~Fresh(None).dns
      /\ ~Fresh(None).ctl /\ ~Fresh(None).lock
  BY DEF Fresh, ClientType
<1>4. x' \in HostWorld /\ x'.p = Fresh(None) /\ x'.h.rules = R /\ x'.h.routes = {} /\ ~x'.h.link
  BY <1>0, <1>1, <1>2, <1>3 DEF HostWorld, HostType
<1>5. Between' /\ BeforeRules' /\ ~AfterMust'
  BY <1>0 DEF Between, BeforeRules, AfterMust
<1>6. HostTypeOK'
  BY <1>0, <1>4 DEF HostInv, HostTypeOK, HostPcs
<1>7. AddressNoted'
  BY <1>0, <1>5 DEF AddressNoted
<1>8. RulesTracked'
  BY <1>0, <1>1, <1>3, <1>4, <1>5 DEF RulesTracked, Shaped, NoneMine
<1>9. PinsTracked' /\ DnsTracked'
  BY <1>0, <1>3, <1>4 DEF PinsTracked, DnsTracked, AfterDns
<1>10. LinkTracked' /\ AbortHasCause'
  BY <1>0, <1>4 DEF LinkTracked, AbortHasCause, HostInv
<1> QED BY <1>6, <1>7, <1>8, <1>9, <1>10 DEF HostInv

LEMMA ResolvedFlipsInv == HostInv /\ ResolvedFlips => HostInv'
<1> SUFFICES ASSUME HostInv, ResolvedFlips PROVE HostInv'
  OBVIOUS
<1>0. x \in HostWorld /\ flips' \in Nat /\ flips' # 0
      /\ UNCHANGED <<pc, cstate, cfg, signalled, aborted, fails, crashes>> /\ x' = [x EXCEPT !.h.resolved = ~@]
  BY DEF ResolvedFlips, HostInv, HostTypeOK
<1>1. x' \in HostWorld /\ x'.p = x.p /\ x'.h.rules = x.h.rules /\ x'.h.pins = x.h.pins
      /\ x'.h.routes = x.h.routes /\ x'.h.link = x.h.link
  BY <1>0 DEF HostWorld, HostType
<1>2. (Between' <=> Between) /\ (BeforeRules' <=> BeforeRules) /\ (AfterMust' <=> AfterMust)
  BY <1>0 DEF Between, BeforeRules, AfterMust
<1>3. HostTypeOK'
  BY <1>0, <1>1 DEF HostInv, HostTypeOK
<1>4. AddressNoted'
  BY <1>0, <1>1, <1>2 DEF HostInv, AddressNoted, ManageRoutes
<1>5. RulesTracked'
  <2>1. (Shaped => Shaped') /\ (NoneMine => NoneMine') /\ (AllMine => AllMine')
    BY <1>1 DEF Shaped, WellShaped, Rule, IsV6, NoneMine, AllMine
  <2>2. (MustMissing => MustMissing') /\ (MustThere => MustThere')
    BY <1>1 DEF MustMissing, MustThere, Rule, MustRules, IsV6, Mine
  <2> QED BY <1>0, <1>1, <1>2, <2>1, <2>2 DEF HostInv, RulesTracked
<1>6. PinsTracked'
  BY <1>0, <1>1, <1>2 DEF HostInv, PinsTracked, ManageRoutes
<1>7. LinkTracked' /\ AbortHasCause' /\ DnsTracked'
  BY <1>0, <1>1, <1>2 DEF HostInv, LinkTracked, AbortHasCause, DnsTracked
<1> QED BY <1>3, <1>4, <1>5, <1>6, <1>7 DEF HostInv

-----------------------------------------------------------------------------
(* The theorems *)

LEMMA InitInv == Init => HostInv
<1> SUFFICES ASSUME Init PROVE HostInv
  OBVIOUS
<1>1. PICK u \in UserRoutes, r \in BOOLEAN : x = [p |-> Fresh(None), h |-> CleanHost(u, r)]
  BY DEF Init
<1>2. x.p = Fresh(None) /\ Fresh(None) \in ClientType
  BY <1>1 DEF Fresh, ClientType
<1>3. x.h \in HostType /\ x.h.rules = {} /\ x.h.pins = {} /\ x.h.routes = {} /\ ~x.h.link
      /\ x.h.resolv = "orig" /\ x.h.bak = "absent"
  BY <1>1 DEF CleanHost, HostType
<1>4. x \in HostWorld
  BY <1>1, <1>2, <1>3 DEF HostWorld
<1>5. x.p.ip = None /\ ~x.p.ks /\ ~x.p.dns /\ ~x.p.ctl /\ ~x.p.lock
  BY <1>2 DEF Fresh
<1>6. Between /\ BeforeRules /\ ~AfterMust /\ ~AfterDns /\ pc = "off"
  BY DEF Init, Between, BeforeRules, AfterMust, AfterDns
<1>7. HostTypeOK
  BY <1>4 DEF HostTypeOK, Init, HostPcs
<1>8. AddressNoted
  BY <1>6 DEF AddressNoted
<1>9. RulesTracked
  BY <1>3, <1>5, <1>6 DEF RulesTracked, Shaped, NoneMine, AllMine
<1>10. PinsTracked /\ LinkTracked /\ AbortHasCause
  BY <1>3, <1>6 DEF PinsTracked, LinkTracked, AbortHasCause, Init
<1>11. DnsTracked
  BY <1>3, <1>5, <1>6 DEF DnsTracked
<1> QED BY <1>7, <1>8, <1>9, <1>10, <1>11 DEF HostInv

LEMMA StutterInv == HostInv /\ UNCHANGED vars => HostInv'
BY DEF HostInv, vars, HostTypeOK, AddressNoted, RulesTracked, PinsTracked, LinkTracked, DnsTracked, AbortHasCause,
       Between, BeforeRules, AfterMust, AfterDns, ManageRoutes, Shaped, WellShaped, NoneMine, AllMine, MustMissing,
       MustThere, MustRules, Mine, Rule, IsV6

(* What every run of the Linux client keeps to, whichever commands fail,   *)
(* the process being killed or systemd-resolved coming and going at any    *)
(* moment: the records of platform_ctx_t always say what a clean-up has to *)
(* remove.                                                                 *)
THEOREM HostInvariant == Spec => []HostInv
<1>1. HostInv /\ [Next]_vars => HostInv'
  <2>1. HostInv /\ Setup => HostInv'
    BY TunCreateInv, TunConfigureInv, DiscoverInv, PinInv, CatchAllInv, CatchAll6Inv, KillSwitchMustInv,
       KillSwitchTryInv, DnsCtlInv, DnsFileInv, TunActiveInv DEF Setup
  <2> QED BY <2>1, StartInv, ConfigReadyInv, ConnClosedInv, LoopInv, CrashInv, ResolvedFlipsInv, StutterInv DEF Next
<1> QED BY InitInv, <1>1, PTL DEF Spec

(* Set-up gives up for a failing command only (or for the kill switch      *)
(* without routes), in every state of every run: no reconnect, kill or     *)
(* change of the resolver leaves something that makes the next set-up of   *)
(* cb_tunnel_config_ready fail.                                            *)
THEOREM SetUpSoundHolds == Spec => []SetUpSound
<1>1. HostInv => SetUpSound
  BY DEF HostInv, HostTypeOK, HostWorld, ClientType, HostType, HostPcs, SetUpSound, TypeOK
<1> QED BY <1>1, HostInvariant, PTL

(* While no tunnel is up nothing of this process is left on the host, and  *)
(* no firewall rule when it has ended: cleanup_killswitch, cleanup_routes, *)
(* mqvpn_dns_restore and the end of the device, run from whatever point a  *)
(* set-up of any option set was left at, miss nothing that a process which *)
(* was not killed had done; resolv.conf is the user's unless a copy of it  *)
(* failed or systemd-resolved came or went.                                *)
THEOREM RestoredHolds == Spec => []Restored
<1>1. HostInv => Restored
  <2> SUFFICES ASSUME HostInv, pc = "off" \/ (pc = "loop" /\ cstate \in {"RECONNECTING", "CLOSED"}), crashes = 0
               PROVE  /\ x.h.pins = {} /\ x.h.routes = {} /\ x.h.rules = {} /\ ~x.h.link
                      /\ flips = 0 => ~x.p.lock /\ (~x.h.uncopied => x.h.resolv = "orig")
    BY DEF Restored
  <2>1. Between /\ BeforeRules /\ ~AfterDns /\ pc \notin {"backup", "write"}
    BY DEF Between, BeforeRules, AfterDns
  <2>2. x.h.rules = {}
    BY <2>1 DEF HostInv, RulesTracked, NoneMine, AllMine
  <2>3. x.h.pins = {} /\ x.h.routes = {} /\ ~x.h.link
    BY <2>1 DEF HostInv, PinsTracked, LinkTracked
  <2>4. flips = 0 => ~x.p.lock /\ (~x.h.uncopied => x.h.resolv = "orig")
    BY <2>1 DEF HostInv, DnsTracked
  <2> QED BY <2>2, <2>3, <2>4
<1> QED BY <1>1, HostInvariant, PTL

(* What the set-up has put in force once it is past a step. *)
PastPin   == \/ pc \in {"catch1", "catch2", "v61", "v62", "ks", "ks6", "dns", "lock", "backup", "write", "event"}
             \/ pc = "loop" /\ cstate = "ESTABLISHED"
PastCatch == PastPin /\ pc \notin {"catch1", "catch2"}
PastRules == AfterMust /\ pc # "ks6"

Whole   == IF "via" \in cfg THEN {"default"} ELSE {"low", "high"}
Pinned  == x.p.gw => x.p.ip \in x.h.pins
Closed6 == "ks" \in cfg /\ x.p.v6 /\ ~IsV6(x) /\ fails = 0 => <<"me", "drop6", None>> \in x.h.rules
Named   == "dns" \in cfg /\ fails = 0 /\ flips = 0 => IF x.p.ctl THEN x.h.link ELSE x.h.resolv = "ours"

Served ==
    /\ PastPin /\ ManageRoutes => Pinned
    /\ pc = "catch2" => "low" \in x.h.routes
    /\ PastCatch /\ ManageRoutes => Whole \subseteq x.h.routes
    /\ PastRules => Closed6
    /\ AfterDns => Named

(* Nothing is claimed before the pin and after the end of a session. *)
LEMMA ServedOut ==
  ASSUME ~PastPin' PROVE Served'
BY DEF Served, PastPin, PastCatch, PastRules, AfterMust, AfterDns

LEMMA ServedStart ==
  ASSUME HostInv, TunCreate \/ TunConfigure \/ Discover \/ Start \/ ConfigReady \/ ConnClosed \/ OnSignal \/ Reconnecting
                  \/ Exit \/ Crash
  PROVE  Served'
<1>1. CASE TunCreate
  BY <1>1, ServedOut DEF TunCreate, Give, Fail, PastPin
<1>2. CASE TunConfigure
  <2>1. CASE ~PastPin'
    BY <2>1, ServedOut
  <2>2. CASE PastPin'
    <3>1. pc' = "ks" /\ ~ManageRoutes'
      BY <1>2, <2>2 DEF TunConfigure, Give, Fail, PastPin, ManageRoutes
    <3> QED BY <3>1 DEF Served, PastRules, AfterMust, AfterDns
  <2> QED BY <2>1, <2>2
<1>3. CASE Discover
  <2>1. CASE ~PastPin'
    BY <2>1, ServedOut
  <2>2. CASE PastPin'
    <3>0. x \in HostWorld
      BY DEF HostInv, HostTypeOK
    <3>1. PICK get \in DiscoverRoute, show \in DiscoverRouteFromShow :
            LET way == IF get = "unknown" THEN show ELSE get
                y == [x EXCEPT !.p.ip = x.p.addr, !.p.gw = (way = "gateway")]
            IN  \/ way # "unknown" /\ Give(y, IF y.p.gw THEN "pin" ELSE "catch1")
                \/ CanFail /\ way = "unknown" /\ "anon" \in cfg /\ Fail(y, 1)
                \/ /\ CanFail /\ way = "unknown" /\ "anon" \notin cfg
                   /\ x' = y /\ pc' = "catch1" /\ fails' = fails + 1
                   /\ UNCHANGED <<cstate, cfg, signalled, aborted>> /\ Counts
      BY <1>3 DEF Discover
    <3> DEFINE way == IF get = "unknown" THEN show ELSE get
               g == way = "gateway"
               y == [x EXCEPT !.p.ip = x.p.addr, !.p.gw = g]
    <3>2. y.p.gw = g
      <4>1. g \in BOOLEAN
        OBVIOUS
      <4> HIDE DEF g
      <4> QED BY <3>0, <4>1 DEF HostWorld, ClientType
    <3>3. pc' = "catch1" /\ x' = y /\ ~y.p.gw
      BY <2>2, <3>1, <3>2 DEF Give, Fail, PastPin
    <3> HIDE DEF y
    <3> QED BY <3>3 DEF Served, PastCatch, PastRules, AfterMust, AfterDns, Pinned
  <2> QED BY <2>1, <2>2
<1>4. CASE Start \/ ConfigReady \/ ConnClosed \/ OnSignal \/ Reconnecting \/ Exit \/ Crash
  <2>1. ~PastPin'
    BY <1>4 DEF Start, ConfigReady, ConnClosed, OnSignal, Reconnecting, Exit, Crash, PastPin
  <2> QED BY <2>1, ServedOut
<1> QED BY <1>1, <1>2, <1>3, <1>4

(* A step after the pin that takes nothing away. *)
LEMMA ServedKeeps ==
  ASSUME HostInv, Served, PastPin, PastPin', cfg' = cfg, fails' \in Nat, fails' >= fails, flips' = flips,
         x'.p.gw = x.p.gw, x'.p.ip = x.p.ip, x'.p.v6 = x.p.v6, x'.p.addr = x.p.addr,
         x'.h.pins = x.h.pins, x.h.routes \subseteq x'.h.routes, x.h.rules \subseteq x'.h.rules,
         pc' = "catch2" => "low" \in x'.h.routes,
         PastCatch' /\ ~PastCatch => Whole \subseteq x'.h.routes,
         PastRules' /\ ~PastRules => Closed6',
         AfterDns' => Named'
  PROVE  Served'
<1>0. fails \in Nat
  BY DEF HostInv, HostTypeOK
<1>1. PastPin' /\ ManageRoutes' => Pinned'
  BY DEF Served, Pinned, ManageRoutes
<1>2. PastCatch' /\ ManageRoutes' => Whole' \subseteq x'.h.routes
  BY DEF Served, Whole, ManageRoutes
<1>3. PastRules' => Closed6'
  BY <1>0 DEF Served, Closed6, IsV6
<1> QED BY <1>1, <1>2, <1>3 DEF Served

LEMMA ServedRoutes ==
  ASSUME HostInv, Served, Pin \/ CatchAll \/ CatchAll6 PROVE Served'
<1>0. x \in HostWorld /\ fails \in Nat
  BY DEF HostInv, HostTypeOK
<1>1. CASE Pin
  <2>1. CASE Give([x EXCEPT !.h.pins = @ \cup {x.p.ip}, !.h.user = @ \ {x.p.ip}], "catch1")
    <3>1. x'.p = x.p /\ x'.h.pins = x.h.pins \cup {x.p.ip} /\ pc' = "catch1"
      BY <1>0, <2>1 DEF Give, HostWorld, HostType
    <3> QED BY <3>1 DEF Served, PastCatch, PastRules, AfterMust, AfterDns, Pinned
  <2>2. CASE Fail(x, 1)
    BY <2>2, ServedOut DEF Fail, PastPin
  <2> QED BY <1>1, <2>1, <2>2 DEF Pin
<1>2. CASE CatchAll
  <2>0. PastPin /\ ~PastCatch /\ pc \in {"catch1", "catch2"}
    BY <1>2 DEF CatchAll, PastPin, PastCatch
  <2>1. ASSUME NEW R, NEW U, NEW b \in BOOLEAN, NEW next, next \in {"catch2", "v61"},
               x' = [x EXCEPT !.h.routes = R, !.h.user = U, !.p.routing = b], pc' = next,
               UNCHANGED <<cstate, cfg, signalled, aborted, fails, crashes, flips>>,
               next = "catch2" => "low" \in R, next = "v61" => Whole \subseteq R
        PROVE  Served'
    <3>1. /\ x'.p.gw = x.p.gw /\ x'.p.ip = x.p.ip /\ x'.h.pins = x.h.pins /\ x'.h.routes = R
      BY <1>0, <2>1 DEF HostWorld, HostType, ClientType
    <3>2. PastPin' /\ ~PastRules' /\ ~AfterDns' /\ (PastCatch' <=> next = "v61")
      BY <2>1 DEF PastPin, PastCatch, PastRules, AfterMust, AfterDns
    <3>3. ManageRoutes' => Pinned'
      BY <2>0, <2>1, <3>1 DEF Served, Pinned, ManageRoutes
    <3> QED BY <2>1, <3>1, <3>2, <3>3 DEF Served, Whole
  <2>2. CASE "via" \in cfg /\ Give([x EXCEPT !.h.routes = (@ \ {"low", "high"}) \cup {"default"}, !.h.user = @ \ {"default"},
                                             !.p.routing = TRUE], "v61")
    <3>1. x' = [x EXCEPT !.h.routes = (x.h.routes \ {"low", "high"}) \cup {"default"}, !.h.user = x.h.user \ {"default"},
                         !.p.routing = TRUE]
      BY <1>0, <2>2 DEF Give, HostWorld, HostType
    <3>2. Whole \subseteq (x.h.routes \ {"low", "high"}) \cup {"default"}
      BY <2>2 DEF Whole
    <3> QED BY <2>1, <2>2, <3>1, <3>2 DEF Give, Counts
  <2>3. CASE Give([x EXCEPT !.h.routes = @ \cup {"low"}, !.h.user = @ \ {"low"}], "catch2")
    <3>1. x' = [x EXCEPT !.h.routes = x.h.routes \cup {"low"}, !.h.user = x.h.user \ {"low"}, !.p.routing = x.p.routing]
      BY <1>0, <2>3 DEF Give, HostWorld, HostType, ClientType
    <3>2. x.p.routing \in BOOLEAN
      BY <1>0 DEF HostWorld, ClientType
    <3> DEFINE R == x.h.routes \cup {"low"}
               U == x.h.user \ {"low"}
    <3>3. /\ x' = [x EXCEPT !.h.routes = R, !.h.user = U, !.p.routing = x.p.routing] /\ "low" \in R
          /\ pc' = "catch2" /\ UNCHANGED <<cstate, cfg, signalled, aborted, fails, crashes, flips>>
      BY <2>3, <3>1 DEF Give, Counts
    <3> HIDE DEF R, U
    <3> QED BY <2>1, <3>2, <3>3
  <2>4. CASE /\ "via" \notin cfg /\ pc = "catch2"
             /\ Give([x EXCEPT !.h.routes = @ \cup {"high"}, !.h.user = @ \ {"high"}, !.p.routing = TRUE], "v61")
    <3>1. x' = [x EXCEPT !.h.routes = x.h.routes \cup {"high"}, !.h.user = x.h.user \ {"high"}, !.p.routing = TRUE]
      BY <1>0, <2>4 DEF Give, HostWorld, HostType
    <3>2. Whole \subseteq x.h.routes \cup {"high"}
      BY <2>4 DEF Whole, Served
    <3> QED BY <2>1, <2>4, <3>1, <3>2 DEF Give, Counts
  <2>5. CASE Fail(UndoPin([x EXCEPT !.h.routes = @ \ {"low", "high"}]), 1)
    BY <2>5, ServedOut DEF Fail, PastPin
  <2> QED BY <1>2, <2>0, <2>2, <2>3, <2>4, <2>5 DEF CatchAll
<1>3. CASE CatchAll6
  <2>0. PastPin /\ PastCatch /\ PastPin' /\ ~PastRules' /\ ~AfterDns' /\ cfg' = cfg /\ flips' = flips /\ pc' # "catch2"
        /\ fails' \in Nat /\ fails' >= fails
    BY <1>0, <1>3 DEF CatchAll6, Give, Counts, PastPin, PastCatch, PastRules, AfterMust, AfterDns
  <2>1. /\ x'.p.gw = x.p.gw /\ x'.p.ip = x.p.ip /\ x'.p.v6 = x.p.v6 /\ x'.p.addr = x.p.addr
        /\ x'.h.pins = x.h.pins /\ x.h.routes \subseteq x'.h.routes /\ x.h.rules \subseteq x'.h.rules
    <3>1. CASE x' = x
      BY <3>1
    <3>2. CASE x' = [x EXCEPT !.h.routes = @ \cup {"v6low"}, !.h.user = @ \ {"v6low"}]
      BY <1>0, <3>2 DEF HostWorld, HostType
    <3>3. CASE x' = [x EXCEPT !.h.routes = @ \cup {"v6high"}, !.h.user = @ \ {"v6high"}, !.p.routing6 = TRUE]
      BY <1>0, <3>3 DEF HostWorld, HostType, ClientType
    <3> QED BY <1>3, <3>1, <3>2, <3>3 DEF CatchAll6, Give
  <2> QED BY <2>0, <2>1, ServedKeeps
<1> QED BY <1>1, <1>2, <1>3

LEMMA ServedRules ==
  ASSUME HostInv, Served, KillSwitchMust \/ KillSwitchTry PROVE Served'
<1>0. x \in HostWorld /\ fails \in Nat
  BY DEF HostInv, HostTypeOK
<1>1. CASE KillSwitchMust
  <2>0. PastPin /\ PastCatch /\ ~x.p.ks /\ pc = "ks"
    BY <1>1 DEF KillSwitchMust, PastPin, PastCatch, HostInv, RulesTracked
  <2>1. CASE "ks" \notin cfg /\ Give(x, "dns")
    <3>1. PastPin' /\ ~AfterDns' /\ pc' = "dns" /\ x' = x /\ UNCHANGED <<cfg, fails, flips>>
      BY <2>1 DEF Give, Counts, PastPin, AfterDns
    <3>2. Closed6'
      BY <2>1, <3>1 DEF Closed6
    <3> QED BY <1>0, <2>0, <3>1, <3>2, ServedKeeps
  <2>2. ASSUME NEW r, NEW b \in BOOLEAN, NEW next \in {"ks", "ks6"},
               Give([x EXCEPT !.h.rules = @ \cup {r}, !.p.ks = b], next)
        PROVE  Served'
    <3>1. PastPin' /\ ~AfterDns' /\ ~PastRules' /\ pc' # "catch2" /\ UNCHANGED <<cfg, fails, flips>>
      BY <2>2 DEF Give, Counts, PastPin, AfterDns, PastRules, AfterMust
    <3>2. /\ x'.p.gw = x.p.gw /\ x'.p.ip = x.p.ip /\ x'.p.v6 = x.p.v6 /\ x'.p.addr = x.p.addr
          /\ x'.h.pins = x.h.pins /\ x'.h.routes = x.h.routes /\ x'.h.rules = x.h.rules \cup {r}
      BY <1>0, <2>2 DEF Give, HostWorld, HostType, ClientType
    <3> QED BY <1>0, <2>0, <3>1, <3>2, ServedKeeps
  <2>3. ASSUME NEW y, NEW c, Fail(y, c) PROVE Served'
    BY <2>3, ServedOut DEF Fail, PastPin
  <2>4. CASE "ks" \in cfg
    <3> DEFINE missing == {k \in DOMAIN MustRules(x) : MustRules(x)[k] \notin Mine(x)}
               first == CHOOSE k \in missing : \A j \in missing : k <= j
               n == MustRules(x)[first]
               last == missing = {first}
               tried == [x EXCEPT !.p.ks = TRUE]
    <3>1. \/ Give([x EXCEPT !.h.rules = @ \cup {Rule(x, n)}, !.p.ks = last], IF last THEN "ks6" ELSE "ks")
          \/ Fail(tried, 0) \/ Fail(tried, 1)
      BY <1>1, <2>0, <2>4 DEF KillSwitchMust
    <3>2. last \in BOOLEAN /\ (IF last THEN "ks6" ELSE "ks") \in {"ks", "ks6"}
      OBVIOUS
    <3> HIDE DEF last, n, tried
    <3> QED BY <2>2, <2>3, <3>1, <3>2
  <2> QED BY <1>1, <2>0, <2>1, <2>4 DEF KillSwitchMust
<1>2. CASE KillSwitchTry
  <2>1. PICK failed \in SUBSET TryRules(x) :
          /\ fails' = fails + Cardinality(failed)
          /\ x' = [x EXCEPT !.h.rules = @ \cup {Rule(x, n) : n \in TryRules(x) \ failed}]
          /\ pc' = "dns" /\ pc = "ks6"
          /\ UNCHANGED <<cstate, cfg, signalled, aborted, crashes, flips>>
    BY <1>2 DEF KillSwitchTry, Counts
  <2>2. IsFiniteSet(failed) /\ Cardinality(failed) \in Nat
    <3>1. IsFiniteSet({}) /\ IsFiniteSet({"tun6"})
      BY FS_EmptySet, FS_Singleton
    <3>2. IsFiniteSet({"tun6"} \cup {"lo6"}) /\ IsFiniteSet(({"tun6"} \cup {"lo6"}) \cup {"drop6"})
      BY <3>1, FS_AddElement
    <3>3. ({"tun6"} \cup {"lo6"}) \cup {"drop6"} = {"tun6", "lo6", "drop6"}
      OBVIOUS
    <3>4. IsFiniteSet(TryRules(x))
      BY <3>1, <3>2, <3>3 DEF TryRules
    <3> QED BY <3>4, FS_Subset, FS_CardinalityType
  <2> DEFINE new == {Rule(x, n) : n \in TryRules(x) \ failed}
  <2>3. x.p.v6 /\ ~IsV6(x) /\ fails' = 0 => <<"me", "drop6", None>> \in new
    <3> SUFFICES ASSUME x.p.v6, ~IsV6(x), fails' = 0 PROVE <<"me", "drop6", None>> \in new
      OBVIOUS
    <3>1. failed = {}
      <4>1. Cardinality(failed) = 0
        BY <1>0, <2>1, <2>2
      <4> QED BY <2>2, <4>1, FS_EmptySet
    <3>2. "drop6" \in TryRules(x) \ failed
      BY <3>1 DEF TryRules
    <3>3. Rule(x, "drop6") = <<"me", "drop6", None>>
      BY DEF Rule
    <3> QED BY <3>2, <3>3
  <2> HIDE DEF new
  <2>4. x' = [x EXCEPT !.h.rules = @ \cup new]
    BY <2>1 DEF new
  <2>5. x'.p = x.p /\ x'.h.rules = x.h.rules \cup new /\ x'.h.pins = x.h.pins /\ x'.h.routes = x.h.routes
    BY <1>0, <2>4 DEF HostWorld, HostType
  <2>6. Closed6'
    BY <2>3, <2>5 DEF Closed6, IsV6
  <2>7. PastPin /\ PastPin' /\ PastCatch /\ ~AfterDns' /\ pc' # "catch2"
    BY <2>1 DEF PastPin, PastCatch, AfterDns
  <2>8. fails' \in Nat /\ fails' >= fails
    BY <1>0, <2>1, <2>2
  <2> QED BY <2>1, <2>5, <2>6, <2>7, <2>8, ServedKeeps
<1> QED BY <1>1, <1>2

LEMMA ServedDns ==
  ASSUME HostInv, Served, DnsCtl \/ DnsLock \/ DnsBackup \/ DnsWrite PROVE Served'
<1>0. x \in HostWorld /\ fails \in Nat
  BY DEF HostInv, HostTypeOK
<1>1. /\ pc \in {"dns", "lock", "backup", "write"} /\ pc' \in {"lock", "backup", "write", "event"}
      /\ UNCHANGED <<cfg, crashes, flips>> /\ fails' \in {fails, fails + 1}
  BY DEF DnsCtl, DnsLock, DnsBackup, DnsWrite, Give, Counts
<1>2. PastPin /\ PastPin' /\ PastCatch /\ PastRules /\ (AfterDns' => pc' = "event") /\ ~AfterDns
  BY <1>1 DEF PastPin, PastCatch, PastRules, AfterMust, AfterDns
<1>3. /\ x'.p.gw = x.p.gw /\ x'.p.ip = x.p.ip /\ x'.p.v6 = x.p.v6 /\ x'.p.addr = x.p.addr
      /\ x'.h.pins = x.h.pins /\ x'.h.routes = x.h.routes /\ x'.h.rules = x.h.rules
  <2>1. CASE x' = x
    BY <2>1
  <2>2. CASE x' = [x EXCEPT !.p.ctl = TRUE, !.p.dns = TRUE, !.h.link = TRUE]
    BY <1>0, <2>2 DEF HostWorld, HostType, ClientType
  <2>3. CASE x' = [x EXCEPT !.p.ctl = FALSE]
    BY <1>0, <2>3 DEF HostWorld, ClientType
  <2>4. CASE x' = [x EXCEPT !.p.lock = TRUE] \/ x' = [x EXCEPT !.p.lock = FALSE]
    BY <1>0, <2>4 DEF HostWorld, ClientType
  <2>5. CASE x' = [x EXCEPT !.h.bak = x.h.resolv]
    BY <1>0, <2>5 DEF HostWorld, HostType
  <2>6. ASSUME NEW b, x' = [x EXCEPT !.h.bak = b, !.h.uncopied = TRUE]
        PROVE  /\ x'.p = x.p
               /\ x'.h.pins = x.h.pins /\ x'.h.routes = x.h.routes /\ x'.h.rules = x.h.rules
    BY <1>0, <2>6 DEF HostWorld, HostType
  <2>7. CASE x' = [x EXCEPT !.h.resolv = "ours", !.p.dns = TRUE]
    BY <1>0, <2>7 DEF HostWorld, HostType, ClientType
  <2>8. CASE DnsBackup
    BY <2>5, <2>6, <2>8 DEF DnsBackup, Give
  <2>9. CASE x' = [x EXCEPT !.p.lock = FALSE, !.h.resolv = "ours", !.h.uncopied = TRUE]
    BY <1>0, <2>9 DEF HostWorld, HostType, ClientType
  <2> QED BY <2>1, <2>2, <2>3, <2>4, <2>7, <2>8, <2>9 DEF DnsCtl, DnsLock, DnsWrite, Give
<1>4. AfterDns' => Named'
  <2> SUFFICES ASSUME pc' = "event", "dns" \in cfg, fails' = 0, flips = 0
               PROVE  IF x'.p.ctl THEN x'.h.link ELSE x'.h.resolv = "ours"
    BY <1>1, <1>2 DEF Named
  <2>0. fails' = fails
    BY <1>0, <1>1
  <2>1. CASE DnsCtl
    <3>1. x' = [x EXCEPT !.p.ctl = TRUE, !.p.dns = TRUE, !.h.link = TRUE]
      BY <1>0, <2>0, <2>1 DEF DnsCtl, Give
    <3> QED BY <1>0, <3>1 DEF HostWorld, HostType, ClientType
  <2>2. CASE DnsLock
    BY <1>2, <2>2 DEF DnsLock, Give, HostInv, DnsTracked
  <2>3. CASE DnsBackup
    BY <2>3 DEF DnsBackup, Give
  <2>4. CASE DnsWrite
    <3>1. x' = [x EXCEPT !.h.resolv = "ours", !.p.dns = TRUE] /\ pc = "write"
      BY <1>0, <2>0, <2>4 DEF DnsWrite, Give
    <3>2. ~x.p.ctl
      BY <3>1 DEF HostInv, DnsTracked
    <3> QED BY <1>0, <3>1, <3>2 DEF HostWorld, HostType, ClientType
  <2> QED BY <2>1, <2>2, <2>3, <2>4
<1> QED BY <1>0, <1>1, <1>2, <1>3, <1>4, ServedKeeps

LEMMA ServedLoop ==
  ASSUME HostInv, Served, TunActive \/ ResolvedFlips \/ UNCHANGED vars PROVE Served'
<1>0. x \in HostWorld /\ fails \in Nat /\ flips \in Nat
  BY DEF HostInv, HostTypeOK
<1>1. CASE TunActive
  <2>1. CASE /\ x' = [x EXCEPT !.p.up = TRUE] /\ pc = "event" /\ pc' = "loop" /\ cstate' = "ESTABLISHED"
             /\ UNCHANGED <<cfg, signalled, aborted, fails, crashes, flips>>
    <3>1. /\ x'.p.gw = x.p.gw /\ x'.p.ip = x.p.ip /\ x'.p.v6 = x.p.v6 /\ x'.p.addr = x.p.addr
          /\ x'.p.ctl = x.p.ctl /\ x'.h = x.h
      BY <1>0, <2>1 DEF HostWorld, ClientType
    <3>2. PastPin /\ PastPin' /\ PastCatch /\ PastRules /\ AfterDns /\ pc' # "catch2"
      BY <2>1 DEF PastPin, PastCatch, PastRules, AfterMust, AfterDns
    <3>3. Named'
      BY <2>1, <3>1, <3>2 DEF Served, Named
    <3> QED BY <1>0, <2>1, <3>1, <3>2, <3>3, ServedKeeps
  <2>2. CASE Fail(x, 1)
    BY <2>2, ServedOut DEF Fail, PastPin
  <2> QED BY <1>1, <2>1, <2>2 DEF TunActive, Counts
<1>2. CASE ResolvedFlips
  <2>1. x' = [x EXCEPT !.h.resolved = ~@] /\ flips' # 0 /\ UNCHANGED <<pc, cstate, cfg, fails>>
    BY <1>0, <1>2 DEF ResolvedFlips
  <2>2. x'.p = x.p /\ x'.h.rules = x.h.rules /\ x'.h.pins = x.h.pins /\ x'.h.routes = x.h.routes
    BY <1>0, <2>1 DEF HostWorld, HostType
  <2>3. (PastPin' <=> PastPin) /\ (PastCatch' <=> PastCatch) /\ (PastRules' <=> PastRules)
    BY <2>1 DEF PastPin, PastCatch, PastRules, AfterMust
  <2> QED BY <2>1, <2>2, <2>3 DEF Served, Pinned, Whole, Closed6, Named, IsV6, ManageRoutes
<1>3. CASE UNCHANGED vars
  BY <1>3 DEF vars, Served, Pinned, Whole, Closed6, Named, IsV6, ManageRoutes, PastPin, PastCatch, PastRules,
              AfterMust, AfterDns
<1> QED BY <1>1, <1>2, <1>3

LEMMA HostServed == Spec => []Served
<1>1. Init => Served
  BY DEF Init, Served, PastPin, PastCatch, PastRules, AfterMust, AfterDns
<1>2. HostInv /\ Served /\ [Next]_vars => Served'
  BY ServedStart, ServedRoutes, ServedRules, ServedDns, ServedLoop DEF Next, Setup
<1> QED BY <1>1, <1>2, HostInvariant, PTL DEF Spec

(* While the tunnel is up, in the first session and in every later one,    *)
(* what cb_tunnel_config_ready was asked for is in force: pin of the       *)
(* server in use now, catch-all routes, and the resolver when no command   *)
(* failed; nothing that earlier sessions or killed processes left behind   *)
(* stands in the way.                                                      *)
THEOREM InForceHolds == Spec => []InForce
<1>1. HostInv /\ Served => InForce
  <2> SUFFICES ASSUME HostInv, Served, pc = "loop", cstate = "ESTABLISHED" PROVE InForce
    BY DEF InForce
  <2>1. PastPin /\ PastCatch /\ AfterDns /\ ~Between
    BY DEF PastPin, PastCatch, AfterDns, Between
  <2>2. ManageRoutes => x.p.ip = x.p.addr
    BY <2>1 DEF HostInv, AddressNoted
  <2> QED BY <2>1, <2>2 DEF Served, InForce, Pinned, Whole, Named
<1> QED BY <1>1, HostInvariant, HostServed, PTL

(* While the tunnel is up with the kill switch on, the rules of            *)
(* setup_killswitch let out nothing but the tunnel, the loopback and the   *)
(* server in use now, after any number of reconnects to other addresses,   *)
(* and let that server through: in IPv4 always, in IPv6 when the server is *)
(* reached by IPv6 or the tunnel carries it and no command failed.         *)
THEOREM ProtectedHolds == Spec => []Protected
<1>1. HostInv /\ Served => Protected
  <2> SUFFICES ASSUME HostInv, Served, pc = "loop", cstate = "ESTABLISHED", "ks" \in cfg
               PROVE  Protected
    BY DEF Protected
  <2> DEFINE stale == {q \in x.h.rules : q[1] = "stale"}
             inside == {"tun", "lo", x.p.addr} \cup {r[3] : r \in stale}
             srv == IF IsV6(x) THEN "srv6" ELSE "srv4"
  <2>1. AfterMust /\ PastRules /\ ~Between
    BY DEF AfterMust, PastRules, Between
  <2>2. MustThere /\ x.p.ip # None /\ Shaped
    BY <2>1 DEF HostInv, RulesTracked
  <2>3. x.p.ip = x.p.addr /\ x.p.addr \in Servers
    BY <2>1, <2>2 DEF HostInv, AddressNoted
  <2>4. /\ 1 \in DOMAIN MustRules(x) /\ MustRules(x)[1] = "tun4"
        /\ 2 \in DOMAIN MustRules(x) /\ MustRules(x)[2] = "lo4"
        /\ 3 \in DOMAIN MustRules(x) /\ MustRules(x)[3] = "drop4"
        /\ 4 \in DOMAIN MustRules(x) /\ MustRules(x)[4] = srv
    BY DEF MustRules
  <2>5. Rule(x, "tun4") \in x.h.rules /\ Rule(x, "lo4") \in x.h.rules /\ Rule(x, "drop4") \in x.h.rules
        /\ Rule(x, srv) \in x.h.rules
    BY <2>2, <2>4 DEF MustThere
  <2>6. /\ <<"me", "tun4", None>> \in x.h.rules /\ <<"me", "lo4", None>> \in x.h.rules
        /\ <<"me", "drop4", None>> \in x.h.rules /\ <<"me", srv, x.p.addr>> \in x.h.rules
    BY <2>3, <2>5 DEF Rule
  <2>7. \A r \in x.h.rules : r[2] \in {"srv4", "srv6"} => r[3] \in inside
    <3> SUFFICES ASSUME NEW r \in x.h.rules, r[2] \in {"srv4", "srv6"} PROVE r[3] \in inside
      OBVIOUS
    <3>1. r \in Rules
      BY DEF HostInv, HostTypeOK, HostWorld, HostType
    <3>2. r[1] \in {"me", "stale"}
      BY <3>1 DEF Rules
    <3>3. CASE r[1] = "stale"
      BY <3>3
    <3>4. CASE r[1] = "me"
      <4>1. r = Rule(x, r[2])
        BY <2>2, <3>4 DEF Shaped, WellShaped
      <4>2. r[3] = x.p.ip
        BY <4>1 DEF Rule
      <4> QED BY <2>3, <4>2
    <3> QED BY <3>2, <3>3, <3>4
  <2>8. IsV6(x) => <<"me", "drop6", None>> \in x.h.rules
    <3> SUFFICES ASSUME IsV6(x) PROVE <<"me", "drop6", None>> \in x.h.rules
      OBVIOUS
    <3>1. 6 \in DOMAIN MustRules(x) /\ MustRules(x)[6] = "drop6"
      BY DEF MustRules
    <3>2. Rule(x, "drop6") \in x.h.rules
      BY <2>2, <3>1 DEF MustThere
    <3> QED BY <3>2 DEF Rule
  <2>9. x.p.v6 /\ fails = 0 /\ ~IsV6(x) => <<"me", "drop6", None>> \in x.h.rules
    BY <2>1 DEF Served, Closed6
  <2> HIDE DEF inside, srv
  <2>10. "tun" \in inside /\ "lo" \in inside /\ x.p.addr \in inside
    BY DEF inside
  <2>11. ASSUME NEW tun, NEW lo, NEW s \in {"srv4", "srv6"}, NEW drop, <<"me", drop, None>> \in x.h.rules
         PROVE  Out(tun, lo, s, drop) \subseteq inside
    <3>1. \E r \in x.h.rules : r[2] = drop
      BY <2>11
    <3> QED BY <2>7, <2>10, <2>11, <3>1 DEF Out
  <2>12. ASSUME NEW tun, NEW lo, NEW s, NEW drop, NEW d \in Servers, <<"me", s, d>> \in x.h.rules
         PROVE  d \in Out(tun, lo, s, drop)
    <3>1. \E r \in x.h.rules : r[2] = s /\ r[3] = d
      BY <2>12
    <3> QED BY <3>1 DEF Out
  <2>13. Out4 \subseteq inside
    BY <2>6, <2>11 DEF Out4
  <2>14. {"tun", "lo"} \subseteq Out4
    <3>1. (\E r \in x.h.rules : r[2] = "tun4") /\ (\E r \in x.h.rules : r[2] = "lo4")
      BY <2>6
    <3> QED BY <3>1 DEF Out4, Out
  <2>15. x.p.addr \in IF IsV6(x) THEN Out6 ELSE Out4
    <3>1. CASE IsV6(x)
      <4>1. <<"me", "srv6", x.p.addr>> \in x.h.rules
        BY <2>6, <3>1 DEF srv
      <4> QED BY <2>3, <2>12, <3>1, <4>1 DEF Out6
    <3>2. CASE ~IsV6(x)
      <4>1. <<"me", "srv4", x.p.addr>> \in x.h.rules
        BY <2>6, <3>2 DEF srv
      <4> QED BY <2>3, <2>12, <3>2, <4>1 DEF Out4
    <3> QED BY <3>1, <3>2
  <2>16. IsV6(x) \/ (x.p.v6 /\ fails = 0) => Out6 \subseteq inside
    BY <2>8, <2>9, <2>11 DEF Out6
  <2> QED BY <2>13, <2>14, <2>15, <2>16 DEF Protected, inside
<1> QED BY <1>1, HostInvariant, HostServed, PTL

-----------------------------------------------------------------------------
(***************************************************************************)
(* Part 2: DarwinDns                                                       *)
(***************************************************************************)

-----------------------------------------------------------------------------
(* The inductive invariant.  Its parts about a process are predicates of   *)
(* its record r, the backup bk, the lock's inode pa and the orphans os.    *)

ProcType == [pc : Pcs, active : {0, 1}, held : Inodes \cup {0}, todo : SUBSET Services, seen : SUBSET Services,
             snap : Backups, guard : {0, 1}, why : {"none", "stale", "rollback", "restore"},
             ok : {0, 1}, quit : {0, 1}]

OrphanType == [svc : Services, val : Own \cup {"vpn"}, held : Inodes]

(* The flags of one process agree with where it is. *)
Flags(r) ==
    /\ r.held # 0 <=> r.pc \in {"snap", "sync", "set", "restore"} \/ (r.pc = "idle" /\ r.active = 1)
    /\ r.pc \in {"down", "start", "unlink", "snap", "sync"} => r.active = 0
    /\ r.quit = 1 => r.pc \in {"restore", "unlink"}
    /\ r.pc = "set" /\ r.seen # {} => r.active = 1
    /\ r.pc = "restore" /\ r.why = "stale" => r.active = 0
    /\ r.pc \in {"down", "start", "idle"} => r.snap = <<>>
    /\ r.pc \in {"down", "start", "idle", "snap", "sync"} => r.seen = {} /\ r.guard = 0

(* The lock file is the one at the path, no child of a process that was    *)
(* killed has it while it is held or about to be removed, and the loops    *)
(* have a backup to go by.                                                 *)
Placed(r, bk, pa, os) ==
    /\ r.held # 0 => r.held = pa
    /\ r.held # 0 \/ r.pc = "unlink" => os = {}
    /\ r.pc \in {"sync", "set", "restore"} \/ r.active = 1 => bk # Absent
    /\ r.pc = "snap" => bk = Absent
    /\ r.pc \in {"set", "restore"} => r.todo \subseteq DOMAIN bk /\ r.seen \subseteq DOMAIN bk

World ==
    /\ dns \in [Services -> Own \cup {"vpn"}] /\ orig \in [Services -> Own] /\ listed \in SUBSET Services
    /\ backup \in Backups \cup {Absent}
    /\ gate \in Procs \cup {Absent} /\ path \in Inodes \cup {0}
    /\ proc \in [Procs -> ProcType] /\ orphans \in SUBSET OrphanType
    /\ budget \in [{"fails", "crashes", "disk", "edits"} -> Nat]

LockInv ==
    /\ World
    /\ \A o \in orphans : o.held = path
    /\ \A p \in Procs : gate = p <=> proc[p].pc # "down"
    /\ \A p \in Procs : Flags(proc[p]) /\ Placed(proc[p], backup, path, orphans)

(* The services whose setting the user has not changed under a backup. *)
Counted == Services \ edited

Files ==
    /\ backup \in durable /\ durable \subseteq Backups \cup {Absent}
    /\ edited \subseteq Services /\ haste \in {"none", "taken", "lost"}

(* Every line of every version of the backup is what the user had. *)
AllRight(du, or, sv) ==
    \A f \in du : f # Absent => \A s \in DOMAIN f \cap sv : RestoreValue(f[s]) = or[s]

(* A loop misses no service whose setting is not the user's, and nothing   *)
(* is set by a backup that is not durable unless it was taken over so.     *)
Tracks(r, dn, or, bk, du, ha, sv) ==
    /\ r.pc = "set" => /\ ha = "none" => du = {bk}
                       /\ r.guard = 0 => \A s \in sv : dn[s] # or[s] => s \in r.seen
    /\ r.pc \in {"snap", "sync"} => \A s \in sv : dn[s] = or[s]
    /\ r.pc = "restore" /\ r.ok = 1 => \A s \in sv : dn[s] # or[s] => s \in r.todo
    /\ \A s \in DOMAIN r.snap \cap sv : RestoreValue(r.snap[s]) = or[s]

(* What is not the user's, or will not be, is in the backup, and in what a *)
(* power loss would leave of it.                                           *)
Covered(dn, or, bk, du, os, ha, sv) ==
    \A s \in sv : (dn[s] # or[s] \/ \E o \in os : o.svc = s /\ o.val # or[s]) =>
        /\ bk # Absent /\ s \in DOMAIN bk
        /\ ha = "none" => \A f \in du : f # Absent /\ s \in DOMAIN f

KeptInv ==
    /\ LockInv /\ Files
    /\ AllRight(durable, orig, Counted)
    /\ orphans # {} => backup # Absent
    /\ Covered(dns, orig, backup, durable, orphans, haste, Counted)
    /\ \A p \in Procs : Tracks(proc[p], dns, orig, backup, durable, haste, Counted)

-----------------------------------------------------------------------------
(* Backups, records and the lock *)

LEMMA EmptyBackup == <<>> \in Backups /\ DOMAIN <<>> = {}
<1>1. <<>> \in [{} -> Lines] /\ DOMAIN <<>> = {}
  OBVIOUS
<1> QED BY <1>1 DEF Backups

LEMMA BackupHas ==
  ASSUME NEW b \in Backups
  PROVE  DOMAIN b \subseteq Services /\ \A s \in DOMAIN b : b[s] \in Lines /\ RestoreValue(b[s]) \in Own \cup {"vpn"}
<1>1. DOMAIN b \subseteq Services /\ \A s \in DOMAIN b : b[s] \in Lines
  BY DEF Backups
<1>2. \A v \in Lines : RestoreValue(v) \in Own \cup {"vpn"}
  BY DarwinDnsAssumption DEF Lines, RestoreValue
<1> QED BY <1>1, <1>2

LEMMA LineAdded ==
  ASSUME NEW b \in Backups, NEW s \in Services, GetDnsServers(s) \in Lines
  PROVE  FormatLine(b, s) \in Backups
<1> DEFINE D == DOMAIN b \cup {s}
<1>1. D \in SUBSET Services /\ \A u \in DOMAIN b : b[u] \in Lines
  BY BackupHas
<1>2. FormatLine(b, s) \in [D -> Lines]
  BY <1>1 DEF FormatLine
<1> QED BY <1>1, <1>2 DEF Backups

LEMMA DownIs ==
  /\ Down \in ProcType /\ Down.pc = "down" /\ Down.active = 0 /\ Down.held = 0 /\ Down.todo = {} /\ Down.seen = {}
  /\ Down.snap = <<>> /\ Down.guard = 0 /\ Down.why = "none" /\ Down.ok = 1 /\ Down.quit = 0
BY EmptyBackup DEF Down, ProcType, Pcs

LEMMA LeaveIs ==
  ASSUME NEW r \in ProcType
  PROVE  /\ Leave(r) \in ProcType
         /\ r.quit = 1 => Leave(r) = Down
         /\ r.quit = 0 => /\ Leave(r).pc = "idle" /\ Leave(r).active = r.active /\ Leave(r).held = r.held
                          /\ Leave(r).todo = {} /\ Leave(r).seen = {} /\ Leave(r).snap = <<>> /\ Leave(r).quit = 0
                          /\ Leave(r).guard = 0 /\ Leave(r).ok = 1
<1>1. CASE r.quit = 1
  BY <1>1, DownIs DEF Leave
<1>2. CASE r.quit = 0
  <2>1. Leave(r) = [Down EXCEPT !.pc = "idle", !.active = r.active, !.held = r.held]
    BY <1>2 DEF Leave
  <2>2. r.active \in {0, 1} /\ r.held \in Inodes \cup {0}
    BY DEF ProcType
  <2> DEFINE d == Down
  <2>3. d \in ProcType /\ d.todo = {} /\ d.seen = {} /\ d.snap = <<>> /\ d.guard = 0 /\ d.ok = 1 /\ d.quit = 0
    BY DownIs
  <2>4. Leave(r) = [d EXCEPT !.pc = "idle", !.active = r.active, !.held = r.held]
    BY <2>1
  <2> HIDE DEF d
  <2>5. Leave(r) \in ProcType
    BY <2>2, <2>3, <2>4 DEF ProcType, Pcs
  <2>6. /\ Leave(r).pc = "idle" /\ Leave(r).active = r.active /\ Leave(r).held = r.held
        /\ Leave(r).todo = {} /\ Leave(r).seen = {} /\ Leave(r).snap = <<>> /\ Leave(r).quit = 0
        /\ Leave(r).guard = 0 /\ Leave(r).ok = 1
    BY <2>3, <2>4 DEF ProcType
  <2> QED BY <1>2, <2>5, <2>6
<1> QED BY <1>1, <1>2 DEF ProcType

LEMMA ReleaseIs ==
  ASSUME NEW r \in ProcType
  PROVE  /\ ReleaseLock(r) \in ProcType /\ ReleaseLock(r).pc = "unlink" /\ ReleaseLock(r).held = 0
         /\ ReleaseLock(r).active = r.active /\ ReleaseLock(r).quit = r.quit /\ ReleaseLock(r).snap = r.snap
BY DEF ReleaseLock, ProcType, Pcs

LEMMA Spent ==
  ASSUME NEW k \in {"fails", "crashes", "disk", "edits"}, budget \in [{"fails", "crashes", "disk", "edits"} -> Nat], Spend(k)
  PROVE  budget' \in [{"fails", "crashes", "disk", "edits"} -> Nat]
BY DEF Spend

(* Only one process runs, and the steps of one process leave the others    *)
(* where they are.                                                         *)
LEMMA OneMoves ==
  ASSUME LockInv, NEW p \in Procs, NEW r \in ProcType, proc' = [proc EXCEPT ![p] = r],
         gate \in {p, Absent}, gate' = (IF r.pc = "down" THEN Absent ELSE p),
         dns' \in [Services -> Own \cup {"vpn"}], UNCHANGED <<orig, listed>>,
         backup' \in Backups \cup {Absent},
         path' \in Inodes \cup {0}, orphans' \in SUBSET OrphanType,
         budget' \in [{"fails", "crashes", "disk", "edits"} -> Nat],
         \A o \in orphans' : o.held = path',
         Flags(r), Placed(r, backup', path', orphans')
  PROVE  LockInv'
<1>1. proc' \in [Procs -> ProcType] /\ proc'[p] = r /\ \A q \in Procs : q # p => proc'[q] = proc[q]
  BY DEF LockInv, World
<1>2. World'
  BY <1>1 DEF LockInv, World
<1>3. \A q \in Procs : q # p => proc[q].pc = "down"
  BY DarwinDnsAssumption DEF LockInv
<1>4. \A q \in Procs : gate' = q <=> proc'[q].pc # "down"
  BY <1>1, <1>3, DarwinDnsAssumption
<1>5. ASSUME NEW q \in Procs
      PROVE  Flags(proc'[q]) /\ Placed(proc'[q], backup', path', orphans')
  <2>1. CASE q = p
    BY <1>1, <2>1
  <2>2. CASE q # p
    <3>1. Flags(proc[q]) /\ proc[q].pc = "down" /\ proc'[q] = proc[q]
      BY <1>1, <1>3, <2>2 DEF LockInv
    <3>2. proc[q].held = 0 /\ proc[q].active = 0
      BY <3>1 DEF Flags, LockInv, World, ProcType
    <3> QED BY <3>1, <3>2 DEF Placed
  <2> QED BY <2>1, <2>2
<1> QED BY <1>2, <1>4, <1>5 DEF LockInv

LEMMA Runs ==
  ASSUME LockInv, NEW p \in Procs, proc[p].pc # "down"
  PROVE  /\ gate = p /\ proc[p] \in ProcType /\ Flags(proc[p]) /\ Placed(proc[p], backup, path, orphans)
         /\ \A q \in Procs : q # p => proc[q].pc = "down"
BY DarwinDnsAssumption DEF LockInv, World

(* acquire_lock, when it succeeds: the process has the file at the path,   *)
(* and then no child of a killed process has it.                           *)
LEMMA Acquired ==
  ASSUME LockInv, NEW p \in Procs, proc[p].pc # "down", AcquireLock(p)
  PROVE  /\ Locked(p) \in ProcType /\ Locked(p) = [proc[p] EXCEPT !.held = LockPath(p)]
         /\ LockPath(p) \in Inodes /\ LockPath(p) # 0 /\ orphans = {}
<1>0. proc[p] \in ProcType /\ path \in Inodes \cup {0}
  BY DEF LockInv, World
<1>1. 1 \in Inodes /\ 0 \notin Inodes
  <2>1. Cardinality(Procs) \in Nat
    BY DarwinDnsAssumption, FS_CardinalityType
  <2> QED BY <2>1 DEF Inodes
<1>2. CASE proc[p].held # 0
  <2>1. proc[p].held = path /\ orphans = {}
    BY <1>2 DEF LockInv, Placed
  <2>2. Locked(p) = proc[p] /\ LockPath(p) = path
    BY <1>2 DEF Locked, LockPath
  <2>3. proc[p] = [proc[p] EXCEPT !.held = path]
    BY <1>0, <2>1 DEF ProcType
  <2> QED BY <1>0, <1>1, <1>2, <2>1, <2>2, <2>3
<1>3. CASE proc[p].held = 0
  <2>1. ~Holds(LockFile) /\ LockPath(p) = LockFile /\ Locked(p) = [proc[p] EXCEPT !.held = LockFile]
    BY <1>3 DEF AcquireLock, LockPath, Locked
  <2>2. LockFile \in Inodes
    <3>1. CASE path # 0
      BY <1>0, <3>1 DEF LockFile
    <3>2. CASE path = 0
      <4>1. ~Holds(1)
        BY <1>1, <3>2 DEF Holds, LockInv, World, Placed
      <4> QED BY <1>1, <3>2, <4>1 DEF LockFile
    <3> QED BY <3>1, <3>2
  <2>3. orphans = {}
    <3> SUFFICES ASSUME NEW o \in orphans PROVE FALSE
      OBVIOUS
    <3>1. o.held = path /\ o.held \in Inodes
      BY DEF LockInv, World, OrphanType
    <3>2. LockFile = path
      BY <1>1, <3>1 DEF LockFile
    <3> QED BY <2>1, <3>1, <3>2 DEF Holds
  <2>4. [proc[p] EXCEPT !.held = LockFile] \in ProcType
    BY <1>0, <2>2 DEF ProcType
  <2> QED BY <1>1, <2>1, <2>2, <2>3, <2>4
<1> QED BY <1>2, <1>3

(* Giving the lock back, or keeping it with the settings in force. *)
LEMMA Released ==
  ASSUME NEW r \in ProcType, NEW bk, NEW pa, NEW os,
         r.held # 0, r.held = pa, os = {}, r.quit = 0, r.active = 1 => bk # Absent
  PROVE  LET z == ReleaseLockIfInactive(r)
         IN  z \in ProcType /\ Flags(z) /\ Placed(z, bk, pa, os) /\ z.pc \in {"idle", "unlink"}
<1> DEFINE z == ReleaseLockIfInactive(r)
<1>1. CASE r.active = 0
  <2>1. z = ReleaseLock(r)
    BY <1>1 DEF ReleaseLockIfInactive
  <2>2. z \in ProcType /\ z.pc = "unlink" /\ z.held = 0 /\ z.active = 0
    BY <1>1, <2>1, ReleaseIs
  <2> HIDE DEF z
  <2>3. Flags(z) /\ Placed(z, bk, pa, os)
    BY <2>2 DEF Flags, Placed
  <2> QED BY <2>2, <2>3 DEF z
<1>2. CASE r.active # 0
  <2>1. z = Leave(r) /\ r.active = 1
    BY <1>2 DEF ReleaseLockIfInactive, ProcType
  <2>2. z \in ProcType /\ z.pc = "idle" /\ z.held = r.held /\ z.active = 1 /\ z.quit = 0 /\ z.snap = <<>> /\ z.seen = {} /\ z.guard = 0
    BY <2>1, LeaveIs
  <2> HIDE DEF z
  <2>3. Flags(z) /\ Placed(z, bk, pa, os)
    BY <2>1, <2>2 DEF Flags, Placed
  <2> QED BY <2>2, <2>3 DEF z
<1> QED BY <1>1, <1>2

-----------------------------------------------------------------------------
(* The steps *)

LEMMA StartProcLock == ASSUME LockInv, NEW p \in Procs, StartProc(p) PROVE LockInv'
<1> DEFINE z == [Down EXCEPT !.pc = "start"]
<1>1. z \in ProcType /\ z.pc = "start" /\ z.held = 0 /\ z.active = 0 /\ z.quit = 0 /\ z.snap = <<>> /\ z.seen = {} /\ z.guard = 0
  BY DownIs DEF ProcType, Pcs
<1>2. proc' = [proc EXCEPT ![p] = z] /\ gate = Absent /\ gate' = p
      /\ UNCHANGED <<dns, listed, backup, durable, path, orphans, orig, budget>>
  BY DEF StartProc, To
<1> HIDE DEF z
<1>3. Flags(z) /\ Placed(z, backup', path', orphans')
  BY <1>1 DEF Flags, Placed
<1> QED BY <1>1, <1>2, <1>3, OneMoves DEF LockInv, World

LEMMA RestoreStaleLock == ASSUME LockInv, NEW p \in Procs, RestoreStale(p) PROVE LockInv'
<1> DEFINE r == proc[p]
<1>0. r.pc = "start" /\ UNCHANGED <<dns, listed, backup, durable, gate, orphans, orig, budget>>
  BY DEF RestoreStale
<1>1. gate = p /\ r \in ProcType /\ Flags(r) /\ r.active = 0 /\ r.held = 0 /\ r.quit = 0
  BY <1>0, Runs DEF Flags, ProcType
<1>2. CASE HasStaleBackup(p) /\ AcquireLock(p)
  <2> DEFINE k == Locked(p)
             z == [k EXCEPT !.pc = "restore", !.why = "stale", !.todo = DOMAIN backup]
  <2>1. k \in ProcType /\ k = [r EXCEPT !.held = LockPath(p)] /\ LockPath(p) \in Inodes /\ LockPath(p) # 0 /\ orphans = {}
    BY <1>0, <1>2, Acquired
  <2>2. k.held = LockPath(p) /\ k.active = 0 /\ k.quit = 0 /\ k.seen = r.seen
    BY <1>1, <2>1 DEF ProcType
  <2>3. backup # Absent /\ backup \in Backups /\ DOMAIN backup \subseteq Services
    BY <1>2, BackupHas DEF HasStaleBackup, LockInv, World
  <2>4. proc' = [proc EXCEPT ![p] = z] /\ path' = LockPath(p)
    BY <1>2 DEF RestoreStale, To
  <2> HIDE DEF k
  <2>5. z \in ProcType /\ z.pc = "restore" /\ z.held = LockPath(p) /\ z.active = 0 /\ z.quit = 0 /\ z.todo = DOMAIN backup
        /\ z.why = "stale" /\ z.seen = r.seen
    BY <2>1, <2>2, <2>3 DEF ProcType, Pcs
  <2> HIDE DEF z
  <2>6. Flags(z)
    BY <2>1, <2>5 DEF Flags
  <2>7. r.seen \subseteq DOMAIN backup
    BY <1>0, <1>1 DEF Flags
  <2>8. Placed(z, backup', path', orphans')
    BY <1>0, <2>1, <2>3, <2>4, <2>5, <2>7 DEF Placed
  <2> QED BY <1>0, <1>1, <2>1, <2>4, <2>5, <2>6, <2>8, OneMoves DEF LockInv, World
<1>3. CASE ~(HasStaleBackup(p) /\ AcquireLock(p))
  <2> DEFINE z == Leave(r)
  <2>1. proc' = [proc EXCEPT ![p] = z] /\ path' = path
    BY <1>3 DEF RestoreStale, To
  <2>2. z \in ProcType /\ z.pc = "idle" /\ z.active = 0 /\ z.held = 0 /\ z.quit = 0 /\ z.snap = <<>> /\ z.seen = {} /\ z.guard = 0
    BY <1>1, LeaveIs
  <2> HIDE DEF z
  <2>3. Flags(z) /\ Placed(z, backup', path', orphans')
    BY <2>2 DEF Flags, Placed
  <2> QED BY <1>0, <1>1, <2>1, <2>2, <2>3, OneMoves DEF LockInv, World
<1> QED BY <1>2, <1>3

LEMMA ApplyLock == ASSUME LockInv, NEW p \in Procs, Apply(p) PROVE LockInv'
<1> DEFINE r == proc[p]
           k == Locked(p)
<1>0. r.pc = "idle" /\ AcquireLock(p) /\ path' = LockPath(p) /\ UNCHANGED <<dns, listed, backup, durable, gate, orphans, orig>>
  BY DEF Apply
<1>1. gate = p /\ r \in ProcType /\ Flags(r) /\ Placed(r, backup, path, orphans)
  BY <1>0, Runs
<1>2. r.quit = 0 /\ r.seen = {} /\ r.snap = <<>> /\ r.guard = 0 /\ (r.active = 1 => backup # Absent)
  BY <1>0, <1>1 DEF Flags, Placed, ProcType
<1>3. k \in ProcType /\ k = [r EXCEPT !.held = LockPath(p)] /\ LockPath(p) \in Inodes /\ LockPath(p) # 0 /\ orphans = {}
  BY <1>0, Acquired
<1>4. k.held = LockPath(p) /\ k.active = r.active /\ k.quit = 0 /\ k.seen = {} /\ k.snap = <<>> /\ k.guard = 0
  BY <1>1, <1>2, <1>3 DEF ProcType
<1>5. ASSUME NEW z \in ProcType, proc' = [proc EXCEPT ![p] = z], Flags(z), Placed(z, backup, LockPath(p), {}), z.pc # "down",
             budget' \in [{"fails", "crashes", "disk", "edits"} -> Nat]
      PROVE  LockInv'
  BY <1>0, <1>1, <1>3, <1>5, OneMoves DEF LockInv, World
<1> HIDE DEF k
<1>6. CASE PreexistingBackup /\ UNCHANGED budget
           /\ proc' = [proc EXCEPT ![p] = [k EXCEPT !.pc = "set", !.guard = 1, !.todo = {s \in ListServices : BackupHasService(s)}]]
  <2> DEFINE T == {s \in ListServices : BackupHasService(s)}
             z == [k EXCEPT !.pc = "set", !.guard = 1, !.todo = T]
  <2>1. T \in SUBSET Services /\ T \subseteq DOMAIN backup /\ backup # Absent
    BY <1>6 DEF ListServices, BackupHasService, LockInv, World, PreexistingBackup
  <2> HIDE DEF T
  <2>2. /\ z \in ProcType /\ z.pc = "set" /\ z.todo = T /\ z.held = LockPath(p) /\ z.active = r.active /\ z.quit = 0 /\ z.seen = {}
    BY <1>3, <1>4, <2>1 DEF ProcType, Pcs
  <2>3. proc' = [proc EXCEPT ![p] = z] /\ budget' \in [{"fails", "crashes", "disk", "edits"} -> Nat]
    BY <1>6 DEF T, LockInv, World
  <2> HIDE DEF z
  <2>4. Flags(z) /\ Placed(z, backup, LockPath(p), {})
    BY <1>3, <2>1, <2>2 DEF Flags, Placed
  <2> QED BY <1>5, <2>2, <2>3, <2>4
<1>7. CASE ~PreexistingBackup /\ UNCHANGED budget /\ proc' = [proc EXCEPT ![p] = [k EXCEPT !.pc = "snap", !.todo = ListServices]]
  <2> DEFINE z == [k EXCEPT !.pc = "snap", !.todo = ListServices]
  <2>1. r.active = 0 /\ backup = Absent /\ ListServices \in SUBSET Services
    BY <1>1, <1>2, <1>7 DEF PreexistingBackup, ProcType, ListServices, LockInv, World
  <2>2. /\ z \in ProcType /\ z.pc = "snap" /\ z.held = LockPath(p) /\ z.active = 0 /\ z.quit = 0 /\ z.seen = {} /\ z.guard = 0
    BY <1>3, <1>4, <2>1 DEF ProcType, Pcs
  <2>3. proc' = [proc EXCEPT ![p] = z] /\ budget' \in [{"fails", "crashes", "disk", "edits"} -> Nat]
    BY <1>7 DEF LockInv, World
  <2> HIDE DEF z
  <2>4. Flags(z) /\ Placed(z, backup, LockPath(p), {})
    BY <1>3, <2>1, <2>2 DEF Flags, Placed
  <2> QED BY <1>5, <2>2, <2>3, <2>4
<1>8. CASE /\ proc' = [proc EXCEPT ![p] = ReleaseLockIfInactive(k)]
           /\ CaptureFails \/ UNCHANGED budget
  <2> DEFINE z == ReleaseLockIfInactive(k)
  <2>1. z \in ProcType /\ Flags(z) /\ Placed(z, backup, LockPath(p), {}) /\ z.pc \in {"idle", "unlink"}
    <3>1. k \in ProcType /\ orphans = {} /\ k.held # 0 /\ k.held = LockPath(p) /\ k.quit = 0 /\ (k.active = 1 => backup # Absent)
      BY <1>2, <1>3, <1>4
    <3>2. z \in ProcType /\ Flags(z) /\ Placed(z, backup, LockPath(p), orphans) /\ z.pc \in {"idle", "unlink"}
      BY SMTT(60), ZenonT(90), <3>1, Released
    <3> QED BY <1>3, <3>2
  <2>2. budget' \in [{"fails", "crashes", "disk", "edits"} -> Nat]
    BY <1>8, Spent DEF CaptureFails, LockInv, World
  <2>3. proc' = [proc EXCEPT ![p] = z]
    BY <1>8
  <2> HIDE DEF z
  <2> QED BY <1>5, <2>1, <2>2, <2>3
<1> QED BY <1>6, <1>7, <1>8 DEF Apply, To, k

LEMMA WriteBackupLock == ASSUME LockInv, NEW p \in Procs, WriteBackup(p) PROVE LockInv'
<1> DEFINE r == proc[p]
<1>0. r.pc = "snap" /\ UNCHANGED <<dns, listed, gate, path, orphans, orig>>
  BY DEF WriteBackup
<1>1. gate = p /\ r \in ProcType /\ Flags(r) /\ Placed(r, backup, path, orphans)
  BY <1>0, Runs
<1>2. r.quit = 0 /\ r.seen = {} /\ r.guard = 0 /\ r.active = 0 /\ r.held # 0 /\ r.held = path /\ orphans = {} /\ backup = Absent
  BY <1>0, <1>1 DEF Flags, Placed, ProcType
<1>3. ASSUME NEW z \in ProcType, proc' = [proc EXCEPT ![p] = z], Flags(z), Placed(z, backup', path, orphans), z.pc # "down",
             budget' \in [{"fails", "crashes", "disk", "edits"} -> Nat], backup' \in Backups \cup {Absent}
      PROVE  LockInv'
  BY <1>0, <1>1, <1>3, OneMoves DEF LockInv, World
<1>4. CASE /\ \E s \in r.todo : To(p, [r EXCEPT !.todo = @ \ {s}, !.snap = FormatLine(@, s)])
           /\ UNCHANGED <<backup, budget>>
  <2>1. PICK s \in r.todo : proc' = [proc EXCEPT ![p] = [r EXCEPT !.todo = @ \ {s}, !.snap = FormatLine(@, s)]]
    BY <1>4 DEF To
  <2> DEFINE z == [r EXCEPT !.todo = @ \ {s}, !.snap = FormatLine(@, s)]
  <2>2. s \in Services /\ r.snap \in Backups
    BY <1>1 DEF ProcType
  <2>3. GetDnsServers(s) \in Lines
    BY <2>2 DEF GetDnsServers, Lines, LockInv, World
  <2>4. FormatLine(r.snap, s) \in Backups
    BY <2>2, <2>3, LineAdded
  <2>5. z \in ProcType /\ z.pc = "snap" /\ z.held = r.held /\ z.active = 0 /\ z.quit = 0 /\ z.seen = {} /\ z.guard = 0
    BY <1>0, <1>1, <1>2, <2>4 DEF ProcType
  <2>6. proc' = [proc EXCEPT ![p] = z]
    BY <2>1
  <2> HIDE DEF z
  <2>7. Flags(z) /\ Placed(z, backup', path, orphans)
    BY <1>2, <1>4, <2>5 DEF Flags, Placed
  <2> QED BY <1>3, <1>4, <2>5, <2>6, <2>7 DEF LockInv, World
<1>5. CASE backup' = r.snap /\ To(p, [r EXCEPT !.pc = "sync"]) /\ UNCHANGED budget
  <2> DEFINE z == [r EXCEPT !.pc = "sync"]
  <2>1. z \in ProcType /\ z.pc = "sync" /\ z.held = r.held /\ z.active = 0 /\ z.quit = 0 /\ z.seen = {} /\ z.guard = 0
    BY <1>1, <1>2 DEF ProcType, Pcs
  <2>2. proc' = [proc EXCEPT ![p] = z]
    BY <1>5 DEF To
  <2>3. backup' \in Backups /\ backup' # Absent
    BY <1>1, <1>5, DarwinDnsAssumption DEF ProcType
  <2> HIDE DEF z
  <2>4. Flags(z) /\ Placed(z, backup', path, orphans)
    BY <1>2, <2>1, <2>3 DEF Flags, Placed
  <2> QED BY <1>3, <1>5, <2>1, <2>2, <2>3, <2>4 DEF LockInv, World
<1>6. CASE CaptureFails /\ To(p, ReleaseLockIfInactive(r)) /\ UNCHANGED backup
  <2> DEFINE z == ReleaseLockIfInactive(r)
  <2>1. z \in ProcType /\ Flags(z) /\ Placed(z, backup, path, orphans) /\ z.pc \in {"idle", "unlink"}
    <3>1. r.held # 0 /\ r.held = path /\ r.quit = 0 /\ (r.active = 1 => backup # Absent)
      BY <1>2
    <3> HIDE DEF r
    <3> QED BY <1>1, <1>2, <3>1, Released
  <2>2. budget' \in [{"fails", "crashes", "disk", "edits"} -> Nat]
    BY <1>6, Spent DEF CaptureFails, LockInv, World
  <2>3. proc' = [proc EXCEPT ![p] = z]
    BY <1>6 DEF To
  <2> HIDE DEF z
  <2> QED BY <1>3, <1>6, <2>1, <2>2, <2>3 DEF LockInv, World
<1> QED BY <1>4, <1>5, <1>6 DEF WriteBackup

LEMMA SyncDirLock == ASSUME LockInv, NEW p \in Procs, SyncDir(p) PROVE LockInv'
<1> DEFINE r == proc[p]
<1>0. r.pc = "sync" /\ UNCHANGED <<dns, listed, backup, gate, path, orphans, orig>>
  BY DEF SyncDir
<1>1. gate = p /\ r \in ProcType /\ Flags(r) /\ Placed(r, backup, path, orphans)
  BY <1>0, Runs
<1>2. /\ r.quit = 0 /\ r.seen = {} /\ r.guard = 0 /\ r.active = 0 /\ r.held # 0 /\ r.held = path /\ orphans = {}
      /\ backup # Absent /\ backup \in Backups
  BY <1>0, <1>1 DEF Flags, Placed, ProcType, LockInv, World
<1>3. ASSUME NEW z \in ProcType, proc' = [proc EXCEPT ![p] = z], Flags(z), Placed(z, backup, path, orphans), z.pc # "down",
             budget' \in [{"fails", "crashes", "disk", "edits"} -> Nat]
      PROVE  LockInv'
  BY <1>0, <1>1, <1>3, OneMoves DEF LockInv, World
<1>4. CASE DurabilityFlush /\ To(p, [r EXCEPT !.pc = "set", !.todo = DOMAIN backup, !.snap = <<>>]) /\ UNCHANGED budget
  <2> DEFINE z == [r EXCEPT !.pc = "set", !.todo = DOMAIN backup, !.snap = <<>>]
  <2>1. DOMAIN backup \in SUBSET Services /\ <<>> \in Backups
    BY <1>2, BackupHas, EmptyBackup
  <2>2. z \in ProcType /\ z.pc = "set" /\ z.held = r.held /\ z.active = 0 /\ z.quit = 0 /\ z.seen = {} /\ z.todo = DOMAIN backup
    BY <1>1, <1>2, <2>1 DEF ProcType, Pcs
  <2>3. proc' = [proc EXCEPT ![p] = z]
    BY <1>4 DEF To
  <2> HIDE DEF z
  <2>4. Flags(z) /\ Placed(z, backup, path, orphans)
    BY <1>2, <2>2 DEF Flags, Placed
  <2> QED BY <1>2, <1>3, <1>4, <2>2, <2>3, <2>4 DEF LockInv, World
<1>5. CASE Spend("disk") /\ To(p, ReleaseLockIfInactive(r))
  <2> DEFINE z == ReleaseLockIfInactive(r)
  <2>1. z \in ProcType /\ Flags(z) /\ Placed(z, backup, path, orphans) /\ z.pc \in {"idle", "unlink"}
    BY <1>1, <1>2, Released
  <2>2. budget' \in [{"fails", "crashes", "disk", "edits"} -> Nat]
    BY <1>5, Spent DEF LockInv, World
  <2>3. proc' = [proc EXCEPT ![p] = z]
    BY <1>5 DEF To
  <2> HIDE DEF z
  <2> QED BY <1>3, <1>5, <2>1, <2>2, <2>3 DEF LockInv, World
<1> QED BY <1>4, <1>5 DEF SyncDir

LEMMA SetServersLock == ASSUME LockInv, NEW p \in Procs, NEW s \in Services, SetServers(p, s) PROVE LockInv'
<1> DEFINE r == proc[p]
           k == [r EXCEPT !.seen = @ \cup {s}, !.todo = @ \ {s}]
<1>0. r.pc = "set" /\ s \in r.todo /\ UNCHANGED <<listed, backup, durable, gate, path, orphans, orig>>
  BY DEF SetServers
<1>1. gate = p /\ r \in ProcType /\ Flags(r) /\ Placed(r, backup, path, orphans)
  BY <1>0, Runs
<1>2. /\ r.quit = 0 /\ r.held # 0 /\ r.held = path /\ orphans = {}
      /\ r.todo \subseteq DOMAIN backup /\ r.seen \subseteq DOMAIN backup
      /\ backup # Absent /\ backup \in Backups /\ DOMAIN backup \in SUBSET Services
  <2>1. backup # Absent /\ backup \in Backups
    BY <1>0, <1>1 DEF Placed, LockInv, World
  <2> QED BY <1>0, <1>1, <2>1, BackupHas DEF Flags, Placed, ProcType
<1>3. /\ k \in ProcType /\ k.pc = "set" /\ k.held = r.held /\ k.quit = 0 /\ k.active = r.active
      /\ k.seen = r.seen \cup {s} /\ k.todo = r.todo \ {s} /\ k.guard = r.guard
  BY <1>0, <1>1, <1>2 DEF ProcType
<1>4. ASSUME NEW z \in ProcType, proc' = [proc EXCEPT ![p] = z], Flags(z), Placed(z, backup, path, orphans), z.pc # "down",
             dns' \in Unreported(s, "vpn"), budget' \in [{"fails", "crashes", "disk", "edits"} -> Nat]
      PROVE  LockInv'
  <2>1. dns' \in [Services -> Own \cup {"vpn"}]
    BY <1>4 DEF Unreported, RunNetworksetup, LockInv, World
  <2> QED BY <1>0, <1>1, <1>4, <2>1, OneMoves DEF LockInv, World
<1> HIDE DEF k
<1>5. CASE dns' = RunNetworksetup(s, "vpn") /\ To(p, [k EXCEPT !.active = 1]) /\ UNCHANGED budget
  <2> DEFINE z == [k EXCEPT !.active = 1]
  <2>1. z \in ProcType /\ z.pc = "set" /\ z.held = r.held /\ z.active = 1 /\ z.quit = 0 /\ z.seen = k.seen /\ z.todo = k.todo
    BY <1>3 DEF ProcType
  <2>2. proc' = [proc EXCEPT ![p] = z] /\ dns' \in Unreported(s, "vpn")
    BY <1>5 DEF To, Unreported
  <2> HIDE DEF z
  <2>3. Flags(z) /\ Placed(z, backup, path, orphans)
    BY <1>0, <1>2, <1>3, <2>1 DEF Flags, Placed
  <2> QED BY <1>4, <1>5, <2>1, <2>2, <2>3 DEF LockInv, World
<1>6. CASE /\ Spend("fails") /\ dns' \in Unreported(s, "vpn")
           /\ To(p, [k EXCEPT !.pc = "restore", !.why = "rollback", !.todo = RollbackScope(k)])
  <2> DEFINE z == [k EXCEPT !.pc = "restore", !.why = "rollback", !.todo = RollbackScope(k)]
  <2>1. RollbackScope(k) \in SUBSET Services /\ RollbackScope(k) \subseteq DOMAIN backup
    BY <1>0, <1>2, <1>3 DEF RollbackScope
  <2>2. z \in ProcType /\ z.pc = "restore" /\ z.held = r.held /\ z.active = r.active /\ z.quit = 0 /\ z.seen = k.seen
        /\ z.todo = RollbackScope(k) /\ z.why = "rollback"
    BY <1>3, <2>1 DEF ProcType, Pcs
  <2>3. proc' = [proc EXCEPT ![p] = z]
    BY <1>6 DEF To
  <2>4. budget' \in [{"fails", "crashes", "disk", "edits"} -> Nat]
    BY <1>6, Spent DEF LockInv, World
  <2> HIDE DEF z
  <2>5. Flags(z) /\ Placed(z, backup, path, orphans)
    BY <1>0, <1>2, <1>3, <2>1, <2>2 DEF Flags, Placed
  <2> QED BY <1>4, <1>6, <2>2, <2>3, <2>4, <2>5
<1> QED BY <1>5, <1>6 DEF SetServers, k

LEMMA ApplyReturnsLock == ASSUME LockInv, NEW p \in Procs, ApplyReturns(p) PROVE LockInv'
<1> DEFINE r == proc[p]
           z == IF r.seen = {} THEN ReleaseLockIfInactive(r) ELSE Leave(r)
<1>0. r.pc = "set" /\ proc' = [proc EXCEPT ![p] = z]
      /\ UNCHANGED <<dns, listed, backup, durable, gate, path, orphans, orig, budget>>
  BY DEF ApplyReturns, To
<1>1. gate = p /\ r \in ProcType /\ Flags(r) /\ Placed(r, backup, path, orphans)
  BY <1>0, Runs
<1>2. r.quit = 0 /\ r.held # 0 /\ r.held = path /\ orphans = {} /\ backup # Absent /\ (r.seen # {} => r.active = 1)
  BY <1>0, <1>1 DEF Placed, Flags, ProcType
<1>3. z \in ProcType /\ Flags(z) /\ Placed(z, backup, path, orphans) /\ z.pc \in {"idle", "unlink"}
  <2>1. CASE r.seen = {}
    BY SMTT(90), <1>1, <1>2, <2>1, Released
  <2>2. CASE r.seen # {}
    <3>1. z = Leave(r)
      BY <2>2
    <3>2. z \in ProcType /\ z.pc = "idle" /\ z.held = r.held /\ z.active = 1 /\ z.quit = 0 /\ z.snap = <<>> /\ z.seen = {} /\ z.guard = 0
      BY <1>1, <1>2, <2>2, <3>1, LeaveIs
    <3> HIDE DEF z
    <3>3. Flags(z) /\ Placed(z, backup, path, orphans)
      BY <1>2, <3>2 DEF Flags, Placed
    <3> QED BY <3>2, <3>3
  <2> QED BY <2>1, <2>2
<1> HIDE DEF z
<1> QED BY <1>0, <1>1, <1>3, OneMoves DEF LockInv, World

LEMMA RestoreFromBackupFileLock == ASSUME LockInv, NEW p \in Procs, RestoreFromBackupFile(p) PROVE LockInv'
<1> DEFINE r == proc[p]
<1>0. r.pc = "restore" /\ UNCHANGED <<listed, backup, durable, gate, path, orphans, orig>>
  BY DEF RestoreFromBackupFile
<1>1. gate = p /\ r \in ProcType /\ Flags(r) /\ Placed(r, backup, path, orphans)
  BY <1>0, Runs
<1>2. backup \in Backups
  BY <1>0, <1>1 DEF Placed, LockInv, World
<1>3. ASSUME NEW T \in SUBSET Services, NEW o \in {0, 1}, T \subseteq r.todo,
             proc' = [proc EXCEPT ![p] = [r EXCEPT !.todo = T, !.ok = o]],
             dns' \in [Services -> Own \cup {"vpn"}], budget' \in [{"fails", "crashes", "disk", "edits"} -> Nat]
      PROVE  LockInv'
  <2> DEFINE z == [r EXCEPT !.todo = T, !.ok = o]
  <2>1. z \in ProcType /\ z.pc = "restore" /\ z.held = r.held /\ z.active = r.active /\ z.quit = r.quit /\ z.seen = r.seen
        /\ z.todo = T /\ z.why = r.why
    BY <1>0, <1>1, <1>3 DEF ProcType
  <2>2. proc' = [proc EXCEPT ![p] = z]
    BY <1>3
  <2> HIDE DEF z
  <2>3. Flags(z) /\ Placed(z, backup, path, orphans)
    BY <1>0, <1>1, <1>3, <2>1 DEF Flags, Placed
  <2> QED BY <1>0, <1>1, <1>3, <2>1, <2>2, <2>3, OneMoves DEF LockInv, World
<1>4. ASSUME NEW s \in r.todo, RestoreOne(p, s)
      PROVE  LockInv'
  <2>1. s \in Services /\ RestoreValue(backup[s]) \in Own \cup {"vpn"}
    BY <1>0, <1>1, <1>2, BackupHas DEF Placed
  <2>2. dns' \in Unreported(s, RestoreValue(backup[s]))
    BY <1>4 DEF RestoreOne, Unreported
  <2>3. dns' \in [Services -> Own \cup {"vpn"}]
    BY <2>1, <2>2 DEF Unreported, RunNetworksetup, LockInv, World
  <2>4. budget' \in [{"fails", "crashes", "disk", "edits"} -> Nat]
    BY <1>4, Spent DEF RestoreOne, LockInv, World
  <2>5. r.todo \ {s} \in SUBSET Services /\ r.ok \in {0, 1} /\ r = [r EXCEPT !.ok = r.ok]
    BY <1>1 DEF ProcType
  <2>6. CASE proc' = [proc EXCEPT ![p] = [r EXCEPT !.todo = @ \ {s}]]
    <3>1. [r EXCEPT !.todo = @ \ {s}] = [r EXCEPT !.todo = r.todo \ {s}, !.ok = r.ok]
      BY <1>1 DEF ProcType
    <3> QED BY ZenonT(90), <1>3, <2>3, <2>4, <2>5, <2>6, <3>1
  <2>7. CASE proc' = [proc EXCEPT ![p] = [r EXCEPT !.todo = @ \ {s}, !.ok = 0]]
    BY <1>3, <2>3, <2>4, <2>5, <2>7
  <2> QED BY <1>4, <2>6, <2>7 DEF RestoreOne, To
<1>5. CASE Spend("fails") /\ To(p, [r EXCEPT !.todo = {}, !.ok = 0]) /\ UNCHANGED dns
  <2>1. budget' \in [{"fails", "crashes", "disk", "edits"} -> Nat] /\ dns' \in [Services -> Own \cup {"vpn"}]
    BY <1>5, Spent DEF LockInv, World
  <2>2. {} \in SUBSET Services /\ {} \subseteq r.todo
    OBVIOUS
  <2>3. proc' = [proc EXCEPT ![p] = [r EXCEPT !.todo = {}, !.ok = 0]]
    BY <1>5 DEF To
  <2> HIDE DEF r
  <2> QED BY <1>3, <2>1, <2>2, <2>3
<1> QED BY <1>4, <1>5 DEF RestoreFromBackupFile

LEMMA RestoreReturnsLock == ASSUME LockInv, NEW p \in Procs, RestoreReturns(p) PROVE LockInv'
<1> DEFINE r == proc[p]
           z == AfterRestore(r)
<1>0. /\ r.pc = "restore" /\ backup' \in {backup, Absent} /\ (r.ok # 1 => backup' = backup) /\ proc' = [proc EXCEPT ![p] = z]
      /\ gate' = (IF proc'[p].pc = "down" THEN Absent ELSE gate)
      /\ UNCHANGED <<dns, listed, path, orphans, orig>> /\ (budget' = budget \/ Spend("fails"))
  BY DEF RestoreReturns, To
<1>1. gate = p /\ r \in ProcType /\ Flags(r) /\ Placed(r, backup, path, orphans)
  BY <1>0, Runs
<1>2. r.held # 0 /\ r.held = path /\ orphans = {} /\ backup # Absent /\ (r.why = "stale" => r.active = 0)
  BY <1>0, <1>1 DEF Placed, Flags
<1>3. z \in ProcType /\ Flags(z) /\ Placed(z, backup', path, orphans)
  <2>1. CASE r.ok = 1
    <3> DEFINE k == [r EXCEPT !.active = 0]
    <3>1. k \in ProcType /\ k.active = 0 /\ k.quit = r.quit
      BY <1>1 DEF ProcType
    <3>2. z = ReleaseLock(k)
      BY <2>1 DEF AfterRestore
    <3> HIDE DEF k
    <3>3. z \in ProcType /\ z.pc = "unlink" /\ z.held = 0 /\ z.active = 0
      BY <3>1, <3>2, ReleaseIs
    <3> HIDE DEF z
    <3> QED BY <1>2, <3>3 DEF Flags, Placed
  <2>2. CASE r.ok # 1 /\ r.why = "stale"
    <3>1. z = ReleaseLock(r)
      BY <2>2 DEF AfterRestore
    <3>2. z \in ProcType /\ z.pc = "unlink" /\ z.held = 0 /\ z.active = 0
      BY <1>1, <1>2, <2>2, <3>1, ReleaseIs
    <3> HIDE DEF z
    <3> QED BY <1>2, <3>2 DEF Flags, Placed
  <2>3. CASE r.ok # 1 /\ r.why # "stale"
    <3> DEFINE k == [r EXCEPT !.active = 1]
    <3>1. k \in ProcType /\ k.active = 1 /\ k.quit = r.quit /\ k.held = r.held /\ r.quit \in {0, 1}
      BY <1>1 DEF ProcType
    <3>2. z = Leave(k) /\ backup' = backup
      BY <1>0, <2>3 DEF AfterRestore
    <3> HIDE DEF k
    <3>3. CASE r.quit = 1
      <4>1. z = Down
        BY <3>1, <3>2, <3>3, LeaveIs
      <4> HIDE DEF z
      <4>2. z \in ProcType /\ z.pc = "down" /\ z.held = 0 /\ z.active = 0 /\ z.snap = <<>> /\ z.seen = {} /\ z.guard = 0 /\ z.quit = 0
        BY <4>1, DownIs
      <4> QED BY <4>2 DEF Flags, Placed
    <3>4. CASE r.quit = 0
      <4>1. z \in ProcType /\ z.pc = "idle" /\ z.held = r.held /\ z.active = 1 /\ z.snap = <<>> /\ z.seen = {} /\ z.guard = 0 /\ z.quit = 0
        BY <3>1, <3>2, <3>4, LeaveIs
      <4> HIDE DEF z
      <4> QED BY <1>2, <3>2, <4>1 DEF Flags, Placed
    <3> QED BY <3>1, <3>3, <3>4
  <2> QED BY <2>1, <2>2, <2>3
<1> HIDE DEF z
<1>4. proc'[p] = z
  BY <1>0 DEF LockInv, World
<1>5. backup' \in Backups \cup {Absent}
  BY <1>0 DEF LockInv, World
<1>6. budget' \in [{"fails", "crashes", "disk", "edits"} -> Nat]
  BY <1>0, Spent DEF LockInv, World
<1> QED BY <1>0, <1>1, <1>3, <1>4, <1>5, <1>6, OneMoves DEF LockInv, World

LEMMA UnlinkLockLock == ASSUME LockInv, NEW p \in Procs, UnlinkLock(p) PROVE LockInv'
<1> DEFINE r == proc[p]
           z == Leave(r)
<1>0. /\ r.pc = "unlink" /\ path' = 0 /\ proc' = [proc EXCEPT ![p] = z] /\ gate' = (IF r.quit = 1 THEN Absent ELSE gate)
      /\ UNCHANGED <<dns, listed, backup, durable, orphans, orig, budget>>
  BY DEF UnlinkLock
<1>1. gate = p /\ r \in ProcType /\ Flags(r) /\ Placed(r, backup, path, orphans)
  BY <1>0, Runs
<1>2. r.held = 0 /\ r.active = 0 /\ orphans = {} /\ r.quit \in {0, 1}
  BY <1>0, <1>1 DEF Placed, Flags, ProcType
<1>3. /\ z \in ProcType /\ z.pc = (IF r.quit = 1 THEN "down" ELSE "idle") /\ z.held = 0 /\ z.active = 0
      /\ z.snap = <<>> /\ z.seen = {} /\ z.guard = 0 /\ z.quit = 0
  BY <1>1, <1>2, LeaveIs, DownIs
<1> HIDE DEF z
<1>4. Flags(z) /\ Placed(z, backup', path', orphans')
  BY <1>3 DEF Flags, Placed
<1>5. gate' = IF z.pc = "down" THEN Absent ELSE p
  BY <1>0, <1>1, <1>3
<1> QED BY <1>0, <1>1, <1>2, <1>3, <1>4, <1>5, OneMoves DEF LockInv, World

LEMMA RestoreLock == ASSUME LockInv, NEW p \in Procs, Restore(p) \/ Quit(p) PROVE LockInv'
<1> DEFINE r == proc[p]
<1>0. r.pc = "idle" /\ UNCHANGED <<dns, listed, backup, durable, path, orphans, orig, budget>>
  BY DEF Restore, Quit
<1>1. gate = p /\ r \in ProcType /\ Flags(r) /\ Placed(r, backup, path, orphans)
  BY <1>0, Runs
<1>2. ASSUME NEW e \in {0, 1}, r.active = 1, gate' = gate,
             proc' = [proc EXCEPT ![p] = [r EXCEPT !.pc = "restore", !.why = "restore", !.todo = DOMAIN backup, !.quit = e]]
      PROVE  LockInv'
  <2> DEFINE z == [r EXCEPT !.pc = "restore", !.why = "restore", !.todo = DOMAIN backup, !.quit = e]
  <2>1. backup # Absent /\ backup \in Backups /\ r.held # 0 /\ r.held = path /\ orphans = {} /\ r.seen = {}
    BY <1>0, <1>1, <1>2 DEF Flags, Placed, LockInv, World
  <2>2. DOMAIN backup \in SUBSET Services
    BY <2>1, BackupHas
  <2>3. /\ z \in ProcType /\ z.pc = "restore" /\ z.held = r.held /\ z.active = 1 /\ z.why = "restore" /\ z.seen = {}
        /\ z.todo = DOMAIN backup
    BY <1>1, <1>2, <2>1, <2>2 DEF ProcType, Pcs
  <2>4. proc' = [proc EXCEPT ![p] = z]
    BY <1>2
  <2> HIDE DEF z
  <2>5. Flags(z) /\ Placed(z, backup', path', orphans')
    BY <1>0, <2>1, <2>3 DEF Flags, Placed
  <2> QED BY <1>0, <1>1, <1>2, <2>3, <2>4, <2>5, OneMoves DEF LockInv, World
<1>3. CASE Restore(p)
  <2>1. r.quit = 0
    BY <1>0, <1>1 DEF Flags, ProcType
  <2>2. [r EXCEPT !.pc = "restore", !.why = "restore", !.todo = DOMAIN backup]
          = [r EXCEPT !.pc = "restore", !.why = "restore", !.todo = DOMAIN backup, !.quit = 0]
    BY <1>1, <2>1 DEF ProcType
  <2>3. r.active = 1 /\ gate' = gate
        /\ proc' = [proc EXCEPT ![p] = [r EXCEPT !.pc = "restore", !.why = "restore", !.todo = DOMAIN backup]]
    BY <1>3 DEF Restore, To
  <2> QED BY <1>2, <2>2, <2>3
<1>4. CASE Quit(p) /\ r.active = 1
  BY <1>2, <1>4 DEF Quit, To
<1>5. CASE Quit(p) /\ r.active # 1
  <2>1. proc' = [proc EXCEPT ![p] = Down] /\ gate' = Absent
    BY <1>5 DEF Quit, To
  <2>2. Flags(Down) /\ Placed(Down, backup', path', orphans')
    BY DownIs DEF Flags, Placed
  <2> QED BY <1>0, <1>1, <2>1, <2>2, OneMoves, DownIs DEF LockInv, World
<1> QED BY <1>3, <1>4, <1>5

(* What a process is waiting for has the lock of the process, and sets a   *)
(* service to the tunnel's servers or to what the backup has.              *)
LEMMA RunningIs ==
  ASSUME LockInv, NEW p \in Procs, NEW c \in Running(p)
  PROVE  /\ proc[p].pc \in {"set", "restore"} /\ c \in OrphanType /\ c.held = path /\ orphans = {}
         /\ c.svc \in DOMAIN backup /\ backup \in Backups
         /\ c.val = IF proc[p].pc = "set" THEN "vpn" ELSE RestoreValue(backup[c.svc])
<1> DEFINE r == proc[p]
<1>0. r.pc \in {"set", "restore"}
  BY DEF Running
<1>1. gate = p /\ r \in ProcType /\ Flags(r) /\ Placed(r, backup, path, orphans)
  BY <1>0, Runs
<1>2. r.held # 0 /\ r.held = path /\ orphans = {} /\ r.todo \subseteq DOMAIN backup /\ backup \in Backups
      /\ r.held \in Inodes /\ r.todo \subseteq Services
  BY <1>0, <1>1 DEF Flags, Placed, LockInv, World, ProcType
<1>3. \E s \in r.todo : c = [svc |-> s, val |-> (IF r.pc = "set" THEN "vpn" ELSE RestoreValue(backup[s])), held |-> r.held]
  BY <1>0 DEF Running, ChildHolds
<1>4. PICK s \in r.todo : c = [svc |-> s, val |-> (IF r.pc = "set" THEN "vpn" ELSE RestoreValue(backup[s])), held |-> r.held]
  BY <1>3
<1>5. RestoreValue(backup[s]) \in Own \cup {"vpn"} /\ s \in Services
  BY <1>2, BackupHas
<1>6. c.svc = s /\ c.held = r.held /\ c.val = (IF r.pc = "set" THEN "vpn" ELSE RestoreValue(backup[s]))
  BY <1>4
<1>7. c \in OrphanType
  BY <1>2, <1>4, <1>5 DEF OrphanType
<1> QED BY <1>0, <1>2, <1>6, <1>7

LEMMA CrashLock == ASSUME LockInv, NEW p \in Procs, CrashProc(p) PROVE LockInv'
<1>0. /\ proc[p].pc # "down" /\ Spend("crashes") /\ orphans' \in {orphans} \cup {orphans \cup {c} : c \in Running(p)}
      /\ proc' = [proc EXCEPT ![p] = Down] /\ gate' = Absent /\ UNCHANGED <<dns, listed, backup, durable, path, orig>>
  BY DEF CrashProc, To
<1>1. gate = p
  BY <1>0, Runs
<1>2. orphans' \in SUBSET OrphanType /\ \A o \in orphans' : o.held = path'
  BY <1>0, RunningIs DEF LockInv, World
<1>3. Flags(Down) /\ Placed(Down, backup', path', orphans')
  BY DownIs DEF Flags, Placed
<1>4. budget' \in [{"fails", "crashes", "disk", "edits"} -> Nat]
  BY <1>0, Spent DEF LockInv, World
<1> QED BY <1>0, <1>1, <1>2, <1>3, <1>4, OneMoves, DownIs DEF LockInv, World

LEMMA MachineLock == LockInv /\ Files /\ (OrphanEnds \/ PowerLoss \/ Writeback \/ UserEdits) => LockInv'
<1> SUFFICES ASSUME LockInv, Files, OrphanEnds \/ PowerLoss \/ Writeback \/ UserEdits PROVE LockInv'
  OBVIOUS
<1>1. CASE OrphanEnds
  <2>1. PICK o \in orphans : orphans' = orphans \ {o} /\ dns' = [dns EXCEPT ![o.svc] = o.val]
    BY <1>1 DEF OrphanEnds
  <2>2. o.svc \in Services /\ o.val \in Own \cup {"vpn"}
    BY DEF LockInv, World, OrphanType
  <2>3. dns' \in [Services -> Own \cup {"vpn"}] /\ orphans' \subseteq orphans
    BY <2>1, <2>2 DEF LockInv, World
  <2>4. UNCHANGED <<listed, backup, durable, gate, path, proc, orig, budget>>
    BY <1>1 DEF OrphanEnds
  <2>5. World'
    BY <2>3, <2>4 DEF LockInv, World
  <2>6. \A p \in Procs : Flags(proc'[p]) /\ Placed(proc'[p], backup', path', orphans')
    BY <2>3, <2>4 DEF LockInv, Placed
  <2> QED BY <2>3, <2>4, <2>5, <2>6 DEF LockInv
<1>2. CASE PowerLoss
  <2>1. proc' = [p \in Procs |-> Down] /\ gate' = Absent /\ path' = 0 /\ orphans' = {} /\ UNCHANGED <<dns, listed, orig>>
        /\ backup' \in Backups \cup {Absent} /\ Spend("disk")
    BY <1>2 DEF PowerLoss, Files
  <2>2. budget' \in [{"fails", "crashes", "disk", "edits"} -> Nat]
    BY <2>1, Spent DEF LockInv, World
  <2>3. World'
    BY <2>1, <2>2, DownIs DEF LockInv, World
  <2>4. \A p \in Procs : Flags(proc'[p]) /\ Placed(proc'[p], backup', path', orphans')
    BY <2>1, DownIs DEF Flags, Placed
  <2>5. \A p \in Procs : gate' = p <=> proc'[p].pc # "down"
    BY <2>1, DownIs, DarwinDnsAssumption
  <2> QED BY <2>1, <2>3, <2>4, <2>5 DEF LockInv
<1>3. CASE Writeback \/ UserEdits
  <2>1. UNCHANGED <<backup, gate, path, proc, orphans>>
    BY <1>3 DEF Writeback, UserEdits
  <2>2. dns' \in [Services -> Own \cup {"vpn"}] /\ orig' \in [Services -> Own] /\ listed' \in SUBSET Services
    BY <1>3 DEF Writeback, UserEdits, LockInv, World
  <2>3. budget' \in [{"fails", "crashes", "disk", "edits"} -> Nat]
    BY <1>3, Spent DEF Writeback, UserEdits, LockInv, World
  <2>4. World'
    BY <2>1, <2>2, <2>3 DEF LockInv, World
  <2> QED BY <2>1, <2>4 DEF LockInv
<1> QED BY <1>1, <1>2, <1>3

LEMMA InitLock == DnsInit => LockInv
<1> SUFFICES ASSUME DnsInit PROVE LockInv
  OBVIOUS
<1>1. proc \in [Procs -> ProcType] /\ \A p \in Procs : proc[p] = Down
  BY DownIs DEF DnsInit
<1>2. budget \in [{"fails", "crashes", "disk", "edits"} -> Nat]
  BY DarwinDnsAssumption DEF DnsInit
<1>3. World
  BY <1>1, <1>2 DEF DnsInit, World
<1>4. \A p \in Procs : Flags(proc[p]) /\ Placed(proc[p], backup, path, orphans)
  BY <1>1, DownIs DEF Flags, Placed, DnsInit
<1>5. \A p \in Procs : gate = p <=> proc[p].pc # "down"
  BY <1>1, DownIs, DarwinDnsAssumption DEF DnsInit
<1> QED BY <1>3, <1>4, <1>5 DEF LockInv, DnsInit

LEMMA InitFiles == DnsInit => Files
BY DEF DnsInit, Files

(* What the disk may be left with is always some version of the backup. *)
LEMMA NextFiles == LockInv /\ Files /\ [DnsNext]_dnsVars => Files'
<1> SUFFICES ASSUME LockInv, Files, [DnsNext]_dnsVars PROVE Files'
  OBVIOUS
<1>1. ASSUME NEW p \in Procs, WriteBackup(p) \/ SyncDir(p) \/ RestoreReturns(p) \/ Apply(p)
      PROVE  Files'
  <2>1. proc[p].snap \in Backups
    BY DEF LockInv, World, ProcType
  <2> QED BY <1>1, <2>1 DEF WriteBackup, SyncDir, RestoreReturns, Apply, DurabilityFlush, Settled, Files
<1>2. ASSUME NEW p \in Procs,
             StartProc(p) \/ RestoreStale(p) \/ ApplyReturns(p) \/ (\E s \in Services : SetServers(p, s))
               \/ RestoreFromBackupFile(p) \/ UnlinkLock(p) \/ Restore(p) \/ Quit(p) \/ CrashProc(p)
      PROVE  UNCHANGED <<backup, durable, edited, haste>>
  BY <1>2 DEF StartProc, RestoreStale, ApplyReturns, SetServers, RestoreFromBackupFile, UnlinkLock, Restore, Quit, CrashProc
<1>3. CASE OrphanEnds \/ PowerLoss \/ Writeback \/ UserEdits
  BY <1>3 DEF OrphanEnds, PowerLoss, Writeback, UserEdits, Settled, Files
<1>4. CASE UNCHANGED dnsVars
  BY <1>4 DEF dnsVars, Files
<1>5. CASE UNCHANGED <<backup, durable, edited, haste>>
  BY <1>5 DEF Files
<1> QED BY <1>1, <1>2, <1>3, <1>4, <1>5 DEF DnsNext, Step

LEMMA NextLock == LockInv /\ Files /\ [DnsNext]_dnsVars => LockInv'
<1> SUFFICES ASSUME LockInv, Files, [DnsNext]_dnsVars PROVE LockInv'
  OBVIOUS
<1>1. CASE \E p \in Procs : StartProc(p) \/ Step(p) \/ Apply(p) \/ Restore(p) \/ Quit(p) \/ CrashProc(p)
  BY <1>1, StartProcLock, RestoreStaleLock, ApplyLock, WriteBackupLock, SyncDirLock, SetServersLock, ApplyReturnsLock,
     RestoreFromBackupFileLock, RestoreReturnsLock, UnlinkLockLock, RestoreLock, CrashLock DEF Step
<1>2. CASE UNCHANGED dnsVars
  BY <1>2 DEF LockInv, World, dnsVars
<1> QED BY <1>1, <1>2, MachineLock DEF DnsNext

(* In every state of dns.c's processes, the children they leave behind and *)
(* the two lock files, LockInv holds: who has which lock, and why.         *)
THEOREM LockInvariant == DnsSpec => [](LockInv /\ Files)
BY InitLock, NextLock, InitFiles, NextFiles, PTL DEF DnsSpec

(* One process at a time manages the settings, although release_lock       *)
(* removes the lock file after it has let the lock go and a networksetup   *)
(* child keeps the lock of a process that was killed; and between two      *)
(* calls of dns.c the lock is held exactly while active is 1, with a       *)
(* backup on the disk.                                                     *)
THEOREM LockSoundHolds == DnsSpec => []LockSound
<1>1. LockInv /\ Files => LockSound
  <2> SUFFICES ASSUME LockInv, Files PROVE LockSound
    OBVIOUS
  <2>1. DnsTypeOK
    BY DEF LockInv, Files, World, DnsTypeOK, ProcType, OrphanType
  <2>2. OneManager
    <3> SUFFICES ASSUME NEW p \in Procs, NEW q \in Procs, proc[p].held # 0, proc[q].held # 0 PROVE p = q
      BY DEF OneManager
    <3>1. proc[p].pc # "down" /\ proc[q].pc # "down"
      BY DEF LockInv, Flags
    <3> QED BY <3>1 DEF LockInv
  <2>3. ActiveHolds
    BY DEF LockInv, Flags, Placed, ActiveHolds
  <2> QED BY <2>1, <2>2, <2>3 DEF LockSound
<1> QED BY <1>1, LockInvariant, PTL

-----------------------------------------------------------------------------
(* The user's settings *)

LEMMA KeptMoves ==
  ASSUME KeptInv, LockInv', Files', NEW p \in Procs, NEW r \in ProcType, proc' = [proc EXCEPT ![p] = r], gate \in {p, Absent},
         AllRight(durable', orig', Counted'), orphans' # {} => backup' # Absent,
         Covered(dns', orig', backup', durable', orphans', haste', Counted'), Tracks(r, dns', orig', backup', durable', haste', Counted')
  PROVE  KeptInv'
<1>1. proc'[p] = r /\ \A q \in Procs : q # p => proc'[q] = proc[q]
  BY DEF KeptInv, LockInv, World
<1>2. ASSUME NEW q \in Procs
      PROVE  Tracks(proc'[q], dns', orig', backup', durable', haste', Counted')
  <2>1. CASE q = p
    BY <1>1, <2>1
  <2>2. CASE q # p
    <3>1. proc[q].pc = "down" /\ proc'[q] = proc[q] /\ Flags(proc[q])
      BY <1>1, <2>2, DarwinDnsAssumption DEF KeptInv, LockInv
    <3>2. DOMAIN proc[q].snap = {}
      BY <3>1, EmptyBackup DEF Flags
    <3> QED BY <3>1, <3>2 DEF Tracks
  <2> QED BY <2>1, <2>2
<1> QED BY <1>2 DEF KeptInv

(* A call that ends has nothing left to do. *)
LEMMA IdleEmpty ==
  ASSUME NEW r, r.pc \in {"down", "start", "idle", "unlink"}, r.snap = <<>>, NEW dn, NEW or, NEW bk, NEW du, NEW ha, NEW sv
  PROVE  Tracks(r, dn, or, bk, du, ha, sv)
BY EmptyBackup DEF Tracks

LEMMA ReleasedTracks ==
  ASSUME NEW r \in ProcType, r.quit = 0, NEW dn, NEW or, NEW bk, NEW du, NEW ha, NEW sv,
         \A s \in DOMAIN r.snap \cap sv : RestoreValue(r.snap[s]) = or[s]
  PROVE  ReleaseLockIfInactive(r) \in ProcType /\ Tracks(ReleaseLockIfInactive(r), dn, or, bk, du, ha, sv)
<1>1. CASE r.active = 0
  <2> DEFINE z == ReleaseLock(r)
  <2>1. z \in ProcType /\ z.pc = "unlink" /\ z.snap = r.snap
    BY ReleaseIs
  <2> HIDE DEF z
  <2>2. Tracks(z, dn, or, bk, du, ha, sv)
    BY <2>1 DEF Tracks
  <2> QED BY <1>1, <2>1, <2>2 DEF ReleaseLockIfInactive, z
<1>2. CASE r.active # 0
  <2> DEFINE z == Leave(r)
  <2>1. z \in ProcType /\ z.pc = "idle" /\ z.snap = <<>>
    BY LeaveIs
  <2> HIDE DEF z
  <2>2. Tracks(z, dn, or, bk, du, ha, sv)
    BY <2>1, IdleEmpty
  <2> QED BY <1>2, <2>1, <2>2 DEF ReleaseLockIfInactive, z
<1> QED BY <1>1, <1>2

LEMMA LeaveTracks ==
  ASSUME NEW r \in ProcType, NEW dn, NEW or, NEW bk, NEW du, NEW ha, NEW sv
  PROVE  Leave(r) \in ProcType /\ Tracks(Leave(r), dn, or, bk, du, ha, sv)
<1> DEFINE z == Leave(r)
<1>1. r.quit \in {0, 1}
  BY DEF ProcType
<1>2. z \in ProcType /\ z.pc \in {"down", "idle"} /\ z.snap = <<>>
  BY <1>1, LeaveIs, DownIs
<1> HIDE DEF z
<1>3. Tracks(z, dn, or, bk, du, ha, sv)
  BY <1>2, IdleEmpty
<1> QED BY <1>2, <1>3 DEF z

LEMMA SameSettings ==
  ASSUME KeptInv, LockInv', Files', NEW p \in Procs, NEW r \in ProcType, proc' = [proc EXCEPT ![p] = r], gate \in {p, Absent},
         UNCHANGED <<dns, orig, edited, backup, durable, orphans>>, haste' \in {haste, "taken"},
         Tracks(r, dns, orig, backup, durable, haste', Counted)
  PROVE  KeptInv'
<1>1. Counted' = Counted
  BY DEF Counted
<1>2. Covered(dns', orig', backup', durable', orphans', haste', Counted')
  BY <1>1 DEF KeptInv, Covered
<1>3. AllRight(durable', orig', Counted') /\ (orphans' # {} => backup' # Absent)
  BY <1>1 DEF KeptInv
<1>4. Tracks(r, dns', orig', backup', durable', haste', Counted')
  BY <1>1
<1> QED BY <1>2, <1>3, <1>4, KeptMoves

LEMMA StartProcKept == ASSUME KeptInv, LockInv', Files', NEW p \in Procs, StartProc(p) PROVE KeptInv'
<1> DEFINE z == [Down EXCEPT !.pc = "start"]
<1>1. z \in ProcType /\ z.pc = "start" /\ z.snap = <<>>
  BY DownIs DEF ProcType, Pcs
<1>2. proc' = [proc EXCEPT ![p] = z] /\ gate = Absent /\ UNCHANGED <<dns, orig, edited, haste, backup, durable, orphans>>
  BY DEF StartProc, To
<1> HIDE DEF z
<1>3. Tracks(z, dns, orig, backup, durable, haste, Counted)
  BY <1>1, IdleEmpty
<1> QED BY <1>1, <1>2, <1>3, SameSettings

LEMMA RestoreStaleKept == ASSUME KeptInv, LockInv', Files', NEW p \in Procs, RestoreStale(p) PROVE KeptInv'
<1> DEFINE r == proc[p]
<1>0. LockInv /\ r.pc = "start" /\ UNCHANGED <<dns, orig, edited, haste, backup, durable, orphans>>
  BY DEF RestoreStale, KeptInv
<1>1. gate = p /\ r \in ProcType /\ r.snap = <<>>
  BY <1>0, Runs DEF Flags
<1>2. CASE HasStaleBackup(p) /\ AcquireLock(p)
  <2> DEFINE k == Locked(p)
             z == [k EXCEPT !.pc = "restore", !.why = "stale", !.todo = DOMAIN backup]
  <2>1. k \in ProcType /\ k = [r EXCEPT !.held = LockPath(p)]
    BY <1>0, <1>2, Acquired
  <2>2. k.snap = <<>>
    BY <1>1, <2>1 DEF ProcType
  <2>3. DOMAIN backup \in SUBSET Services
    BY <1>0, <1>2, BackupHas DEF HasStaleBackup, LockInv, World
  <2>4. proc' = [proc EXCEPT ![p] = z]
    BY <1>2 DEF RestoreStale, To
  <2> HIDE DEF k
  <2>5. z \in ProcType /\ z.pc = "restore" /\ z.todo = DOMAIN backup /\ z.snap = <<>>
    BY <2>1, <2>2, <2>3 DEF ProcType, Pcs
  <2> HIDE DEF z
  <2>6. Tracks(z, dns, orig, backup, durable, haste, Counted)
    BY <2>5, EmptyBackup DEF Tracks, KeptInv, Covered
  <2> QED BY <1>0, <1>1, <2>4, <2>5, <2>6, SameSettings
<1>3. CASE ~(HasStaleBackup(p) /\ AcquireLock(p))
  <2>1. proc' = [proc EXCEPT ![p] = Leave(r)]
    BY <1>3 DEF RestoreStale, To
  <2> QED BY <1>0, <1>1, <2>1, LeaveTracks, SameSettings
<1> QED BY <1>2, <1>3

LEMMA ApplyKept == ASSUME KeptInv, LockInv', Files', NEW p \in Procs, Apply(p) PROVE KeptInv'
<1> DEFINE r == proc[p]
           k == Locked(p)
<1>0. LockInv /\ r.pc = "idle" /\ AcquireLock(p) /\ UNCHANGED <<dns, orig, edited, backup, durable, orphans>>
      /\ haste' \in {haste, "taken"}
  BY DEF Apply, KeptInv
<1>1. gate = p /\ r \in ProcType /\ Flags(r) /\ r.snap = <<>> /\ r.quit = 0
  BY <1>0, Runs DEF Flags, ProcType
<1>2. k \in ProcType /\ k = [r EXCEPT !.held = LockPath(p)] /\ orphans = {}
  BY <1>0, Acquired
<1>3. k.snap = <<>> /\ k.quit = 0
  BY <1>1, <1>2 DEF ProcType
<1> HIDE DEF k
<1>4. CASE PreexistingBackup /\ (durable # {backup} => haste' # "none")
           /\ proc' = [proc EXCEPT ![p] = [k EXCEPT !.pc = "set", !.guard = 1, !.todo = {s \in ListServices : BackupHasService(s)}]]
  <2> DEFINE T == {s \in ListServices : BackupHasService(s)}
             z == [k EXCEPT !.pc = "set", !.guard = 1, !.todo = T]
  <2>1. T \in SUBSET Services
    BY <1>0 DEF ListServices, LockInv, World
  <2> HIDE DEF T
  <2>2. z \in ProcType /\ z.pc = "set" /\ z.guard = 1 /\ z.snap = <<>>
    BY ZenonT(90), <1>2, <1>3, <2>1 DEF ProcType, Pcs
  <2>3. proc' = [proc EXCEPT ![p] = z]
    BY <1>4 DEF T
  <2> HIDE DEF z
  <2>4. Tracks(z, dns, orig, backup, durable, haste', Counted)
    BY <1>0, <1>4, <2>2, EmptyBackup DEF Tracks
  <2> QED BY <1>0, <1>1, <2>2, <2>3, <2>4, SameSettings
<1>5. CASE ~PreexistingBackup /\ proc' = [proc EXCEPT ![p] = [k EXCEPT !.pc = "snap", !.todo = ListServices]]
  <2> DEFINE z == [k EXCEPT !.pc = "snap", !.todo = ListServices]
  <2>1. ListServices \in SUBSET Services
    BY <1>0 DEF ListServices, LockInv, World
  <2>2. z \in ProcType /\ z.pc = "snap" /\ z.snap = <<>>
    BY <1>2, <1>3, <2>1 DEF ProcType, Pcs
  <2>3. proc' = [proc EXCEPT ![p] = z]
    BY <1>5
  <2> HIDE DEF z
  <2>4. \A s \in Counted : dns[s] = orig[s]
    BY <1>5 DEF PreexistingBackup, KeptInv, Covered
  <2>5. Tracks(z, dns, orig, backup, durable, haste', Counted)
    BY <2>2, <2>4, EmptyBackup DEF Tracks
  <2> QED BY <1>0, <1>1, <2>2, <2>3, <2>5, SameSettings
<1>6. CASE proc' = [proc EXCEPT ![p] = ReleaseLockIfInactive(k)]
  <2>1. \A s \in DOMAIN k.snap \cap Counted : RestoreValue(k.snap[s]) = orig[s]
    BY <1>3, EmptyBackup
  <2>2. ReleaseLockIfInactive(k) \in ProcType /\ Tracks(ReleaseLockIfInactive(k), dns, orig, backup, durable, haste', Counted)
    BY <1>2, <1>3, <2>1, ReleasedTracks
  <2> QED BY <1>0, <1>1, <1>6, <2>2, SameSettings
<1>7. CASE /\ To(p, IF PreexistingBackup
                   THEN [k EXCEPT !.pc = "set", !.guard = 1, !.todo = {s \in ListServices : BackupHasService(s)}]
                   ELSE [k EXCEPT !.pc = "snap", !.todo = ListServices])
           /\ haste' = IF PreexistingBackup /\ durable # {backup} /\ haste = "none" THEN "taken" ELSE haste
  BY <1>4, <1>5, <1>7 DEF To
<1>8. CASE To(p, ReleaseLockIfInactive(k))
  BY <1>6, <1>8 DEF To
<1> QED BY <1>7, <1>8 DEF Apply, k

(* A line that format_line writes is read back as the setting it was made  *)
(* of, unless that setting is a tunnel's.                                  *)
LEMMA RoundTrip ==
  ASSUME NEW s \in Services, dns[s] \in Own
  PROVE  RestoreValue(GetDnsServers(s)) = dns[s]
BY DarwinDnsAssumption DEF RestoreValue, GetDnsServers

LEMMA WriteBackupKept == ASSUME KeptInv, LockInv', Files', NEW p \in Procs, WriteBackup(p) PROVE KeptInv'
<1> DEFINE r == proc[p]
<1>0. LockInv /\ r.pc = "snap" /\ UNCHANGED <<dns, orig, edited, haste, orphans>>
  BY DEF WriteBackup, KeptInv
<1>1. gate = p /\ r \in ProcType /\ Flags(r) /\ Placed(r, backup, path, orphans) /\ Tracks(r, dns, orig, backup, durable, haste, Counted)
  BY <1>0, Runs DEF KeptInv
<1>2. /\ r.quit = 0 /\ orphans = {} /\ (\A s \in Counted : dns[s] = orig[s])
      /\ \A s \in DOMAIN r.snap \cap Counted : RestoreValue(r.snap[s]) = orig[s]
  BY <1>0, <1>1 DEF Flags, Placed, Tracks, ProcType
<1>3. CASE /\ \E s \in r.todo : To(p, [r EXCEPT !.todo = @ \ {s}, !.snap = FormatLine(@, s)])
           /\ UNCHANGED <<backup, durable>>
  <2>1. PICK s \in r.todo : proc' = [proc EXCEPT ![p] = [r EXCEPT !.todo = @ \ {s}, !.snap = FormatLine(@, s)]]
    BY <1>3 DEF To
  <2> DEFINE b == FormatLine(r.snap, s)
             z == [r EXCEPT !.todo = @ \ {s}, !.snap = b]
  <2>2. s \in Services /\ r.snap \in Backups /\ orig[s] \in Own /\ dns[s] \in Own \cup {"vpn"}
    BY <1>0, <1>1 DEF ProcType, LockInv, World
  <2>3. GetDnsServers(s) \in Lines /\ (s \in Counted => RestoreValue(GetDnsServers(s)) = orig[s])
    BY <1>2, <2>2, RoundTrip DEF GetDnsServers, Lines
  <2>4. b \in Backups
    BY <2>2, <2>3, LineAdded
  <2>5. \A u \in DOMAIN b \cap Counted : RestoreValue(b[u]) = orig[u]
    BY <1>2, <2>3 DEF FormatLine
  <2> HIDE DEF b
  <2>6. z \in ProcType /\ z.pc = "snap" /\ z.snap = b
    BY <1>0, <1>1, <2>4 DEF ProcType
  <2>7. proc' = [proc EXCEPT ![p] = z]
    BY <2>1 DEF b
  <2> HIDE DEF z
  <2>8. Tracks(z, dns, orig, backup, durable, haste, Counted)
    BY <1>2, <2>5, <2>6 DEF Tracks
  <2> QED BY <1>0, <1>1, <1>3, <2>6, <2>7, <2>8, SameSettings
<1>4. CASE backup' = r.snap /\ durable' = durable \cup {r.snap} /\ To(p, [r EXCEPT !.pc = "sync"])
  <2> DEFINE z == [r EXCEPT !.pc = "sync"]
  <2>1. z \in ProcType /\ z.pc = "sync" /\ z.snap = r.snap
    BY <1>1 DEF ProcType, Pcs
  <2>2. proc' = [proc EXCEPT ![p] = z]
    BY <1>4 DEF To
  <2> HIDE DEF z
  <2>3. Tracks(z, dns', orig', backup', durable', haste', Counted')
    BY <1>0, <1>2, <2>1 DEF Tracks, Counted
  <2>4. AllRight(durable', orig', Counted')
    BY <1>0, <1>2, <1>4 DEF AllRight, KeptInv, Counted
  <2>5. Covered(dns', orig', backup', durable', orphans', haste', Counted')
    BY <1>0, <1>2 DEF Covered, Counted
  <2> QED BY <1>0, <1>1, <1>2, <2>1, <2>2, <2>3, <2>4, <2>5, KeptMoves
<1>5. CASE To(p, ReleaseLockIfInactive(r)) /\ UNCHANGED <<backup, durable>>
  <2>1. ReleaseLockIfInactive(r) \in ProcType /\ Tracks(ReleaseLockIfInactive(r), dns, orig, backup, durable, haste, Counted)
    BY <1>1, <1>2, ReleasedTracks
  <2> QED BY <1>0, <1>1, <1>5, <2>1, SameSettings DEF To
<1> QED BY <1>3, <1>4, <1>5 DEF WriteBackup

LEMMA SyncDirKept == ASSUME KeptInv, LockInv', Files', NEW p \in Procs, SyncDir(p) PROVE KeptInv'
<1> DEFINE r == proc[p]
<1>0. LockInv /\ r.pc = "sync" /\ UNCHANGED <<dns, orig, edited, backup, orphans>>
  BY DEF SyncDir, KeptInv
<1>1. gate = p /\ r \in ProcType /\ Flags(r) /\ Placed(r, backup, path, orphans) /\ Tracks(r, dns, orig, backup, durable, haste, Counted)
  BY <1>0, Runs DEF KeptInv
<1>2. /\ r.quit = 0 /\ orphans = {} /\ (\A s \in Counted : dns[s] = orig[s]) /\ backup \in Backups
      /\ \A s \in DOMAIN r.snap \cap Counted : RestoreValue(r.snap[s]) = orig[s]
  BY <1>0, <1>1 DEF Flags, Placed, Tracks, ProcType, LockInv, World
<1>3. CASE DurabilityFlush /\ To(p, [r EXCEPT !.pc = "set", !.todo = DOMAIN backup, !.snap = <<>>])
  <2> DEFINE z == [r EXCEPT !.pc = "set", !.todo = DOMAIN backup, !.snap = <<>>]
  <2>1. DOMAIN backup \in SUBSET Services /\ <<>> \in Backups
    BY <1>2, BackupHas, EmptyBackup
  <2>2. z \in ProcType /\ z.pc = "set" /\ z.snap = <<>>
    BY <1>1, <2>1 DEF ProcType, Pcs
  <2>3. proc' = [proc EXCEPT ![p] = z] /\ durable' = {backup}
    BY <1>3 DEF To, DurabilityFlush
  <2> HIDE DEF z
  <2>4. Tracks(z, dns', orig', backup', durable', haste', Counted')
    BY <1>0, <1>2, <2>2, <2>3, EmptyBackup DEF Tracks, Counted
  <2>5. AllRight(durable', orig', Counted') /\ Covered(dns', orig', backup', durable', orphans', haste', Counted')
    BY <1>0, <1>2, <2>3 DEF KeptInv, Files, AllRight, Covered, Counted
  <2> QED BY <1>0, <1>1, <1>2, <2>2, <2>3, <2>4, <2>5, KeptMoves
<1>4. CASE To(p, ReleaseLockIfInactive(r)) /\ UNCHANGED <<durable, haste>>
  <2>1. ReleaseLockIfInactive(r) \in ProcType /\ Tracks(ReleaseLockIfInactive(r), dns, orig, backup, durable, haste, Counted)
    BY <1>1, <1>2, ReleasedTracks
  <2> QED BY <1>0, <1>1, <1>4, <2>1, SameSettings DEF To
<1> QED BY <1>3, <1>4 DEF SyncDir

LEMMA SetServersKept == ASSUME KeptInv, LockInv', Files', NEW p \in Procs, NEW s \in Services, SetServers(p, s) PROVE KeptInv'
<1> DEFINE r == proc[p]
           k == [r EXCEPT !.seen = @ \cup {s}, !.todo = @ \ {s}]
<1>0. LockInv /\ r.pc = "set" /\ s \in r.todo /\ UNCHANGED <<orig, edited, haste, backup, durable, orphans>>
  BY DEF SetServers, KeptInv
<1>1. gate = p /\ r \in ProcType /\ Placed(r, backup, path, orphans) /\ Tracks(r, dns, orig, backup, durable, haste, Counted)
  BY <1>0, Runs DEF KeptInv
<1>2. /\ s \in DOMAIN backup /\ orphans = {} /\ backup # Absent /\ backup \in Backups /\ Counted' = Counted
      /\ haste = "none" => durable = {backup}
      /\ r.guard = 0 => \A u \in Counted : dns[u] # orig[u] => u \in r.seen
      /\ \A u \in DOMAIN r.snap \cap Counted : RestoreValue(r.snap[u]) = orig[u]
  <2>1. r.held # 0
    BY <1>0, Runs DEF Flags
  <2> QED BY <1>0, <1>1, <2>1 DEF Placed, Tracks, LockInv, World, Counted
<1>3. k \in ProcType /\ k.pc = "set" /\ k.seen = r.seen \cup {s} /\ k.guard = r.guard /\ k.snap = r.snap
  BY <1>0, <1>1 DEF ProcType
<1>4. dns' \in Unreported(s, "vpn") /\ \A u \in Services : u # s => dns'[u] = dns[u]
  <2>1. dns' \in Unreported(s, "vpn")
    BY DEF SetServers, Unreported
  <2> QED BY <1>0, <2>1 DEF Unreported, RunNetworksetup, LockInv, World
<1>5. Covered(dns', orig', backup', durable', orphans', haste', Counted')
  BY <1>0, <1>2, <1>4 DEF KeptInv, Covered, Counted
<1>6. \A u \in Counted : dns'[u] # orig[u] => u \in DOMAIN backup /\ (r.guard = 0 => u \in k.seen)
  BY <1>0, <1>2, <1>3, <1>4, <1>5 DEF Covered, Counted
<1> HIDE DEF k
<1>7. CASE To(p, [k EXCEPT !.active = 1])
  <2> DEFINE z == [k EXCEPT !.active = 1]
  <2>1. z \in ProcType /\ z.pc = "set" /\ z.seen = k.seen /\ z.guard = k.guard /\ z.snap = k.snap
    BY <1>3 DEF ProcType
  <2>2. proc' = [proc EXCEPT ![p] = z]
    BY <1>7 DEF To
  <2> HIDE DEF z
  <2>3. Tracks(z, dns', orig', backup', durable', haste', Counted')
    BY <1>0, <1>2, <1>3, <1>6, <2>1 DEF Tracks
  <2> QED BY <1>0, <1>1, <1>2, <1>5, <2>1, <2>2, <2>3, KeptMoves DEF KeptInv
<1>8. CASE To(p, [k EXCEPT !.pc = "restore", !.why = "rollback", !.todo = RollbackScope(k)])
  <2> DEFINE z == [k EXCEPT !.pc = "restore", !.why = "rollback", !.todo = RollbackScope(k)]
  <2>1. DOMAIN backup \in SUBSET Services /\ k.seen \in SUBSET Services /\ k.guard \in {0, 1}
    BY <1>2, <1>3, BackupHas DEF ProcType
  <2>2. RollbackScope(k) \in SUBSET Services /\ \A u \in Counted : dns'[u] # orig[u] => u \in RollbackScope(k)
    BY <1>3, <1>6, <2>1 DEF RollbackScope
  <2>3. z \in ProcType /\ z.pc = "restore" /\ z.todo = RollbackScope(k) /\ z.snap = k.snap
    BY <1>3, <2>2 DEF ProcType, Pcs
  <2>4. proc' = [proc EXCEPT ![p] = z]
    BY <1>8 DEF To
  <2> HIDE DEF z
  <2>5. Tracks(z, dns', orig', backup', durable', haste', Counted')
    BY <1>0, <1>2, <1>3, <2>2, <2>3 DEF Tracks
  <2> QED BY <1>0, <1>1, <1>2, <1>5, <2>3, <2>4, <2>5, KeptMoves DEF KeptInv
<1> QED BY <1>7, <1>8 DEF SetServers, k

LEMMA ApplyReturnsKept == ASSUME KeptInv, LockInv', Files', NEW p \in Procs, ApplyReturns(p) PROVE KeptInv'
<1> DEFINE r == proc[p]
<1>0. LockInv /\ r.pc = "set" /\ UNCHANGED <<dns, orig, edited, haste, backup, durable, orphans>>
  BY DEF ApplyReturns, KeptInv
<1>1. gate = p /\ r \in ProcType /\ Flags(r) /\ Tracks(r, dns, orig, backup, durable, haste, Counted)
  BY <1>0, Runs DEF KeptInv
<1>2. r.quit = 0 /\ \A s \in DOMAIN r.snap \cap Counted : RestoreValue(r.snap[s]) = orig[s]
  BY <1>0, <1>1 DEF Flags, Tracks, ProcType
<1>3. CASE proc' = [proc EXCEPT ![p] = ReleaseLockIfInactive(r)]
  <2>1. ReleaseLockIfInactive(r) \in ProcType /\ Tracks(ReleaseLockIfInactive(r), dns, orig, backup, durable, haste, Counted)
    BY <1>1, <1>2, ReleasedTracks
  <2> QED BY <1>0, <1>1, <1>3, <2>1, SameSettings
<1>4. CASE proc' = [proc EXCEPT ![p] = Leave(r)]
  BY <1>0, <1>1, <1>4, LeaveTracks, SameSettings
<1> QED BY <1>3, <1>4 DEF ApplyReturns, To

(* One attempt of the restore loop: a service it visits gets the user's    *)
(* setting or keeps what it has, and a failure is remembered.              *)
LEMMA RestoringKept ==
  ASSUME KeptInv, LockInv', Files', NEW p \in Procs, proc[p].pc = "restore", UNCHANGED <<orig, edited, haste, backup, durable, orphans>>,
         NEW z \in ProcType, proc' = [proc EXCEPT ![p] = z], z.pc = "restore", z.snap = proc[p].snap,
         \A u \in Counted : dns'[u] = dns[u] \/ dns'[u] = orig[u],
         \A u \in Counted : z.ok = 1 /\ dns'[u] # orig[u] => u \in z.todo
  PROVE  KeptInv'
<1>1. LockInv /\ gate = p /\ Counted' = Counted /\ Tracks(proc[p], dns, orig, backup, durable, haste, Counted)
  BY Runs DEF KeptInv, Counted
<1>2. Covered(dns', orig', backup', durable', orphans', haste', Counted')
  BY <1>1 DEF KeptInv, Covered
<1>3. Tracks(z, dns', orig', backup', durable', haste', Counted')
  BY <1>1 DEF Tracks
<1>4. AllRight(durable', orig', Counted') /\ (orphans' # {} => backup' # Absent)
  BY <1>1 DEF KeptInv
<1> QED BY <1>1, <1>2, <1>3, <1>4, KeptMoves

LEMMA RestoreFromBackupFileKept == ASSUME KeptInv, LockInv', Files', NEW p \in Procs, RestoreFromBackupFile(p) PROVE KeptInv'
<1> DEFINE r == proc[p]
<1>0. LockInv /\ proc[p].pc = "restore" /\ UNCHANGED <<orig, edited, haste, backup, durable, orphans>>
  BY DEF RestoreFromBackupFile, KeptInv
<1>1. r \in ProcType /\ Placed(r, backup, path, orphans) /\ Tracks(r, dns, orig, backup, durable, haste, Counted)
  BY <1>0, Runs DEF KeptInv
<1>2. /\ r.todo \subseteq DOMAIN backup /\ backup # Absent
      /\ \A u \in Counted : r.ok = 1 /\ dns[u] # orig[u] => u \in r.todo
  BY <1>0, <1>1 DEF Placed, Tracks
<1>4. ASSUME NEW s \in r.todo, RestoreOne(p, s)
      PROVE  KeptInv'
  <2>1. s \in Services /\ (s \in Counted => RestoreValue(backup[s]) = orig[s])
    BY <1>0, <1>1, <1>2 DEF ProcType, KeptInv, Files, AllRight
  <2>2. CASE dns' = RunNetworksetup(s, RestoreValue(backup[s])) /\ proc' = [proc EXCEPT ![p] = [r EXCEPT !.todo = @ \ {s}]]
    <3> DEFINE z == [r EXCEPT !.todo = @ \ {s}]
    <3>1. z \in ProcType /\ z.pc = "restore" /\ z.snap = proc[p].snap /\ z.todo = r.todo \ {s} /\ z.ok = r.ok
      BY <1>0, <1>1 DEF ProcType
    <3>2. (s \in Counted => dns'[s] = orig[s]) /\ \A u \in Services : u # s => dns'[u] = dns[u]
      BY <1>0, <2>1, <2>2 DEF RunNetworksetup, LockInv, World
    <3>3. proc' = [proc EXCEPT ![p] = z]
      BY <2>2
    <3> HIDE DEF z, r
    <3>4. \A u \in Counted : dns'[u] = dns[u] \/ dns'[u] = orig[u]
      BY <3>2 DEF Counted
    <3>5. \A u \in Counted : z.ok = 1 /\ dns'[u] # orig[u] => u \in z.todo
      BY <1>2, <3>1, <3>2 DEF Counted
    <3> QED BY <1>0, <3>1, <3>3, <3>4, <3>5, RestoringKept
  <2>3. CASE dns' \in Unreported(s, RestoreValue(backup[s])) /\ proc' = [proc EXCEPT ![p] = [r EXCEPT !.todo = @ \ {s}, !.ok = 0]]
    <3> DEFINE z == [r EXCEPT !.todo = @ \ {s}, !.ok = 0]
    <3>1. z \in ProcType /\ z.pc = "restore" /\ z.snap = proc[p].snap /\ z.ok = 0
      BY <1>0, <1>1 DEF ProcType
    <3>2. \A u \in Counted : dns'[u] = dns[u] \/ dns'[u] = orig[u]
      BY <1>0, <2>1, <2>3 DEF Unreported, RunNetworksetup, LockInv, World, Counted
    <3>3. proc' = [proc EXCEPT ![p] = z]
      BY <2>3
    <3> HIDE DEF z, r
    <3>4. \A u \in Counted : z.ok = 1 /\ dns'[u] # orig[u] => u \in z.todo
      BY <3>1
    <3> QED BY <1>0, <3>1, <3>2, <3>3, <3>4, RestoringKept
  <2> QED BY <1>4, <2>2, <2>3 DEF RestoreOne, To
<1>5. CASE To(p, [r EXCEPT !.todo = {}, !.ok = 0]) /\ UNCHANGED dns
  <2> DEFINE z == [r EXCEPT !.todo = {}, !.ok = 0]
  <2>1. z \in ProcType /\ z.pc = "restore" /\ z.snap = proc[p].snap /\ z.ok = 0
    BY <1>0, <1>1 DEF ProcType
  <2>2. proc' = [proc EXCEPT ![p] = z]
    BY <1>5 DEF To
  <2> HIDE DEF z, r
  <2>3. \A u \in Counted : dns'[u] = dns[u] \/ dns'[u] = orig[u]
    BY <1>5
  <2>4. \A u \in Counted : z.ok = 1 /\ dns'[u] # orig[u] => u \in z.todo
    BY <2>1
  <2> QED BY <1>0, <2>1, <2>2, <2>3, <2>4, RestoringKept
<1> QED BY <1>4, <1>5 DEF RestoreFromBackupFile

LEMMA RestoreReturnsKept == ASSUME KeptInv, LockInv', Files', NEW p \in Procs, RestoreReturns(p) PROVE KeptInv'
<1> DEFINE r == proc[p]
           z == AfterRestore(r)
<1>0. LockInv /\ r.pc = "restore" /\ r.todo = {} /\ Counted' = Counted
      /\ \/ r.ok = 1 /\ backup' = Absent /\ durable' = durable \cup {Absent}
         \/ UNCHANGED <<backup, durable, haste>>
      /\ proc' = [proc EXCEPT ![p] = z] /\ UNCHANGED <<dns, orig, orphans>>
  BY DEF RestoreReturns, To, KeptInv, Counted
<1>1. gate = p /\ r \in ProcType /\ Placed(r, backup, path, orphans) /\ Tracks(r, dns, orig, backup, durable, haste, Counted)
  BY <1>0, Runs DEF KeptInv
<1>2. /\ orphans = {} /\ (r.ok = 1 => \A u \in Counted : dns[u] = orig[u])
      /\ \A u \in DOMAIN r.snap \cap Counted : RestoreValue(r.snap[u]) = orig[u]
  <2>1. r.held # 0
    BY <1>0, Runs DEF Flags
  <2> QED BY <1>0, <1>1, <2>1 DEF Placed, Tracks
<1>3. z \in ProcType /\ Tracks(z, dns', orig', backup', durable', haste', Counted')
  <2>1. ASSUME NEW k \in ProcType, k.snap = r.snap, z = ReleaseLock(k)
        PROVE  z \in ProcType /\ Tracks(z, dns', orig', backup', durable', haste', Counted')
    <3>1. z \in ProcType /\ z.pc = "unlink" /\ z.snap = r.snap
      BY <2>1, ReleaseIs
    <3> HIDE DEF z
    <3> QED BY <1>0, <1>2, <3>1 DEF Tracks
  <2>2. CASE r.ok = 1
    <3>1. [r EXCEPT !.active = 0] \in ProcType /\ [r EXCEPT !.active = 0].snap = r.snap
      BY <1>1 DEF ProcType
    <3> QED BY <2>1, <2>2, <3>1 DEF AfterRestore
  <2>3. CASE r.ok # 1 /\ r.why = "stale"
    BY <1>1, <2>1, <2>3 DEF AfterRestore
  <2>4. CASE r.ok # 1 /\ r.why # "stale"
    <3>1. [r EXCEPT !.active = 1] \in ProcType
      BY <1>1 DEF ProcType
    <3> QED BY <2>4, <3>1, LeaveTracks DEF AfterRestore
  <2> QED BY <2>2, <2>3, <2>4
<1> HIDE DEF z
<1>4. AllRight(durable', orig', Counted') /\ Covered(dns', orig', backup', durable', orphans', haste', Counted')
  <2>1. CASE r.ok = 1 /\ backup' = Absent /\ durable' = durable \cup {Absent}
    BY <1>0, <1>2, <2>1 DEF KeptInv, AllRight, Covered
  <2>2. CASE UNCHANGED <<backup, durable, haste>>
    BY <1>0, <2>2 DEF KeptInv
  <2> QED BY <1>0, <2>1, <2>2
<1> QED BY <1>0, <1>1, <1>2, <1>3, <1>4, KeptMoves

LEMMA UnlinkLockKept == ASSUME KeptInv, LockInv', Files', NEW p \in Procs, UnlinkLock(p) PROVE KeptInv'
<1>0. LockInv /\ proc[p].pc = "unlink" /\ proc' = [proc EXCEPT ![p] = Leave(proc[p])]
      /\ UNCHANGED <<dns, orig, edited, haste, backup, durable, orphans>>
  BY DEF UnlinkLock, KeptInv
<1>1. gate = p /\ proc[p] \in ProcType
  BY <1>0, Runs
<1>2. Leave(proc[p]) \in ProcType /\ Tracks(Leave(proc[p]), dns, orig, backup, durable, haste, Counted)
  BY <1>1, LeaveTracks
<1> QED BY <1>0, <1>1, <1>2, SameSettings

LEMMA RestoreKept == ASSUME KeptInv, LockInv', Files', NEW p \in Procs, Restore(p) \/ Quit(p) PROVE KeptInv'
<1> DEFINE r == proc[p]
<1>0. LockInv /\ r.pc = "idle" /\ UNCHANGED <<dns, orig, edited, haste, backup, durable, orphans>>
  BY DEF Restore, Quit, KeptInv
<1>1. gate = p /\ r \in ProcType /\ Flags(r) /\ Placed(r, backup, path, orphans)
  BY <1>0, Runs
<1>2. ASSUME NEW z \in ProcType, proc' = [proc EXCEPT ![p] = z], z.pc = "restore", z.todo = DOMAIN backup, z.snap = <<>>
      PROVE  KeptInv'
  <2>1. Tracks(z, dns, orig, backup, durable, haste, Counted)
    BY <1>2, EmptyBackup DEF Tracks, KeptInv, Covered
  <2> QED BY <1>0, <1>1, <1>2, <2>1, SameSettings
<1>3. CASE r.active = 1
  <2>1. r.snap = <<>> /\ DOMAIN backup \in SUBSET Services
    BY <1>0, <1>1, <1>3, BackupHas DEF Flags, Placed, LockInv, World
  <2>2. CASE Restore(p)
    <3> DEFINE z == [r EXCEPT !.pc = "restore", !.why = "restore", !.todo = DOMAIN backup]
    <3>1. z \in ProcType /\ z.pc = "restore" /\ z.todo = DOMAIN backup /\ z.snap = <<>>
      BY <1>1, <2>1 DEF ProcType, Pcs
    <3>2. proc' = [proc EXCEPT ![p] = z]
      BY <2>2 DEF Restore, To
    <3> HIDE DEF z, r
    <3> QED BY <1>2, <3>1, <3>2
  <2>3. CASE Quit(p)
    <3> DEFINE z == [r EXCEPT !.pc = "restore", !.why = "restore", !.todo = DOMAIN backup, !.quit = 1]
    <3>1. z \in ProcType /\ z.pc = "restore" /\ z.todo = DOMAIN backup /\ z.snap = <<>>
      BY <1>1, <2>1 DEF ProcType, Pcs
    <3>2. proc' = [proc EXCEPT ![p] = z]
      BY <1>3, <2>3 DEF Quit, To
    <3> HIDE DEF z, r
    <3> QED BY <1>2, <3>1, <3>2
  <2> QED BY <2>2, <2>3
<1>4. CASE r.active # 1
  <2>1. proc' = [proc EXCEPT ![p] = Down]
    BY <1>4 DEF Restore, Quit, To
  <2>2. Tracks(Down, dns, orig, backup, durable, haste, Counted)
    BY DownIs, IdleEmpty
  <2> QED BY <1>0, <1>1, <2>1, <2>2, DownIs, SameSettings
<1> QED BY <1>3, <1>4

(* The command a killed process leaves behind sets a service the backups   *)
(* cover, or gives it the user's setting.                                  *)
LEMMA CrashKept == ASSUME KeptInv, LockInv', Files', NEW p \in Procs, CrashProc(p) PROVE KeptInv'
<1>0. /\ LockInv /\ proc[p].pc # "down" /\ orphans' \in {orphans} \cup {orphans \cup {c} : c \in Running(p)}
      /\ proc' = [proc EXCEPT ![p] = Down] /\ UNCHANGED <<dns, backup, durable, orig, edited, haste>> /\ Counted' = Counted
  BY DEF CrashProc, To, KeptInv, Counted
<1>1. gate = p /\ Placed(proc[p], backup, path, orphans) /\ Tracks(proc[p], dns, orig, backup, durable, haste, Counted)
  BY <1>0, Runs DEF KeptInv
<1>2. Tracks(Down, dns', orig', backup', durable', haste', Counted')
  BY DownIs, IdleEmpty
<1>3. ASSUME NEW c \in Running(p)
      PROVE  /\ backup # Absent /\ c.svc \in DOMAIN backup
             /\ c.svc \in Counted /\ c.val # orig[c.svc] /\ haste = "none" => durable = {backup}
  <2>1. /\ proc[p].pc \in {"set", "restore"} /\ c.svc \in DOMAIN backup
        /\ c.val = IF proc[p].pc = "set" THEN "vpn" ELSE RestoreValue(backup[c.svc])
    BY <1>0, RunningIs
  <2>2. backup # Absent
    BY <1>1, <2>1 DEF Placed
  <2>3. CASE proc[p].pc = "set"
    BY <1>1, <2>1, <2>2, <2>3 DEF Tracks
  <2>4. CASE proc[p].pc = "restore"
    BY <2>1, <2>2, <2>4 DEF KeptInv, Files, AllRight
  <2> QED BY <2>1, <2>2, <2>3, <2>4
<1>4. Covered(dns', orig', backup', durable', orphans', haste', Counted') /\ (orphans' # {} => backup' # Absent)
  <2>1. CASE orphans' = orphans
    BY <1>0, <2>1 DEF KeptInv
  <2>2. CASE \E c \in Running(p) : orphans' = orphans \cup {c}
    BY <1>0, <1>3, <2>2 DEF KeptInv, Covered
  <2> QED BY <1>0, <2>1, <2>2
<1>5. AllRight(durable', orig', Counted')
  BY <1>0 DEF KeptInv
<1> QED BY <1>0, <1>1, <1>2, <1>4, <1>5, DownIs, KeptMoves

(* While a command goes on alone, no process is inside a call.             *)
LEMMA OrphanEndsKept == KeptInv /\ LockInv' /\ Files' /\ OrphanEnds => KeptInv'
<1> SUFFICES ASSUME KeptInv, LockInv', Files', OrphanEnds PROVE KeptInv'
  OBVIOUS
<1>1. PICK o \in orphans : orphans' = orphans \ {o} /\ dns' = [dns EXCEPT ![o.svc] = o.val]
  BY DEF OrphanEnds
<1>2. UNCHANGED <<backup, durable, proc, orig, haste>> /\ Counted' = Counted
  BY DEF OrphanEnds, Counted
<1>3. Covered(dns', orig', backup', durable', orphans', haste', Counted')
  BY <1>1, <1>2 DEF KeptInv, LockInv, World, OrphanType, Covered, Counted
<1>4. ASSUME NEW q \in Procs
      PROVE  Tracks(proc'[q], dns', orig', backup', durable', haste', Counted')
  <2>1. proc[q].pc \notin {"snap", "sync", "set", "restore"}
    BY DEF KeptInv, LockInv, Flags, Placed
  <2>2. \A s \in DOMAIN proc[q].snap \cap Counted : RestoreValue(proc[q].snap[s]) = orig[s]
    BY DEF KeptInv, Tracks
  <2> QED BY <1>2, <2>1, <2>2 DEF Tracks
<1> QED BY <1>1, <1>2, <1>3, <1>4 DEF KeptInv

LEMMA PowerLossKept == ASSUME KeptInv, LockInv', Files', PowerLoss, haste' # "lost" PROVE KeptInv'
<1>1. proc' = [p \in Procs |-> Down] /\ orphans' = {} /\ UNCHANGED <<dns, orig>> /\ Counted' = Counted
      /\ backup' \in durable /\ durable' = {backup'} /\ haste # "lost" /\ (haste = "none" \/ backup' = backup)
  BY DEF PowerLoss, Settled, KeptInv, Files, Counted
<1>2. AllRight(durable', orig', Counted')
  BY <1>1 DEF KeptInv, AllRight
<1>3. Covered(dns', orig', backup', durable', orphans', haste', Counted')
  BY <1>1 DEF KeptInv, Covered
<1>4. \A p \in Procs : Tracks(proc'[p], dns', orig', backup', durable', haste', Counted')
  BY <1>1, DownIs, IdleEmpty
<1> QED BY <1>1, <1>2, <1>3, <1>4 DEF KeptInv

LEMMA WritebackKept == KeptInv /\ LockInv' /\ Files' /\ Writeback => KeptInv'
<1> SUFFICES ASSUME KeptInv, LockInv', Files', Writeback PROVE KeptInv'
  OBVIOUS
<1>1. durable' = {backup} /\ UNCHANGED <<dns, backup, proc, orphans, orig>> /\ Counted' = Counted
  BY DEF Writeback, Counted
<1>2. Covered(dns', orig', backup', durable', orphans', haste', Counted')
  BY <1>1 DEF KeptInv, Covered
<1>3. \A p \in Procs : Tracks(proc'[p], dns', orig', backup', durable', haste', Counted')
  BY <1>1 DEF KeptInv, Tracks
<1>4. AllRight(durable', orig', Counted')
  BY <1>1 DEF KeptInv, Files, AllRight
<1> QED BY <1>1, <1>2, <1>3, <1>4 DEF KeptInv

(* An edit under a backup is not counted any more; one without touches     *)
(* nothing that a process has taken down.                                  *)
LEMMA UserEditsKept == ASSUME KeptInv, LockInv', Files', UserEdits PROVE KeptInv'
<1>1. UNCHANGED <<backup, durable, proc, orphans, haste>>
  BY DEF UserEdits
<1>2. CASE UNCHANGED <<dns, orig, edited>>
  BY <1>1, <1>2 DEF KeptInv, Counted
<1>3. ASSUME NEW s \in Services, NEW v \in Own, dns' = [dns EXCEPT ![s] = v], orig' = [orig EXCEPT ![s] = v],
             edited' = edited \cup {s}
      PROVE  KeptInv'
  <2>1. Counted' \subseteq Counted /\ \A u \in Counted' : dns'[u] = dns[u] /\ orig'[u] = orig[u]
    BY <1>3 DEF Counted, KeptInv, LockInv, World
  <2>2. AllRight(durable', orig', Counted')
    BY <1>1, <2>1 DEF KeptInv, AllRight
  <2>3. Covered(dns', orig', backup', durable', orphans', haste', Counted')
    BY <1>1, <2>1 DEF KeptInv, Covered
  <2>4. \A p \in Procs : Tracks(proc'[p], dns', orig', backup', durable', haste', Counted')
    BY <1>1, <2>1 DEF KeptInv, Tracks
  <2> QED BY <1>1, <2>2, <2>3, <2>4 DEF KeptInv
<1>4. ASSUME NEW s \in Services, NEW v \in Own, dns' = [dns EXCEPT ![s] = v], orig' = [orig EXCEPT ![s] = v],
             edited' = edited, NoBackup
      PROVE  KeptInv'
  <2>0. backup = Absent /\ durable = {Absent} /\ Counted' = Counted /\ \A p \in Procs : proc[p].snap = <<>>
    BY <1>4 DEF NoBackup, KeptInv, Files, Counted
  <2>1. \A u \in Counted : dns[u] = orig[u]
    BY <2>0 DEF KeptInv, Covered
  <2>2. \A u \in Counted : dns'[u] = orig'[u]
    BY <1>4, <2>1 DEF KeptInv, LockInv, World, Counted
  <2>3. orphans = {}
    BY <2>0 DEF KeptInv
  <2>4. Covered(dns', orig', backup', durable', orphans', haste', Counted') /\ AllRight(durable', orig', Counted')
    BY <1>1, <2>0, <2>2, <2>3 DEF Covered, AllRight
  <2>5. ASSUME NEW p \in Procs
        PROVE  Tracks(proc'[p], dns', orig', backup', durable', haste', Counted')
    <3>1. DOMAIN proc[p].snap = {}
      BY <2>0, EmptyBackup
    <3> QED BY <1>1, <2>0, <2>2, <3>1 DEF Tracks
  <2> QED BY <1>1, <2>3, <2>4, <2>5 DEF KeptInv
<1> QED BY <1>2, <1>3, <1>4 DEF UserEdits

LEMMA InitKept == DnsInit => KeptInv
<1> SUFFICES ASSUME DnsInit PROVE KeptInv
  OBVIOUS
<1>1. LockInv /\ Files
  BY InitLock, InitFiles
<1>2. \A p \in Procs : Tracks(proc[p], dns, orig, backup, durable, haste, Counted)
  BY DownIs, IdleEmpty DEF DnsInit
<1> QED BY <1>1, <1>2 DEF DnsInit, KeptInv, Files, AllRight, Covered

(* Until the power fails on a backup that was taken over too early. *)
Kept == LockInv /\ Files /\ (haste # "lost" => KeptInv)

LEMMA LostStays == haste = "lost" /\ [DnsNext]_dnsVars => haste' = "lost"
<1> SUFFICES ASSUME haste = "lost", [DnsNext]_dnsVars PROVE haste' = "lost"
  OBVIOUS
<1>1. ASSUME NEW p \in Procs, StartProc(p) \/ Step(p) \/ Apply(p) \/ Restore(p) \/ Quit(p) \/ CrashProc(p)
      PROVE  haste' = "lost"
  BY <1>1 DEF StartProc, Step, RestoreStale, WriteBackup, SyncDir, DurabilityFlush, Settled, ApplyReturns, SetServers,
              RestoreFromBackupFile, RestoreReturns, UnlinkLock, Apply, Restore, Quit, CrashProc
<1>2. CASE OrphanEnds \/ PowerLoss \/ Writeback \/ UserEdits
  BY <1>2 DEF OrphanEnds, PowerLoss, Writeback, UserEdits, Settled
<1>3. CASE UNCHANGED dnsVars
  BY <1>3 DEF dnsVars
<1> QED BY <1>1, <1>2, <1>3 DEF DnsNext

LEMMA NextKept == ASSUME Kept, [DnsNext]_dnsVars PROVE Kept'
<1>1. LockInv' /\ Files'
  BY NextLock, NextFiles DEF Kept
<1>0. ASSUME haste' # "lost" PROVE KeptInv'
  <2>0. KeptInv
    BY <1>0, LostStays DEF Kept
  <2>2. CASE \E p \in Procs : StartProc(p) \/ Step(p) \/ Apply(p) \/ Restore(p) \/ Quit(p) \/ CrashProc(p)
    BY <1>1, <2>0, <2>2, StartProcKept, RestoreStaleKept, ApplyKept, WriteBackupKept, SyncDirKept, SetServersKept,
       ApplyReturnsKept, RestoreFromBackupFileKept, RestoreReturnsKept, UnlinkLockKept, RestoreKept, CrashKept DEF Step
  <2>3. CASE OrphanEnds \/ PowerLoss \/ Writeback \/ UserEdits
    BY <1>0, <1>1, <2>0, <2>3, OrphanEndsKept, PowerLossKept, WritebackKept, UserEditsKept
  <2>4. CASE UNCHANGED dnsVars
    BY <1>1, <2>0, <2>4 DEF KeptInv, dnsVars, Counted
  <2> QED BY <2>2, <2>3, <2>4 DEF DnsNext
<1> QED BY <1>0, <1>1 DEF Kept

(* Every version of the backup stays right and all of them cover what is   *)
(* not the user's, whatever fails, is killed or loses power, save where    *)
(* mqvpn_dns_apply went by a backup that was not durable.                  *)
THEOREM KeptInvariant == DnsSpec => []Kept
<1>1. Kept /\ [DnsNext]_dnsVars => Kept'
  BY NextKept
<1>2. DnsInit => Kept
  BY InitKept DEF Kept, KeptInv
<1> QED BY <1>1, <1>2, PTL DEF DnsSpec

(* "Never mutate a single service's DNS without a valid, durable,          *)
(* authoritative backup": write_backup, rollback and restore keep a record *)
(* of the user's setting for every service that does not have it or will   *)
(* be changed by a running command, and after an apply that wrote its own  *)
(* backup, or found a durable one, the record survives a power loss.       *)
THEOREM OriginalKeptHolds == DnsSpec => []OriginalKept
<1>1. Kept => OriginalKept
  <2> SUFFICES ASSUME KeptInv, NEW s \in Counted,
                      dns[s] # orig[s] \/ \E o \in orphans : o.svc = s /\ o.val # orig[s]
               PROVE  Names(backup, s) /\ (haste = "none" => \A file \in durable : Names(file, s))
    BY DEF Kept, OriginalKept, Counted
  <2>1. backup # Absent /\ s \in DOMAIN backup /\ (haste = "none" => \A f \in durable : f # Absent /\ s \in DOMAIN f)
    BY DEF KeptInv, Covered
  <2>2. \A f \in durable : f # Absent /\ s \in DOMAIN f => RestoreValue(f[s]) = orig[s]
    BY DEF KeptInv, AllRight
  <2> QED BY <2>1, <2>2 DEF Names, KeptInv, Files
<1> QED BY <1>1, KeptInvariant, PTL

-----------------------------------------------------------------------------
(* Part 3: LinuxPaths.  The invariant.                                      *)

TabEntry == [iface : Ifaces, fd : Nat \union {-1}, att : {0, 1}, h : Nat, ev : Nat \union {-1}]
LibSlot == [h : Nat, sock : Nat, p : PathEntry]

(* A slot's platform_attached says whether it was dropped. *)
SlotFine(p) ==
    p \in PathEntry /\ (p.platform_attached = 0 <=> p.state \in {"CLOSED_DROPPED", "CLOSED_FREE"})

CtxType(y) ==
    /\ y \in [tab : Seq(TabEntry), fails : [Positions -> 0 .. Limit], lib : Seq(LibSlot),
              open : SUBSET Nat]
    /\ Len(y.tab) \in 1 .. MaxPaths /\ Len(y.lib) \in 1 .. MaxPaths
    /\ IsFiniteSet(y.open)

(* The library's slots: no two with one handle, no two attached with one    *)
(* socket, and the sockets of the attached ones open.                       *)
SlotsFine(lib, open) ==
    /\ \A j \in DOMAIN lib : SlotFine(lib[j].p)
    /\ \A j \in DOMAIN lib : lib[j].p.platform_attached = 1 => lib[j].sock \in open
    /\ \A j, m \in DOMAIN lib :
          j # m => /\ lib[j].h # lib[m].h
                   /\ \/ lib[j].p.platform_attached = 0
                      \/ lib[m].p.platform_attached = 0
                      \/ lib[j].sock # lib[m].sock

SlotOf(lib, hd, fd) ==
    \E j \in DOMAIN lib : /\ lib[j].h = hd /\ lib[j].sock = fd
                          /\ lib[j].p.platform_attached = 1

HasSlot(e, lib) == SlotOf(lib, e.h, e.fd)

(* The entries: no two with one handle, and what an attached one has. *)
EntriesFine(tab, lib) ==
    /\ \A k, m \in DOMAIN tab : k # m => tab[k].h # tab[m].h
    /\ \A k \in DOMAIN tab : IF tab[k].att = 1
                             THEN tab[k].fd # -1 /\ tab[k].ev = tab[k].fd /\ HasSlot(tab[k], lib)
                             ELSE tab[k].fd = -1

CtxFine(y) == CtxType(y) /\ SlotsFine(y.lib, y.open) /\ EntriesFine(y.tab, y.lib)

(* Messages in the buffer that make the monitor drop an interface's paths. *)
Lost == {"gone", "down", "nocarrier"}
LinkLossPending(q, i) == \E n \in DOMAIN q : q[n].i = i /\ q[n].t \in {"NEWLINK", "DELLINK"} /\ q[n].link \in Lost
AddrLossPending(q, i) == \E n \in DOMAIN q : q[n].i = i /\ q[n].t = "DELADDR"

Attached(y, i) == \E k \in DOMAIN y.tab : y.tab[k].iface = i /\ y.tab[k].att = 1

(* A loss that the monitor has not yet acted on has its message in the     *)
(* buffer.                                                                  *)
LossAnnounced ==
    \A i \in Ifaces \ blind : Attached(ctx, i) =>
        /\ ifs[i].link \in Lost => LinkLossPending(nlq, i)
        /\ ifs[i].addr \/ LinkLossPending(nlq, i) \/ AddrLossPending(nlq, i)

Message == [t : {"NEWLINK", "DELLINK", "NEWADDR", "DELADDR"}, i : Ifaces, link : Links]
HasFields(r) == r = [link |-> r.link, addr |-> r.addr, route |-> r.route]

MonitorType ==
    /\ DOMAIN ifs = Ifaces /\ ifs = [i \in Ifaces |-> ifs[i]]
    /\ \A i \in Ifaces : HasFields(ifs[i]) /\ ifs[i].link \in Links
    /\ nlq \in Seq(Message) /\ Len(nlq) <= MaxQueue

PathsInv == CtxFine(ctx) /\ MonitorType /\ LossAnnounced

-----------------------------------------------------------------------------
(* Numbers that are free. *)

LEMMA PathsLeast ==
    ASSUME NEW S \in SUBSET Nat, S # {}
    PROVE  Least(S) \in S /\ \A j \in S : Least(S) <= j
<1>1. PICK i \in S : \A j \in S : ~(<<j, i>> \in OpToRel(<, Nat))
  BY WFMin, NatLessThanWellFounded
<1>2. \A j \in S : ~(j < i)
  BY <1>1 DEF OpToRel
<1>3. \A j \in S : i <= j
  BY <1>2
<1> QED BY <1>3 DEF Least

LEMMA PathsInduct ==
    ASSUME NEW P \in SUBSET Nat, 0 \in P, \A n \in P : n + 1 \in P
    PROVE  P = Nat
<1> SUFFICES ASSUME Nat \ P # {} PROVE FALSE
  OBVIOUS
<1> DEFINE i == Least(Nat \ P)
<1>1. i \in Nat \ P /\ \A j \in Nat \ P : i <= j
  BY PathsLeast
<1> HIDE DEF i
<1>2. i # 0 /\ i - 1 \in Nat /\ (i - 1) + 1 = i
  BY <1>1
<1>3. i - 1 \in P
  BY <1>1, <1>2
<1> QED
  BY <1>1, <1>2, <1>3

LEMMA FreeNumber ==
    ASSUME NEW S, IsFiniteSet(S)
    PROVE  LeastFree(S) \in Nat \ S
<1> DEFINE n == Cardinality(S)
           R == (0 .. n) \ S
<1>1. n \in Nat
  BY FS_CardinalityType
<1>2. IsFiniteSet(0 .. n) /\ Cardinality(0 .. n) = n + 1
  <2> HIDE DEF n
  <2> QED BY <1>1, FS_Interval
<1>3. R # {}
  <2> SUFFICES ASSUME (0 .. n) \in SUBSET S PROVE FALSE
    OBVIOUS
  <2>1. Cardinality(0 .. n) <= n
    BY FS_Subset
  <2> HIDE DEF n
  <2> QED BY <2>1, <1>1, <1>2
<1>4. R \in SUBSET Nat
  BY <1>1
<1>5. Least(R) \in R
  BY <1>3, <1>4, PathsLeast
<1> QED
  BY <1>4, <1>5 DEF LeastFree

LEMMA FiniteHandles ==
    ASSUME NEW y, CtxType(y)
    PROVE  IsFiniteSet(Handles(y))
<1> DEFINE T == {y.tab[i].h : i \in DOMAIN y.tab}
           L == {y.lib[j].h : j \in DOMAIN y.lib}
           f == [i \in DOMAIN y.tab |-> y.tab[i].h]
           g == [j \in DOMAIN y.lib |-> y.lib[j].h]
<1>1. DOMAIN y.tab = 1 .. Len(y.tab) /\ DOMAIN y.lib = 1 .. Len(y.lib)
      /\ Len(y.tab) \in Int /\ Len(y.lib) \in Int
  BY DEF CtxType
<1>2. IsFiniteSet(DOMAIN y.tab) /\ IsFiniteSet(DOMAIN y.lib)
  BY <1>1, FS_Interval
<1>3. f \in Surjection(DOMAIN y.tab, T)
  BY DEF Surjection
<1>4. g \in Surjection(DOMAIN y.lib, L)
  BY DEF Surjection
<1>5. IsFiniteSet(T) /\ IsFiniteSet(L)
  BY <1>2, <1>3, <1>4, FS_Surjection
<1>6. Handles(y) = T \union L
  BY DEF Handles
<1> HIDE DEF T, L
<1> QED
  BY <1>5, <1>6, FS_Union

(* A new handle is nobody's, a new descriptor is not open. *)
LEMMA NewNumbers ==
    ASSUME CtxType(ctx), NEW y, CtxType(y)
    PROVE  /\ NewHandle(y) \in Nat /\ NewFd(y) \in Nat
           /\ NewFd(y) \notin y.open
           /\ \A i \in DOMAIN y.tab : y.tab[i].h # NewHandle(y)
           /\ \A j \in DOMAIN y.lib : y.lib[j].h # NewHandle(y)
<1>1. IsFiniteSet(Handles(y) \union Handles(ctx))
  BY FiniteHandles, FS_Union
<1>2. NewHandle(y) \in Nat /\ NewHandle(y) \notin Handles(y)
  BY <1>1, FreeNumber DEF NewHandle
<1>3. NewFd(y) \in Nat /\ NewFd(y) \notin y.open
  BY FreeNumber DEF NewFd, CtxType
<1> QED
  BY <1>2, <1>3 DEF Handles

-----------------------------------------------------------------------------
(* Slots.  What an event makes of a slot; only OnDrop detaches it. *)

Moved(p, q) == SlotFine(q) /\ q.platform_attached = p.platform_attached

LEMMA FailureMoves ==
    ASSUME NEW p, SlotFine(p), p.platform_attached = 1, NEW t \in {"CREATE_WAIT", "DEGRADED"}
    PROVE  Moved(p, ApplyFailure(p, t))
<1> DEFINE n == CountFailure(p.recreate_retries)
           a == IF n >= MaxRetries THEN 0 ELSE 1
           s == IF n >= MaxRetries THEN "CLOSED_RECOVERABLE" ELSE t
<1>1. n \in 0 .. MaxRetries
  BY MaxRetriesAssumption DEF SlotFine, PathEntry, CountFailure
<1>2. a \in {0, 1} /\ s \in {"CREATE_WAIT", "DEGRADED", "CLOSED_RECOVERABLE"}
  OBVIOUS
<1>3. ApplyFailure(p, t) = [p EXCEPT !.xquic_path_live = 0, !.xqc_path_id = 0, !.path_stable = 0,
                               !.recreate_retries = n, !.recreate_after = a, !.state = s]
  BY DEF ApplyFailure
<1>4. 0 \in PathIds
  BY MaxPathIdAssumption DEF PathIds
<1> DEFINE q == ApplyFailure(p, t)
<1> HIDE DEF n, a, s, q
<1>5. q \in PathEntry
  BY <1>1, <1>2, <1>3, <1>4 DEF SlotFine, PathEntry, Lifecycle, q
<1>6. q.state = s /\ q.platform_attached = 1
  BY <1>3 DEF SlotFine, PathEntry, q
<1> QED
  BY <1>2, <1>5, <1>6 DEF Moved, SlotFine, q

LEMMA BindMoves ==
    ASSUME NEW p, SlotFine(p), p.platform_attached = 1
    PROVE  Moved(p, Bind(p, 1)) /\ Moved(p, GiveUp(p))
<1>1. 0 \in PathIds /\ 1 \in PathIds
  BY MaxPathIdAssumption, LinuxPathsAssumption DEF PathIds
<1> DEFINE b == Bind(p, 1)
           g == GiveUp(p)
<1>2. b = [p EXCEPT !.xqc_path_id = 1, !.xquic_path_live = 1, !.recreate_after = 0,
                    !.state = "VALIDATING"]
  BY DEF Bind
<1>3. g = [p EXCEPT !.xquic_path_live = 0, !.xqc_path_id = 0, !.path_stable = 0,
                    !.recreate_after = 0, !.state = "CLOSED_RECOVERABLE"]
  BY DEF GiveUp
<1> HIDE DEF b, g
<1>4. b \in PathEntry /\ b.state = "VALIDATING" /\ b.platform_attached = 1
  BY <1>1, <1>2 DEF SlotFine, PathEntry, Lifecycle
<1>5. g \in PathEntry /\ g.state = "CLOSED_RECOVERABLE" /\ g.platform_attached = 1
  BY <1>1, <1>3 DEF SlotFine, PathEntry, Lifecycle
<1> QED
  BY <1>4, <1>5 DEF Moved, SlotFine, b, g

LEMMA MaybeFreeMoves ==
    ASSUME NEW p, SlotFine(p)
    PROVE  Moved(p, MaybeFree(p))
  BY DEF MaybeFree, Moved, SlotFine, PathEntry, Lifecycle

LEMMA ActivateMoves ==
    ASSUME NEW p, SlotFine(p), NEW r \in ActivateResult
    PROVE  /\ Moved(p, OnActivateRequested(p, r, 1))
           /\ Moved(p, OnRetryTimer(p, r, 1))
           /\ Moved(p, OnManualReactivate(p, r, 1))
<1>1. Moved(p, p)
  BY DEF Moved
<1>2. p.state \notin {"CLOSED_DROPPED", "CLOSED_FREE"} => p.platform_attached = 1
  BY DEF SlotFine, PathEntry
<1>3. Moved(p, OnActivateRequested(p, r, 1))
  BY <1>1, <1>2, FailureMoves, BindMoves DEF OnActivateRequested, ActivateResult
<1>4. Moved(p, OnRetryTimer(p, r, 1))
  <2>1. CASE p.state \in {"CREATE_WAIT", "DEGRADED"}
    BY <2>1, <1>2, FailureMoves, BindMoves DEF OnRetryTimer, ActivateResult
  <2>2. CASE p.state \notin {"CREATE_WAIT", "DEGRADED"}
    BY <2>2, <1>1 DEF OnRetryTimer
  <2> QED BY <2>1, <2>2
<1>5. Moved(p, OnManualReactivate(p, r, 1))
  BY <1>1, <1>2, BindMoves DEF OnManualReactivate
<1> QED BY <1>3, <1>4, <1>5

LEMMA EventMoves ==
    ASSUME NEW p, SlotFine(p)
    PROVE  /\ Moved(p, OnValidationOk(p, "ACTIVE"))
           /\ Moved(p, OnXquicRemoved(p))
           /\ Moved(p, OnConnReset(p))
           /\ Moved(p, OnFdClosed(p))
<1>1. Moved(p, p)
  BY DEF Moved
<1>2. p.state \notin {"CLOSED_DROPPED", "CLOSED_FREE"} => p.platform_attached = 1
  BY DEF SlotFine, PathEntry
<1>3. 0 \in PathIds
  BY MaxPathIdAssumption DEF PathIds
<1>4. Moved(p, OnValidationOk(p, "ACTIVE"))
  BY <1>1 DEF OnValidationOk, Moved, SlotFine, PathEntry, Lifecycle
<1>5. Moved(p, OnXquicRemoved(p))
  <2> DEFINE q == [p EXCEPT !.xquic_path_live = 0, !.xqc_path_id = 0]
  <2>1. Moved(p, q)
    BY <1>3 DEF Moved, SlotFine, PathEntry
  <2> HIDE DEF q
  <2>2. Moved(p, MaybeFree(q))
    BY <2>1, MaybeFreeMoves DEF Moved
  <2> QED
    BY <1>1, <1>2, <2>2, FailureMoves DEF OnXquicRemoved, q
<1>6. Moved(p, OnConnReset(p))
  <2> DEFINE q == [p EXCEPT !.xquic_path_live = 0, !.xqc_path_id = 0, !.recreate_after = 0,
                            !.recreate_retries = 0, !.path_stable = 0]
  <2>a. 0 \in 0 .. MaxRetries
    BY MaxRetriesAssumption
  <2>b. q \in PathEntry
    BY <1>3, <2>a DEF SlotFine, PathEntry
  <2>c. q.state = p.state /\ q.platform_attached = p.platform_attached
    BY DEF SlotFine, PathEntry
  <2>d. OnConnReset(p) = IF p.platform_attached = 1 THEN [q EXCEPT !.state = "PENDING"] ELSE MaybeFree(q)
    BY DEF OnConnReset
  <2> HIDE DEF q
  <2>1. Moved(p, q)
    BY <2>b, <2>c DEF Moved, SlotFine
  <2>2. p.platform_attached = 1 => Moved(p, [q EXCEPT !.state = "PENDING"])
    BY <2>1 DEF Moved, SlotFine, PathEntry, Lifecycle
  <2>3. Moved(p, MaybeFree(q))
    BY <2>1, MaybeFreeMoves DEF Moved
  <2> QED
    BY <2>2, <2>3, <2>d
<1>7. Moved(p, OnFdClosed(p))
  <2> DEFINE q == [p EXCEPT !.fd = -1]
  <2>1. Moved(p, q)
    BY DEF Moved, SlotFine, PathEntry
  <2> HIDE DEF q
  <2>2. Moved(p, MaybeFree(q))
    BY <2>1, MaybeFreeMoves DEF Moved
  <2> QED
    BY <1>1, <2>2 DEF OnFdClosed, q
<1> QED BY <1>4, <1>5, <1>6, <1>7

LEMMA DropMoves ==
    ASSUME NEW p, SlotFine(p)
    PROVE  SlotFine(OnDrop(p)) /\ OnDrop(p).platform_attached = 0
  BY DEF OnDrop, SlotFine, PathEntry, Lifecycle

(* The slot of a new path. *)
LEMMA AddedSlot ==
    LET p == OnAddFd([PathEntryInit EXCEPT !.fd = 0])
    IN  SlotFine(p) /\ p.platform_attached = 1 /\ p.state = "PENDING"
<1>1. 0 \in PathIds
  BY MaxPathIdAssumption DEF PathIds
<1> DEFINE p == OnAddFd([PathEntryInit EXCEPT !.fd = 0])
<1>2. p = [state |-> "PENDING", platform_attached |-> 1, fd |-> 0, backup |-> 0,
           weight |-> 0, xquic_path_live |-> 0, xqc_path_id |-> 0,
           recreate_after |-> 0, recreate_retries |-> 0, path_stable |-> 0]
  BY DEF OnAddFd, PathEntryInit
<1>3. 0 \in 0 .. MaxRetries /\ 0 \in Weights
  BY MaxRetriesAssumption, WeightsAssumption
<1> HIDE DEF p
<1>4. p \in PathEntry
  BY <1>1, <1>2, <1>3 DEF PathEntry, Lifecycle
<1> QED
  BY <1>2, <1>4 DEF SlotFine, p

-----------------------------------------------------------------------------
(* What the library's calls make of the slots. *)

LEMMA TableAsSeq ==
    ASSUME NEW n \in Nat, NEW S, NEW s \in [1 .. n -> S]
    PROVE  s \in Seq(S) /\ Len(s) = n /\ DOMAIN s = 1 .. n
  OBVIOUS

LEMMA CtxFields ==
    ASSUME NEW y, CtxType(y)
    PROVE  /\ y.tab \in Seq(TabEntry) /\ y.lib \in Seq(LibSlot) /\ y.open \in SUBSET Nat
           /\ y.fails \in [Positions -> 0 .. Limit]
           /\ DOMAIN y.tab = 1 .. Len(y.tab) /\ DOMAIN y.lib = 1 .. Len(y.lib)
           /\ Len(y.tab) \in Nat /\ Len(y.lib) \in Nat /\ MaxPaths \in Nat
           /\ y.tab \in [DOMAIN y.tab -> TabEntry] /\ y.lib \in [DOMAIN y.lib -> LibSlot]
           /\ Len(y.tab) \in 1 .. MaxPaths /\ Len(y.lib) \in 1 .. MaxPaths
  BY LinuxPathsAssumption DEF CtxType

(* Every slot is moved by an event that leaves it attached or not. *)
AllMove(lib, L) ==
    /\ L \in [DOMAIN lib -> LibSlot]
    /\ \A j \in DOMAIN lib : /\ L[j].h = lib[j].h /\ L[j].sock = lib[j].sock
                             /\ Moved(lib[j].p, L[j].p)

(* The slot of handle hd is detached, the others stay. *)
Detaches(lib, L, hd) ==
    /\ L \in [DOMAIN lib -> LibSlot]
    /\ \A j \in DOMAIN lib : /\ L[j].h = lib[j].h /\ L[j].sock = lib[j].sock
                             /\ SlotFine(L[j].p)
                             /\ IF lib[j].h = hd THEN L[j].p.platform_attached = 0
                                ELSE L[j] = lib[j]

(* One slot, new or not attached before, gets handle hd and socket fd. *)
Adds(lib, L, hd, fd) ==
    /\ L \in Seq(LibSlot) /\ Len(L) \in 1 .. MaxPaths
    /\ \E j \in DOMAIN L :
          /\ L[j].h = hd /\ L[j].sock = fd /\ L[j].p.platform_attached = 1 /\ SlotFine(L[j].p)
          /\ DOMAIN L = DOMAIN lib \union {j}
          /\ j \in DOMAIN lib => lib[j].p.platform_attached = 0
          /\ \A m \in DOMAIN L \ {j} : /\ L[m].h = lib[m].h /\ L[m].sock = lib[m].sock
                                       /\ Moved(lib[m].p, L[m].p)

(* No entry loses its slot, or none but the one of handle hd. *)
Carries(lib, L) == \A e : HasSlot(e, lib) => HasSlot(e, L)
CarriesBut(lib, L, hd) == \A e : HasSlot(e, lib) /\ e.h # hd => HasSlot(e, L)

LEMMA AllMoveFine ==
    ASSUME NEW lib, NEW L, NEW open, NEW tab, SlotsFine(lib, open), EntriesFine(tab, lib), AllMove(lib, L)
    PROVE  SlotsFine(L, open) /\ EntriesFine(tab, L)
<1>1. SlotsFine(L, open)
  BY DEF SlotsFine, AllMove, Moved
<1>2. \A e : HasSlot(e, lib) => HasSlot(e, L)
  BY DEF SlotOf, HasSlot, AllMove, Moved
<1> QED
  BY <1>1, <1>2 DEF EntriesFine

LEMMA DetachesFine ==
    ASSUME NEW lib, NEW L, NEW open, NEW hd, NEW fd, SlotsFine(lib, open), Detaches(lib, L, hd),
           SlotOf(lib, hd, fd)
    PROVE  /\ SlotsFine(L, open \ {fd})
           /\ CarriesBut(lib, L, hd)
<1>1. PICK k \in DOMAIN lib : lib[k].h = hd /\ lib[k].sock = fd /\ lib[k].p.platform_attached = 1
  BY DEF SlotOf
<1>2. \A j \in DOMAIN lib : L[j].p.platform_attached = 1 => j # k /\ L[j] = lib[j]
  BY <1>1 DEF Detaches
<1>3. DOMAIN L = DOMAIN lib
  BY DEF Detaches
<1>4. \A j \in DOMAIN L : L[j].p.platform_attached = 1 => L[j].sock \in open \ {fd}
  BY <1>1, <1>2, <1>3 DEF SlotsFine
<1>5. \A j \in DOMAIN L : L[j].p.platform_attached \in {0, 1}
  BY <1>3 DEF Detaches, SlotFine, PathEntry
<1>6. SlotsFine(L, open \ {fd})
  BY <1>2, <1>3, <1>4, <1>5 DEF SlotsFine, Detaches
<1>7. \A e : HasSlot(e, lib) /\ e.h # hd => HasSlot(e, L)
  BY <1>3 DEF SlotOf, HasSlot, Detaches
<1> QED BY <1>6, <1>7 DEF CarriesBut

LEMMA DetachesAny ==
    ASSUME NEW lib, NEW L, NEW open, NEW hd, SlotsFine(lib, open), Detaches(lib, L, hd)
    PROVE  SlotsFine(L, open) /\ CarriesBut(lib, L, hd)
<1>1. \A j \in DOMAIN lib : L[j].p.platform_attached = 1 => L[j] = lib[j]
  BY DEF Detaches
<1>2. DOMAIN L = DOMAIN lib
  BY DEF Detaches
<1>3. \A j \in DOMAIN L : L[j].p.platform_attached \in {0, 1}
  BY <1>2 DEF Detaches, SlotFine, PathEntry
<1>4. SlotsFine(L, open)
  BY <1>1, <1>2, <1>3 DEF SlotsFine, Detaches
<1>5. CarriesBut(lib, L, hd)
  BY <1>2 DEF SlotOf, HasSlot, Detaches, CarriesBut
<1> QED BY <1>4, <1>5

LEMMA AddsFine ==
    ASSUME NEW lib, NEW L, NEW open, NEW hd, NEW fd, SlotsFine(lib, open), Adds(lib, L, hd, fd),
           fd \notin open, \A j \in DOMAIN lib : lib[j].h # hd
    PROVE  /\ SlotsFine(L, open \union {fd})
           /\ Carries(lib, L)
           /\ SlotOf(L, hd, fd)
<1>1. PICK j \in DOMAIN L :
          /\ L[j].h = hd /\ L[j].sock = fd /\ L[j].p.platform_attached = 1 /\ SlotFine(L[j].p)
          /\ DOMAIN L = DOMAIN lib \union {j}
          /\ j \in DOMAIN lib => lib[j].p.platform_attached = 0
          /\ \A m \in DOMAIN L \ {j} : /\ L[m].h = lib[m].h /\ L[m].sock = lib[m].sock
                                       /\ Moved(lib[m].p, L[m].p)
  BY DEF Adds
<1>2. \A m \in DOMAIN L : SlotFine(L[m].p)
  BY <1>1 DEF Moved
<1>3. \A m \in DOMAIN L : L[m].p.platform_attached = 1 => L[m].sock \in open \union {fd}
  BY <1>1 DEF Moved, SlotsFine
<1>4. \A m \in DOMAIN L \ {j} : m \in DOMAIN lib /\ L[m].h # hd /\ (L[m].p.platform_attached = 1 => L[m].sock # fd)
  BY <1>1 DEF Moved, SlotsFine
<1>5. \A m \in DOMAIN L : L[m].p.platform_attached \in {0, 1}
  BY <1>2 DEF SlotFine, PathEntry
<1>6. ASSUME NEW a \in DOMAIN L, NEW b \in DOMAIN L, a # b
      PROVE  /\ L[a].h # L[b].h
             /\ \/ L[a].p.platform_attached = 0 \/ L[b].p.platform_attached = 0
                \/ L[a].sock # L[b].sock
  <2>1. CASE a # j /\ b # j
    <3>1. a \in DOMAIN lib /\ b \in DOMAIN lib
      BY <2>1, <1>4
    <3> QED BY <2>1, <3>1, <1>1, <1>6 DEF Moved, SlotsFine
  <2>2. CASE a = j \/ b = j
    BY <2>2, <1>1, <1>4, <1>5, <1>6
  <2> QED BY <2>1, <2>2
<1>7. SlotsFine(L, open \union {fd})
  BY <1>2, <1>3, <1>6 DEF SlotsFine
<1>8. \A e : HasSlot(e, lib) => HasSlot(e, L)
  BY <1>1 DEF SlotOf, HasSlot, Moved
<1>9. SlotOf(L, hd, fd)
  BY <1>1 DEF SlotOf
<1> QED BY <1>7, <1>8, <1>9 DEF Carries

LEMMA OnSlotMoves ==
    ASSUME NEW y, CtxType(y), NEW h, NEW after,
           \A j \in DOMAIN y.lib : Moved(y.lib[j].p, after[j]), SlotsFine(y.lib, y.open)
    PROVE  /\ AllMove(y.lib, OnSlot(y, h, after).lib)
           /\ OnSlot(y, h, after) = [y EXCEPT !.lib = OnSlot(y, h, after).lib]
<1> DEFINE L == [j \in DOMAIN y.lib |->
                    IF y.lib[j].h = h THEN [y.lib[j] EXCEPT !.p = after[j]] ELSE y.lib[j]]
<1>1. OnSlot(y, h, after) = [y EXCEPT !.lib = L] /\ OnSlot(y, h, after).lib = L
  BY DEF OnSlot, CtxType
<1>2. ASSUME NEW j \in DOMAIN y.lib
      PROVE  /\ L[j] \in LibSlot /\ L[j].h = y.lib[j].h /\ L[j].sock = y.lib[j].sock
             /\ Moved(y.lib[j].p, L[j].p)
  <2>1. y.lib[j] \in LibSlot /\ Moved(y.lib[j].p, y.lib[j].p) /\ after[j] \in PathEntry
    BY CtxFields DEF Moved, SlotsFine, SlotFine
  <2> QED
    BY <2>1 DEF LibSlot
<1> HIDE DEF L
<1>3. L \in [DOMAIN y.lib -> LibSlot]
  BY <1>2 DEF L
<1> QED
  BY <1>1, <1>2, <1>3 DEF AllMove

LEMMA LibDropDetaches ==
    ASSUME NEW y, CtxType(y), NEW h, NEW O, SlotsFine(y.lib, O)
    PROVE  /\ Detaches(y.lib, LibDrop(y, h).lib, h)
           /\ LibDrop(y, h) = [y EXCEPT !.lib = LibDrop(y, h).lib]
<1> DEFINE L == [j \in DOMAIN y.lib |->
                    IF y.lib[j].h = h THEN [y.lib[j] EXCEPT !.p = OnDrop(y.lib[j].p)] ELSE y.lib[j]]
<1>1. LibDrop(y, h) = [y EXCEPT !.lib = L] /\ LibDrop(y, h).lib = L
  BY DEF LibDrop, OnSlot, CtxType
<1>2. ASSUME NEW j \in DOMAIN y.lib
      PROVE  /\ L[j] \in LibSlot /\ L[j].h = y.lib[j].h /\ L[j].sock = y.lib[j].sock
             /\ SlotFine(L[j].p)
             /\ IF y.lib[j].h = h THEN L[j].p.platform_attached = 0 ELSE L[j] = y.lib[j]
  <2> DEFINE q == OnDrop(y.lib[j].p)
  <2>1. y.lib[j] \in LibSlot /\ SlotFine(y.lib[j].p)
    BY CtxFields DEF SlotsFine
  <2>2. SlotFine(q) /\ q.platform_attached = 0 /\ q \in PathEntry
    BY <2>1, DropMoves DEF SlotFine
  <2> HIDE DEF q
  <2>3. [y.lib[j] EXCEPT !.p = q] \in LibSlot /\ [y.lib[j] EXCEPT !.p = q].p = q
        /\ [y.lib[j] EXCEPT !.p = q].h = y.lib[j].h /\ [y.lib[j] EXCEPT !.p = q].sock = y.lib[j].sock
    BY <2>1, <2>2 DEF LibSlot
  <2> QED
    BY <2>1, <2>2, <2>3 DEF q
<1> HIDE DEF L
<1>3. L \in [DOMAIN y.lib -> LibSlot]
  BY <1>2 DEF L
<1> QED
  BY <1>1, <1>2, <1>3 DEF Detaches

(* A detached slot that is then told of its closed socket. *)
LEMMA FdClosedDetaches ==
    ASSUME NEW lib, NEW y, CtxType(y), SlotsFine(y.lib, y.open), NEW h, Detaches(lib, y.lib, h)
    PROVE  /\ Detaches(lib, LibFdClosed(y, h).lib, h)
           /\ LibFdClosed(y, h) = [y EXCEPT !.lib = LibFdClosed(y, h).lib]
<1> DEFINE after == [j \in DOMAIN y.lib |-> OnFdClosed(y.lib[j].p)]
           L == LibFdClosed(y, h).lib
<1>1. \A j \in DOMAIN y.lib : Moved(y.lib[j].p, after[j])
  BY EventMoves DEF SlotsFine
<1>2. LibFdClosed(y, h) = OnSlot(y, h, after)
  BY DEF LibFdClosed
<1> HIDE DEF after
<1>3. AllMove(y.lib, L) /\ LibFdClosed(y, h) = [y EXCEPT !.lib = L]
  BY <1>1, <1>2, OnSlotMoves
<1>4. \A j \in DOMAIN y.lib : y.lib[j].h # h => L[j] = y.lib[j]
  BY <1>2 DEF OnSlot, CtxType
<1>5. DOMAIN y.lib = DOMAIN lib
  BY DEF Detaches
<1> HIDE DEF L
<1>6. Detaches(lib, L, h)
  BY <1>3, <1>4, <1>5 DEF Detaches, AllMove, Moved
<1> QED
  BY <1>3, <1>6 DEF L

LEMMA AnswerType ==
    ASSUME NEW i, NEW f \in Faults
    PROVE  Answer(i, f) \in ActivateResult /\ Result(Answer(i, f)) \in ActivateResult
  BY DEF Answer, Result, ActivateResult

LEMMA ActivateAll ==
    ASSUME NEW y, CtxType(y), SlotsFine(y.lib, y.open), NEW r, Result(r) \in ActivateResult
    PROVE  AllMove(y.lib, Activate(y, r).lib) /\ Activate(y, r) = [y EXCEPT !.lib = Activate(y, r).lib]
<1> DEFINE q(j) == OnActivateRequested(y.lib[j].p, Result(r), 1)
           L == [j \in DOMAIN y.lib |-> [y.lib[j] EXCEPT !.p = q(j)]]
<1>1. Activate(y, r) = [y EXCEPT !.lib = L] /\ Activate(y, r).lib = L
  BY DEF Activate, CtxType
<1>2. ASSUME NEW j \in DOMAIN y.lib
      PROVE  /\ L[j] \in LibSlot /\ L[j].h = y.lib[j].h /\ L[j].sock = y.lib[j].sock
             /\ Moved(y.lib[j].p, L[j].p)
  <2>1. y.lib[j] \in LibSlot /\ SlotFine(y.lib[j].p)
    BY CtxFields DEF SlotsFine
  <2>2. Moved(y.lib[j].p, q(j)) /\ q(j) \in PathEntry
    BY <2>1, ActivateMoves DEF Moved, SlotFine
  <2> HIDE DEF q
  <2> QED
    BY <2>1, <2>2 DEF LibSlot
<1> HIDE DEF L
<1>3. L \in [DOMAIN y.lib -> LibSlot]
  BY <1>2 DEF L
<1> QED
  BY <1>1, <1>2, <1>3 DEF AllMove

LEMMA LibAddFdAdds ==
    ASSUME CtxType(ctx), NEW y, CtxType(y), SlotsFine(y.lib, y.open), CanAddFd(y), NEW fd \in Nat, fd \notin y.open,
           NEW r, Result(r) \in ActivateResult
    PROVE  LET z == LibAddFd(y, fd, r)
           IN  Adds(y.lib, z.lib, NewHandle(y), fd) /\ z = [y EXCEPT !.lib = z.lib]
<1> DEFINE n == Len(y.lib)
           j == IF ReusableSlots(y) # {} THEN Least(ReusableSlots(y)) ELSE n + 1
           h == NewHandle(y)
           q == OnAddFd([PathEntryInit EXCEPT !.fd = 0])
           s == [h |-> h, sock |-> fd, p |-> q]
           m == IF j > n THEN j ELSE n
           L == [k \in 1 .. m |-> IF k = j THEN s ELSE y.lib[k]]
           z == [y EXCEPT !.lib = L]
<1>1. /\ n \in Nat /\ n \in 1 .. MaxPaths /\ DOMAIN y.lib = 1 .. n /\ y.lib \in [1 .. n -> LibSlot] /\ MaxPaths \in Nat
      /\ h \in Nat /\ \A k \in 1 .. n : y.lib[k].h # h
  BY CtxFields, NewNumbers
<1>2. SlotFine(q) /\ q.platform_attached = 1 /\ q \in PathEntry
  BY AddedSlot DEF SlotFine
<1>3. /\ j \in 1 .. m /\ m \in 1 .. MaxPaths /\ 1 .. m = (1 .. n) \union {j}
      /\ j \in 1 .. n => y.lib[j].p.platform_attached = 0
  <2>1. CASE ReusableSlots(y) # {}
    <3>1. ReusableSlots(y) \in SUBSET Nat
      BY SMTT(90), <1>1 DEF ReusableSlots
    <3>2. j \in ReusableSlots(y)
      BY SMTT(90), <2>1, <3>1, PathsLeast
    <3>3. j \in 1 .. n /\ y.lib[j].p.platform_attached = 0
      BY <3>2, <1>1 DEF ReusableSlots
    <3> HIDE DEF j, n
    <3> QED BY <3>3, <1>1
  <2>2. CASE ReusableSlots(y) = {}
    <3>1. j = n + 1 /\ n < MaxPaths
      BY <2>2 DEF CanAddFd
    <3> HIDE DEF j, n
    <3> QED BY <3>1, <1>1
  <2> QED BY <2>1, <2>2
<1>4. LibAddFd(y, fd, r) = IF st.ready /\ st.conn # "none" THEN Activate(z, r) ELSE z
  BY DEF LibAddFd
<1>5. z.lib = L /\ z.open = y.open /\ z.tab = y.tab /\ z.fails = y.fails
  BY DEF CtxType
<1> HIDE DEF j, n, h, q
<1>6. s \in LibSlot /\ s.h = h /\ s.sock = fd /\ s.p = q
  BY <1>1, <1>2 DEF LibSlot
<1> HIDE DEF s
<1>7. L \in [1 .. m -> LibSlot]
  BY <1>1, <1>3, <1>6
<1>8. L \in Seq(LibSlot) /\ Len(L) = m /\ DOMAIN L = 1 .. m
  <2> HIDE DEF L, m
  <2> QED BY <1>3, <1>7, <1>1, TableAsSeq
<1>9. L[j] = s /\ \A k \in (1 .. m) \ {j} : k \in 1 .. n /\ L[k] = y.lib[k]
  BY <1>3
<1> HIDE DEF L, m
<1>10. \A k \in 1 .. n : Moved(y.lib[k].p, y.lib[k].p)
  BY <1>1 DEF SlotsFine, Moved
<1>11. Adds(y.lib, L, h, fd)
  <2>1. /\ L[j].h = h /\ L[j].sock = fd /\ L[j].p.platform_attached = 1 /\ SlotFine(L[j].p)
        /\ j \in DOMAIN L /\ DOMAIN L = DOMAIN y.lib \union {j}
        /\ j \in DOMAIN y.lib => y.lib[j].p.platform_attached = 0
    BY <1>1, <1>2, <1>3, <1>6, <1>8, <1>9
  <2>2. \A k \in DOMAIN L \ {j} : L[k].h = y.lib[k].h /\ L[k].sock = y.lib[k].sock /\ Moved(y.lib[k].p, L[k].p)
    BY <1>8, <1>9, <1>10
  <2>3. L \in Seq(LibSlot) /\ Len(L) \in 1 .. MaxPaths
    BY <1>3, <1>8
  <2> QED BY <2>1, <2>2, <2>3 DEF Adds
<1>12. CtxType(z) /\ SlotsFine(z.lib, z.open \union {fd})
  <2>1. SlotsFine(L, y.open \union {fd})
    BY <1>1, <1>11, AddsFine
  <2>2. CtxType(z)
    BY <1>5, <1>8, <1>3 DEF CtxType
  <2> QED BY <2>1, <2>2, <1>5
<1>13. CASE ~(st.ready /\ st.conn # "none")
  BY <1>13, <1>4, <1>5, <1>11 DEF h
<1>14. CASE st.ready /\ st.conn # "none"
  <2> DEFINE A == Activate(z, r).lib
             zz == [z EXCEPT !.open = @ \union {fd}]
  <2>1. A = Activate(zz, r).lib /\ Activate(z, r) = [z EXCEPT !.lib = A]
    BY <1>12 DEF Activate, CtxType
  <2>2. zz.lib = z.lib /\ zz.open = z.open \union {fd} /\ CtxType(zz)
    BY <1>12, FS_AddElement DEF CtxType
  <2> HIDE DEF zz, z, A
  <2>3. AllMove(L, A)
    BY <2>1, <2>2, <1>5, <1>12, ActivateAll
  <2>4. A \in Seq(LibSlot) /\ Len(A) = m /\ DOMAIN A = 1 .. m
    BY <2>3, <1>1, <1>3, <1>8, TableAsSeq DEF AllMove
  <2>5. Adds(y.lib, A, h, fd)
    <3>1. /\ A[j].h = h /\ A[j].sock = fd /\ A[j].p.platform_attached = 1 /\ SlotFine(A[j].p)
          /\ j \in DOMAIN A /\ DOMAIN A = DOMAIN y.lib \union {j}
          /\ j \in DOMAIN y.lib => y.lib[j].p.platform_attached = 0
      BY <1>1, <1>2, <1>3, <1>6, <1>8, <1>9, <2>3, <2>4 DEF AllMove, Moved
    <3>2. \A k \in DOMAIN A \ {j} : A[k].h = y.lib[k].h /\ A[k].sock = y.lib[k].sock /\ Moved(y.lib[k].p, A[k].p)
      BY <1>8, <1>9, <1>10, <2>3, <2>4 DEF AllMove, Moved
    <3>3. A \in Seq(LibSlot) /\ Len(A) \in 1 .. MaxPaths
      BY <1>3, <2>4
    <3> QED BY <3>1, <3>2, <3>3 DEF Adds
  <2>6. LibAddFd(y, fd, r) = [y EXCEPT !.lib = A]
    BY <1>14, <1>4, <2>1 DEF z, CtxType
  <2> QED
    BY <2>5, <2>6 DEF h, CtxType
<1> QED BY <1>13, <1>14

-----------------------------------------------------------------------------
(* The platform's steps on the table and the library together. *)

Healthy(i) == UpAndRunning(i) /\ ifs[i].addr

(* The entries keep their interfaces, and one that had no socket gets one   *)
(* on a healthy interface only.                                             *)
Follows(y, z) ==
    /\ DOMAIN z.tab = DOMAIN y.tab
    /\ \A k \in DOMAIN y.tab : /\ z.tab[k].iface = y.tab[k].iface
                               /\ z.tab[k].att = 1 => y.tab[k].att = 1 \/ Healthy(y.tab[k].iface)

LEMMA FollowsOn ==
    ASSUME NEW a, NEW b, NEW c, Follows(a, b), Follows(b, c)
    PROVE  Follows(a, c) /\ Follows(a, a)
  BY DEF Follows

(* An entry changes, with the slots, so that it keeps or gets a slot, or    *)
(* gives its socket up.                                                     *)
Changes(tab, lib, L, n, k, e) ==
    /\ n \in Nat /\ tab \in [1 .. n -> TabEntry] /\ k \in 1 .. n /\ e \in TabEntry
    /\ EntriesFine(tab, lib)
    /\ \A m \in (1 .. n) \ {k} : tab[m].h # e.h
    /\ \A m \in (1 .. n) \ {k} : HasSlot(tab[m], lib) => HasSlot(tab[m], L)
    /\ IF e.att = 1 THEN e.fd # -1 /\ e.ev = e.fd /\ HasSlot(e, L) ELSE e.fd = -1

TableFine(T, n, L) ==
    T \in [1 .. n -> TabEntry] /\ T \in Seq(TabEntry) /\ Len(T) = n /\ EntriesFine(T, L)

LEMMA EntryChanged ==
    ASSUME NEW tab, NEW lib, NEW L, NEW n, NEW k, NEW e, Changes(tab, lib, L, n, k, e)
    PROVE  TableFine([tab EXCEPT ![k] = e], n, L)
<1> DEFINE T == [tab EXCEPT ![k] = e]
<1>a. n \in Nat /\ tab \in [1 .. n -> TabEntry] /\ k \in 1 .. n /\ e \in TabEntry
      /\ EntriesFine(tab, lib)
      /\ (\A m \in (1 .. n) \ {k} : tab[m].h # e.h)
      /\ (\A m \in (1 .. n) \ {k} : HasSlot(tab[m], lib) => HasSlot(tab[m], L))
      /\ IF e.att = 1 THEN e.fd # -1 /\ e.ev = e.fd /\ HasSlot(e, L) ELSE e.fd = -1
  BY DEF Changes
<1>1. T \in [1 .. n -> TabEntry] /\ T[k] = e /\ \A m \in (1 .. n) \ {k} : T[m] = tab[m]
  BY <1>a
<1> HIDE DEF T
<1>2. DOMAIN T = 1 .. n /\ DOMAIN tab = 1 .. n
  BY <1>1, <1>a
<1>3. ASSUME NEW a \in 1 .. n, NEW b \in 1 .. n, a # b PROVE T[a].h # T[b].h
  BY <1>a, <1>1, <1>2, <1>3 DEF EntriesFine
<1>4. ASSUME NEW m \in 1 .. n
      PROVE  IF T[m].att = 1 THEN T[m].fd # -1 /\ T[m].ev = T[m].fd /\ HasSlot(T[m], L) ELSE T[m].fd = -1
  <2>1. CASE m = k
    BY <2>1, <1>1, <1>a
  <2>2. CASE m # k
    BY <2>2, <1>1, <1>2, <1>a DEF EntriesFine
  <2> QED BY <2>1, <2>2
<1>5. EntriesFine(T, L)
  BY <1>2, <1>3, <1>4 DEF EntriesFine
<1> QED
  BY <1>a, <1>1, <1>5, TableAsSeq DEF T, TableFine

LEMMA RemoveByIndex ==
    ASSUME NEW y, CtxFine(y), NEW k \in DOMAIN y.tab
    PROVE  LET z == RemovePathByIndex(y, k)
           IN  /\ CtxFine(z) /\ Follows(y, z) /\ z.fails = y.fails
               /\ z.tab[k].att = 0 /\ \A m \in DOMAIN y.tab \ {k} : z.tab[m] = y.tab[m]
<1> DEFINE e == y.tab[k]
           d == [e EXCEPT !.fd = -1, !.att = 0, !.ev = -1]
           w == LibDrop(y, e.h)
           z == [w EXCEPT !.tab[k] = d, !.open = @ \ {e.fd}]
           n == Len(y.tab)
<1>1. CtxType(y) /\ SlotsFine(y.lib, y.open) /\ EntriesFine(y.tab, y.lib)
  BY DEF CtxFine
<1>2. /\ e \in TabEntry /\ n \in Nat /\ DOMAIN y.tab = 1 .. n /\ y.tab \in [1 .. n -> TabEntry]
      /\ k \in 1 .. n
  BY <1>1, CtxFields
<1>3. CASE e.fd < 0
  <2>1. e.fd = -1 /\ e.att = 0
    BY <1>1, <1>2, <1>3 DEF TabEntry, EntriesFine
  <2>2. RemovePathByIndex(y, k) = y
    BY <1>3 DEF RemovePathByIndex
  <2> QED BY <2>1, <2>2 DEF Follows
<1>4. CASE ~(e.fd < 0)
  <2>1. e.att = 1 /\ HasSlot(e, y.lib) /\ e.fd \in Nat
    BY <1>1, <1>2, <1>4 DEF TabEntry, EntriesFine
  <2>2. Detaches(y.lib, w.lib, e.h) /\ w = [y EXCEPT !.lib = w.lib]
    BY <1>1, LibDropDetaches
  <2>3. d \in TabEntry /\ d.att = 0 /\ d.fd = -1 /\ d.h = e.h /\ d.iface = e.iface
    BY <1>2 DEF TabEntry
  <2>4. RemovePathByIndex(y, k) = LibFdClosed(z, e.h)
    BY <1>4 DEF RemovePathByIndex
  <2>5. z.lib = w.lib /\ z.tab = [y.tab EXCEPT ![k] = d] /\ z.open = y.open \ {e.fd} /\ z.fails = y.fails
        /\ z \in [tab : {z.tab}, fails : {z.fails}, lib : {z.lib}, open : {z.open}]
    <3> HIDE DEF d, e
    <3> QED BY <1>1, <2>2 DEF CtxType
  <2> DEFINE hh == e.h
             ff == e.fd
  <2>6. SlotOf(y.lib, hh, ff)
    BY <2>1 DEF HasSlot
  <2>7. \A m \in (1 .. n) \ {k} : y.tab[m].h # e.h
    BY <1>1, <1>2 DEF EntriesFine
  <2> HIDE DEF z, w, d, e, hh, ff
  <2>8. w.lib \in Seq(LibSlot) /\ Len(w.lib) = Len(y.lib)
    BY <2>2, <1>1, CtxFields, TableAsSeq DEF Detaches
  <2>9. SlotsFine(w.lib, y.open \ {ff})
    BY <1>1, <2>2, <2>6, DetachesFine DEF hh
  <2> DEFINE F(L) == /\ EntriesFine(z.tab, L) /\ z.tab \in [1 .. n -> TabEntry]
                     /\ z.tab \in Seq(TabEntry) /\ Len(z.tab) = n
  <2>10. ASSUME NEW L, Detaches(y.lib, L, hh) PROVE F(L)
    <3>1. CarriesBut(y.lib, L, hh)
      BY <1>1, <2>6, <2>10, DetachesFine
    <3>2. \A m \in (1 .. n) \ {k} : HasSlot(y.tab[m], y.lib) => HasSlot(y.tab[m], L)
      BY <3>1, <2>7 DEF hh, CarriesBut
    <3>3. \A m \in (1 .. n) \ {k} : y.tab[m].h # d.h
      BY <2>3, <2>7
    <3>4. IF d.att = 1 THEN d.fd # -1 /\ d.ev = d.fd /\ HasSlot(d, L) ELSE d.fd = -1
      BY <2>3
    <3> DEFINE T == y.tab
    <3>5. T \in [1 .. n -> TabEntry] /\ EntriesFine(T, y.lib) /\ n \in Nat /\ k \in 1 .. n /\ d \in TabEntry
      BY <1>1, <1>2, <2>3
    <3>6. Changes(y.tab, y.lib, L, n, k, d)
      BY <3>2, <3>3, <3>4, <3>5 DEF Changes
    <3>7. TableFine([y.tab EXCEPT ![k] = d], n, L)
      BY <3>6, EntryChanged
    <3>8. z.tab = [y.tab EXCEPT ![k] = d]
      BY <2>5
    <3>9. TableFine(z.tab, n, L)
      BY <3>7, <3>8
    <3> QED BY <3>9 DEF TableFine
  <2>11. IsFiniteSet(y.open \ {ff}) /\ y.open \ {ff} \in SUBSET Nat
    BY <1>1, CtxFields, FS_RemoveElement DEF CtxType
  <2>12. CtxType(z)
    BY <1>1, <2>2, <2>5, <2>8, <2>10, <2>11, CtxFields DEF CtxType, hh, ff
  <2>13. SlotsFine(z.lib, z.open)
    BY <2>5, <2>9 DEF ff
  <2> DEFINE v == LibFdClosed(z, e.h)
  <2>14. Detaches(y.lib, v.lib, e.h) /\ v = [z EXCEPT !.lib = v.lib]
    BY <2>2, <2>5, <2>12, <2>13, FdClosedDetaches
  <2> HIDE DEF v
  <2>15. v.lib \in Seq(LibSlot) /\ Len(v.lib) = Len(y.lib)
    BY <2>14, <1>1, CtxFields, TableAsSeq DEF Detaches
  <2>16. SlotsFine(v.lib, y.open \ {ff})
    BY <1>1, <2>14, <2>6, DetachesFine DEF hh
  <2>17. v.tab = z.tab /\ v.open = z.open /\ v.fails = z.fails
    BY <2>14, <2>12 DEF CtxType
  <2>18. CtxType(v)
    BY <2>12, <2>14, <2>15, <1>1, CtxFields DEF CtxType
  <2>19. CtxFine(v)
    BY <2>5, <2>10, <2>14, <2>16, <2>17, <2>18 DEF CtxFine, hh, ff
  <2>20. v.tab[k] = d /\ \A m \in DOMAIN y.tab \ {k} : v.tab[m] = y.tab[m]
    BY <1>2, <2>5, <2>17
  <2>21. DOMAIN v.tab = DOMAIN y.tab
    BY <1>2, <2>5, <2>17
  <2>22. Follows(y, v)
    BY <2>20, <2>21, <2>3 DEF Follows, e
  <2> QED
    BY <2>3, <2>4, <2>5, <2>17, <2>19, <2>20, <2>22 DEF v
<1> QED BY <1>3, <1>4

(* A record made of four parts is right when the parts are. *)
LEMMA CtxFrom ==
    ASSUME NEW z, z \in [tab : {z.tab}, fails : {z.fails}, lib : {z.lib}, open : {z.open}],
           NEW n \in 1 .. MaxPaths, TableFine(z.tab, n, z.lib),
           z.fails \in [Positions -> 0 .. Limit],
           z.lib \in Seq(LibSlot), Len(z.lib) \in 1 .. MaxPaths, SlotsFine(z.lib, z.open),
           IsFiniteSet(z.open), z.open \in SUBSET Nat
    PROVE  CtxFine(z)
<1>1. z.tab \in Seq(TabEntry) /\ Len(z.tab) \in 1 .. MaxPaths /\ EntriesFine(z.tab, z.lib)
  BY DEF TableFine
<1>2. z \in [tab : Seq(TabEntry), fails : [Positions -> 0 .. Limit], lib : Seq(LibSlot), open : SUBSET Nat]
  BY <1>1
<1> QED
  BY <1>1, <1>2 DEF CtxFine, CtxType

LEMMA FollowsFrom ==
    ASSUME NEW y, NEW z, NEW n \in Nat, y.tab \in [1 .. n -> TabEntry], NEW k \in 1 .. n, NEW e,
           z.tab = [y.tab EXCEPT ![k] = e], e.iface = y.tab[k].iface,
           e.att = 1 => y.tab[k].att = 1 \/ Healthy(y.tab[k].iface)
    PROVE  Follows(y, z)
<1>1. DOMAIN y.tab = 1 .. n /\ DOMAIN z.tab = 1 .. n
  OBVIOUS
<1>2. z.tab[k] = e /\ \A m \in (1 .. n) \ {k} : z.tab[m] = y.tab[m]
  OBVIOUS
<1> QED
  BY <1>1, <1>2 DEF Follows

LEMMA Readd ==
    ASSUME CtxType(ctx), NEW y, CtxFine(y), NEW k \in DOMAIN y.tab, y.fails[k] < Limit, NEW f \in Faults,
           Healthy(y.tab[k].iface)
    PROVE  CtxFine(ReaddEntry(y, k, f)) /\ Follows(y, ReaddEntry(y, k, f))
<1> DEFINE n  == Len(y.tab)
           i  == y.tab[k].iface
           fd == NewFd(y)
           h  == NewHandle(y)
           w  == LibAddFd(y, fd, Answer(i, f))
           a  == [y.tab[k] EXCEPT !.fd = fd, !.att = 1, !.h = h]
           z  == [w EXCEPT !.tab[k] = [@ EXCEPT !.fd = fd, !.att = 1, !.h = h], !.open = @ \cup {fd}]
           T(e) == [y.tab EXCEPT ![k] = e]
<1>1. CtxType(y) /\ SlotsFine(y.lib, y.open) /\ EntriesFine(y.tab, y.lib)
  BY DEF CtxFine
<1>2. /\ y.tab[k] \in TabEntry /\ n \in Nat /\ DOMAIN y.tab = 1 .. n /\ y.tab \in [1 .. n -> TabEntry]
      /\ k \in 1 .. n /\ n \in 1 .. MaxPaths /\ y.fails \in [Positions -> 0 .. Limit]
      /\ y.lib \in Seq(LibSlot) /\ Len(y.lib) \in 1 .. MaxPaths /\ y.open \in SUBSET Nat /\ IsFiniteSet(y.open)
  BY <1>1, CtxFields DEF CtxType
<1>3. h \in Nat /\ fd \in Nat /\ fd \notin y.open /\ (\A m \in 1 .. n : y.tab[m].h # h)
      /\ \A j \in DOMAIN y.lib : y.lib[j].h # h
  BY <1>1, <1>2, NewNumbers
<1>4. k \in Positions /\ y.fails[k] \in 0 .. Limit /\ Limit \in Nat
  BY <1>1, <1>2, CtxFields, LinuxPathsAssumption DEF Positions
<1>5. CASE ~RoutePasses(i, f) \/ f = <<"socket", i>>
  <2>1. ReaddEntry(y, k, f) = y
    BY <1>5 DEF ReaddEntry
  <2> QED BY <2>1 DEF Follows
<1>6. CASE RoutePasses(i, f) /\ f # <<"socket", i>> /\ ~CanAddFd(y)
  <2> DEFINE d == [y.tab[k] EXCEPT !.fd = -1, !.att = 0]
             v == [y EXCEPT !.tab[k] = [@ EXCEPT !.fd = -1, !.att = 0]]
  <2>1. ReaddEntry(y, k, f) = v
    BY <1>6 DEF ReaddEntry
  <2>2. d \in TabEntry /\ d.att = 0 /\ d.fd = -1 /\ d.h = y.tab[k].h /\ d.iface = y.tab[k].iface
    BY <1>2 DEF TabEntry
  <2>3. v.tab = T(d) /\ v.lib = y.lib /\ v.open = y.open /\ v.fails = y.fails
        /\ v \in [tab : {v.tab}, fails : {v.fails}, lib : {v.lib}, open : {v.open}]
    BY <1>1 DEF CtxType
  <2> HIDE DEF d, v
  <2>4. Changes(y.tab, y.lib, y.lib, n, k, d)
    BY <1>1, <1>2, <2>2 DEF Changes, EntriesFine
  <2>5. TableFine(v.tab, n, v.lib)
    BY <2>3, <2>4, EntryChanged
  <2> HIDE DEF n
  <2>6. CtxFine(v)
    BY <2>3, <2>5, <1>1, <1>2, CtxFrom
  <2>7. Follows(y, v)
    BY <2>2, <2>3, <1>2, FollowsFrom
  <2> QED BY <2>1, <2>6, <2>7
<1>7. CASE RoutePasses(i, f) /\ f # <<"socket", i>> /\ CanAddFd(y)
  <2>1. ReaddEntry(y, k, f) = IF Outcome(z, h) # "OK" THEN RecoveryRollback(z, k, Outcome(z, h))
                              ELSE [z EXCEPT !.tab[k].ev = fd, !.fails[k] = 0]
    BY <1>7 DEF ReaddEntry
  <2>2. Adds(y.lib, w.lib, h, fd) /\ w = [y EXCEPT !.lib = w.lib]
    <3>1. Result(Answer(i, f)) \in ActivateResult
      BY AnswerType
    <3> QED BY <3>1, <1>1, <1>3, <1>7, LibAddFdAdds
  <2>3. a \in TabEntry /\ a.att = 1 /\ a.fd = fd /\ a.h = h /\ a.iface = i
    <3> HIDE DEF h, fd
    <3> QED BY <1>2, <1>3 DEF TabEntry
  <2>4. z.tab = T(a) /\ z.lib = w.lib /\ z.open = y.open \union {fd} /\ z.fails = y.fails
        /\ z \in [tab : {z.tab}, fails : {z.fails}, lib : {z.lib}, open : {z.open}]
    <3> HIDE DEF h, fd, w
    <3> QED BY <1>1, <2>2 DEF CtxType
  <2> HIDE DEF h, fd, w, z, a, i
  <2>5. /\ SlotsFine(w.lib, y.open \union {fd}) /\ SlotOf(w.lib, h, fd)
        /\ Carries(y.lib, w.lib)
    <3> DEFINE L == w.lib
               lib == y.lib
               open == y.open
    <3>1. SlotsFine(lib, open) /\ Adds(lib, L, h, fd) /\ fd \notin open /\ \A j \in DOMAIN lib : lib[j].h # h
      BY <1>1, <1>3, <2>2
    <3> HIDE DEF L, lib, open
    <3>2. SlotsFine(L, open \union {fd}) /\ Carries(lib, L) /\ SlotOf(L, h, fd)
      BY <3>1, AddsFine
    <3> QED BY <3>2 DEF L, lib, open
  <2>6. w.lib \in Seq(LibSlot) /\ Len(w.lib) \in 1 .. MaxPaths
    BY <2>2 DEF Adds
  <2>7. IsFiniteSet(y.open \union {fd}) /\ y.open \union {fd} \in SUBSET Nat /\ (y.open \union {fd}) \ {fd} = y.open
    BY <1>2, <1>3, FS_AddElement
  <2>8. CASE Outcome(z, h) = "OK"
    <3> DEFINE b == [a EXCEPT !.ev = fd]
               v == [z EXCEPT !.tab[k].ev = fd, !.fails[k] = 0]
    <3>1. b \in TabEntry /\ b.att = 1 /\ b.fd = fd /\ b.h = h /\ b.iface = i /\ b.ev = fd
      BY <2>3, <1>3 DEF TabEntry
    <3>2. v.tab = T(b) /\ v.lib = w.lib /\ v.open = y.open \union {fd} /\ v.fails = [y.fails EXCEPT ![k] = 0]
          /\ v \in [tab : {v.tab}, fails : {v.fails}, lib : {v.lib}, open : {v.open}]
      BY <2>4, <1>2
    <3> HIDE DEF b, v
    <3>3. HasSlot(b, w.lib) /\ fd # -1
      BY <3>1, <2>5, <1>3 DEF HasSlot
    <3>4. Changes(y.tab, y.lib, w.lib, n, k, b)
      BY <1>1, <1>2, <1>3, <2>5, <3>1, <3>3 DEF Changes, Carries
    <3>5. TableFine(v.tab, n, v.lib)
      BY <3>2, <3>4, EntryChanged
    <3>6. v.fails \in [Positions -> 0 .. Limit]
      BY <3>2, <1>2, <1>4
    <3> HIDE DEF n
    <3>7. CtxFine(v)
      BY <3>2, <3>5, <3>6, <1>2, <2>5, <2>6, <2>7, CtxFrom
    <3>8. Follows(y, v)
      <4>1. b.iface = y.tab[k].iface
        BY <3>1 DEF i
      <4>2. DOMAIN v.tab = DOMAIN y.tab /\ v.tab[k] = b /\ \A m \in DOMAIN y.tab \ {k} : v.tab[m] = y.tab[m]
        BY <3>2, <1>2
      <4> QED BY <4>1, <4>2 DEF Follows
    <3>9. ReaddEntry(y, k, f) = v
      BY <2>1, <2>8 DEF v
    <3> QED BY <3>7, <3>8, <3>9
  <2>9. CASE Outcome(z, h) # "OK"
    <3> DEFINE o == Outcome(z, h)
               c == [a EXCEPT !.fd = -1, !.att = 0]
               u == LibDrop(z, h)
               v == RecoveryRollback(z, k, o)
               g == IF o = "PERMANENT_FAIL" THEN Limit ELSE y.fails[k] + 1
    <3>1. c \in TabEntry /\ c.att = 0 /\ c.fd = -1 /\ c.h = h /\ c.iface = i
      BY <2>3 DEF TabEntry
    <3>2. CtxType(z)
      <4>1. T(a) \in [1 .. n -> TabEntry]
        BY <1>2, <2>3
      <4>2. T(a) \in Seq(TabEntry) /\ Len(T(a)) = n
        BY <4>1, <1>2, TableAsSeq
      <4> HIDE DEF T, n
      <4> QED BY <4>2, <1>2, <2>4, <2>6, <2>7 DEF CtxType
    <3>3. Detaches(z.lib, u.lib, h) /\ u = [z EXCEPT !.lib = u.lib]
      BY <3>2, <2>4, <2>5, LibDropDetaches
    <3>4. z.tab[k] = a
      BY <1>2, <2>4
    <3>5. v = [u EXCEPT !.tab[k] = c, !.open = @ \ {fd}, !.fails[k] = IF o = "PERMANENT_FAIL" THEN Limit ELSE @ + 1]
      BY <2>3, <3>4 DEF RecoveryRollback
    <3>6. g \in 0 .. Limit
      BY <1>4
    <3>a. u.fails = y.fails /\ u.tab = z.tab /\ u.open = z.open
          /\ u \in [tab : {u.tab}, fails : {u.fails}, lib : {u.lib}, open : {u.open}]
      <4> HIDE DEF u
      <4> QED BY <3>3, <2>4
    <3>b. v = [u EXCEPT !.tab[k] = c, !.open = @ \ {fd}, !.fails[k] = g]
      <4> HIDE DEF u, c, v
      <4> QED BY <3>5, <3>a
    <3>c. T(c) = [z.tab EXCEPT ![k] = c]
      BY <2>4, <1>2
    <3> HIDE DEF u, c, o, g
    <3>7. v.tab = T(c) /\ v.lib = u.lib /\ v.open = y.open /\ v.fails = [y.fails EXCEPT ![k] = g]
          /\ v \in [tab : {v.tab}, fails : {v.fails}, lib : {v.lib}, open : {v.open}]
      <4>1. v.tab = [z.tab EXCEPT ![k] = c] /\ v.lib = u.lib /\ v.open = z.open \ {fd} /\ v.fails = [y.fails EXCEPT ![k] = g]
            /\ v \in [tab : {v.tab}, fails : {v.fails}, lib : {v.lib}, open : {v.open}]
        <5> HIDE DEF v
        <5> QED BY <3>a, <3>b
      <4> QED BY <4>1, <3>c, <2>4, <2>7
    <3> HIDE DEF v
    <3>8. SlotsFine(u.lib, y.open) /\ CarriesBut(w.lib, u.lib, h)
      BY <3>3, <2>4, <2>5, <2>7, DetachesFine
    <3>9. Changes(y.tab, y.lib, u.lib, n, k, c)
      BY <1>1, <1>2, <1>3, <2>5, <3>1, <3>8 DEF Changes, Carries, CarriesBut
    <3>10. TableFine(v.tab, n, v.lib)
      BY <3>7, <3>9, EntryChanged
    <3>11. v.fails \in [Positions -> 0 .. Limit]
      BY <3>6, <3>7, <1>2, <1>4
    <3>12. u.lib \in Seq(LibSlot) /\ Len(u.lib) \in 1 .. MaxPaths
      BY <3>3, <2>4, <2>6, TableAsSeq DEF Detaches
    <3> HIDE DEF n
    <3>13. CtxFine(v)
      BY <3>7, <3>8, <3>10, <3>11, <3>12, <1>2, CtxFrom
    <3>14. Follows(y, v)
      <4>1. c.iface = y.tab[k].iface
        BY <3>1 DEF i
      <4>2. DOMAIN v.tab = DOMAIN y.tab /\ v.tab[k] = c /\ \A m \in DOMAIN y.tab \ {k} : v.tab[m] = y.tab[m]
        BY <3>7, <1>2
      <4> QED BY <4>1, <4>2, <3>1 DEF Follows
    <3>15. ReaddEntry(y, k, f) = v
      BY <2>1, <2>9 DEF v, o
    <3> QED BY <3>13, <3>14, <3>15
  <2> QED BY <2>8, <2>9
<1> QED BY <1>5, <1>6, <1>7

LEMMA LibMovesFine ==
    ASSUME NEW y, CtxFine(y), NEW L, AllMove(y.lib, L), NEW z, z = [y EXCEPT !.lib = L]
    PROVE  CtxFine(z) /\ Follows(y, z) /\ z.tab = y.tab /\ z.fails = y.fails /\ z.open = y.open
<1>1. CtxType(y) /\ SlotsFine(y.lib, y.open) /\ EntriesFine(y.tab, y.lib)
  BY DEF CtxFine
<1>2. z.tab = y.tab /\ z.fails = y.fails /\ z.open = y.open /\ z.lib = L
  BY <1>1 DEF CtxType
<1>3. L \in Seq(LibSlot) /\ Len(L) = Len(y.lib)
  BY <1>1, CtxFields, TableAsSeq DEF AllMove
<1>4. CtxType(z)
  BY <1>1, <1>2, <1>3 DEF CtxType
<1>5. SlotsFine(z.lib, z.open) /\ EntriesFine(z.tab, z.lib)
  BY <1>1, <1>2, AllMoveFine
<1> QED
  BY <1>2, <1>4, <1>5 DEF CtxFine, Follows

LEMMA TryReaddFine ==
    ASSUME CtxType(ctx), NEW y, CtxFine(y), NEW i, NEW f \in Faults
    PROVE  CtxFine(TryReadd(y, i, f)) /\ Follows(y, TryReadd(y, i, f))
<1>1. CASE UpAndRunning(i) /\ UsableIp(i, f) /\ Candidates(y, i) # {}
  <2> DEFINE k == Least(Candidates(y, i))
  <2>1. Candidates(y, i) \in SUBSET Nat
    BY CtxFields DEF CtxFine, Candidates
  <2>2. k \in Candidates(y, i)
    BY <1>1, <2>1, PathsLeast
  <2>3. k \in DOMAIN y.tab /\ y.tab[k].iface = i /\ y.fails[k] < Limit
    BY <2>2 DEF Candidates
  <2>4. Healthy(y.tab[k].iface)
    BY <1>1, <2>3 DEF Healthy, UsableIp
  <2>5. TryReadd(y, i, f) = ReaddEntry(y, k, f)
    BY <1>1 DEF TryReadd
  <2> HIDE DEF k
  <2> QED BY <2>3, <2>4, <2>5, Readd
<1>2. CASE ~(UpAndRunning(i) /\ UsableIp(i, f) /\ Candidates(y, i) # {})
  <2>1. TryReadd(y, i, f) = y
    BY <1>2 DEF TryReadd
  <2> QED BY <2>1 DEF Follows
<1> QED BY <1>1, <1>2

LEMMA TryReactivateFine ==
    ASSUME NEW y, CtxFine(y), NEW i, NEW f \in Faults
    PROVE  LET z == TryReactivate(y, i, f)
           IN  CtxFine(z) /\ Follows(y, z) /\ z.tab = y.tab
<1> DEFINE mine == {y.tab[k].h : k \in {k \in DOMAIN y.tab : y.tab[k].iface = i}}
           again(p) == IF /\ PublicStatus(p.state) \in {"DEGRADED", "CLOSED"}
                          /\ p.xquic_path_live = 0 /\ p.platform_attached = 1
                       THEN OnManualReactivate(p, Result(Answer(i, f)), 1)
                       ELSE p
           L == [j \in DOMAIN y.lib |->
                    IF y.lib[j].h \in mine THEN [y.lib[j] EXCEPT !.p = again(@)] ELSE y.lib[j]]
           z == [y EXCEPT !.lib = L]
<1>1. TryReactivate(y, i, f) = IF RoutePasses(i, f) /\ st.state = "ESTABLISHED" /\ st.ready THEN z ELSE y
  BY DEF TryReactivate
<1>2. ASSUME NEW j \in DOMAIN y.lib
      PROVE  /\ L[j] \in LibSlot /\ L[j].h = y.lib[j].h /\ L[j].sock = y.lib[j].sock
             /\ Moved(y.lib[j].p, L[j].p)
  <2> DEFINE q == again(y.lib[j].p)
  <2>1. y.lib[j] \in LibSlot /\ SlotFine(y.lib[j].p)
    BY CtxFields DEF CtxFine, SlotsFine
  <2>2. Moved(y.lib[j].p, y.lib[j].p)
    BY <2>1 DEF Moved
  <2>3. Moved(y.lib[j].p, OnManualReactivate(y.lib[j].p, Result(Answer(i, f)), 1))
    BY <2>1, AnswerType, ActivateMoves
  <2>4. Moved(y.lib[j].p, q) /\ q \in PathEntry
    BY <2>2, <2>3 DEF Moved, SlotFine
  <2>5. L[j] = IF y.lib[j].h \in mine THEN [y.lib[j] EXCEPT !.p = q] ELSE y.lib[j]
    BY SMTT(90)
  <2> HIDE DEF q, L, mine
  <2> QED
    BY <2>1, <2>2, <2>4, <2>5 DEF LibSlot
<1> HIDE DEF L
<1>3. L \in [DOMAIN y.lib -> LibSlot]
  BY <1>2 DEF L
<1>4. AllMove(y.lib, L)
  BY <1>2, <1>3 DEF AllMove
<1>5. CtxFine(z) /\ Follows(y, z) /\ z.tab = y.tab
  BY <1>4, LibMovesFine
<1>6. CtxFine(y) /\ Follows(y, y)
  BY DEF Follows
<1> HIDE DEF z
<1> QED BY <1>1, <1>5, <1>6

LEMMA ReaddOrReactivateFine ==
    ASSUME CtxType(ctx), NEW y, CtxFine(y), NEW i, NEW f \in Faults
    PROVE  LET z == ReaddOrReactivate(y, i, f) IN CtxFine(z) /\ Follows(y, z)
<1> DEFINE w == TryReadd(y, i, f)
           z == TryReactivate(w, i, f)
<1>1. CtxFine(w) /\ Follows(y, w)
  BY TryReaddFine
<1> HIDE DEF w
<1>2. CtxFine(z) /\ Follows(w, z)
  BY <1>1, TryReactivateFine
<1> HIDE DEF z
<1>3. Follows(y, z)
  BY <1>1, <1>2, FollowsOn
<1> QED
  BY <1>1, <1>2, <1>3 DEF ReaddOrReactivate, w, z

LEMMA RecoverVisitFine ==
    ASSUME CtxType(ctx), NEW y, CtxFine(y), NEW y0, NEW k, NEW f \in Faults
    PROVE  LET z == RecoverVisit(y, y0, k, f) IN CtxFine(z) /\ Follows(y, z)
<1> DEFINE i == y.tab[k].iface
<1>1. CtxFine(y) /\ Follows(y, y)
  BY DEF Follows
<1>2. CtxFine(TryReadd(y, i, f)) /\ Follows(y, TryReadd(y, i, f))
  BY TryReaddFine
<1>3. CtxFine(TryReactivate(y, i, f)) /\ Follows(y, TryReactivate(y, i, f))
  BY TryReactivateFine
<1>4. RecoverVisit(y, y0, k, f) \in {y, TryReadd(y, i, f), TryReactivate(y, i, f)}
  BY DEF RecoverVisit
<1> QED
  BY <1>1, <1>2, <1>3, <1>4

-----------------------------------------------------------------------------
(* The loops over the table.  A loop visits the entries in order; its kind, *)
(* and what it is called with, are the record c.                            *)

Body(c, y, v, k) ==
    IF c.kind = "drop" THEN IF y.tab[k].iface = c.i THEN RemovePathByIndex(v, k) ELSE v
    ELSE IF c.kind = "recover" THEN RecoverVisit(v, y, k, c.f)
    ELSE IF v.tab[k].fd < 0 THEN TryReadd(v, y.tab[k].iface, c.f) ELSE v

Loops(c, y, g, n) == g = [k \in 0 .. n |-> IF k = 0 THEN y ELSE Body(c, y, g[k - 1], k)]

LEMMA LoopExists ==
    ASSUME NEW c, NEW y, NEW n \in Nat
    PROVE  \E g : Loops(c, y, g, n)
<1> DEFINE P == {m \in Nat : \E g : Loops(c, y, g, m)}
<1>1. 0 \in P
  <2> DEFINE g == [k \in 0 .. 0 |-> y]
  <2>1. Loops(c, y, g, 0)
    BY DEF Loops
  <2> QED BY <2>1
<1>2. ASSUME NEW m \in P PROVE m + 1 \in P
  <2>1. PICK g : Loops(c, y, g, m)
    OBVIOUS
  <2> DEFINE d == [k \in 0 .. m + 1 |-> IF k = 0 THEN y ELSE Body(c, y, g[k - 1], k)]
  <2>2. m \in Nat
    OBVIOUS
  <2>3. \A k \in 0 .. m : d[k] = g[k] /\ k \in 0 .. m + 1
    <3>1. \A k \in 0 .. m : g[k] = IF k = 0 THEN y ELSE Body(c, y, g[k - 1], k)
      BY <2>1 DEF Loops
    <3> QED BY <3>1, <2>2
  <2>4. \A k \in 0 .. m + 1 : k # 0 => k - 1 \in 0 .. m
    BY <2>2
  <2>5. \A k \in 0 .. m + 1 : k # 0 => d[k - 1] = g[k - 1]
    BY <2>3, <2>4
  <2>6. d = [k \in 0 .. m + 1 |-> IF k = 0 THEN y ELSE Body(c, y, d[k - 1], k)]
    BY <2>5
  <2> HIDE DEF d
  <2>7. Loops(c, y, d, m + 1)
    BY <2>6 DEF Loops
  <2> QED BY <2>2, <2>7
<1> HIDE DEF P
<1>3. P \in SUBSET Nat
  BY DEF P
<1>4. n \in P
  BY <1>1, <1>2, <1>3, PathsInduct
<1> QED BY <1>4 DEF P

LEMMA LoopFine ==
    ASSUME CtxType(ctx), NEW y, CtxFine(y), NEW c, c.f \in Faults, NEW g, Loops(c, y, g, Len(y.tab))
    PROVE  \A k \in 0 .. Len(y.tab) : CtxFine(g[k]) /\ Follows(y, g[k])
<1> DEFINE n == Len(y.tab)
           P == {m \in Nat : m <= n => CtxFine(g[m]) /\ Follows(y, g[m])}
<1>1. n \in Nat /\ DOMAIN y.tab = 1 .. n
  BY CtxFields DEF CtxFine
<1>2. \A k \in 0 .. n : g[k] = IF k = 0 THEN y ELSE Body(c, y, g[k - 1], k)
  BY DEF Loops
<1>3. 0 \in P
  <2>1. g[0] = y
    BY <1>1, <1>2
  <2> QED BY <2>1 DEF Follows
<1> HIDE DEF n
<1>4. ASSUME NEW m \in P PROVE m + 1 \in P
  <2> SUFFICES ASSUME m + 1 <= n PROVE CtxFine(g[m + 1]) /\ Follows(y, g[m + 1])
    OBVIOUS
  <2> DEFINE v == g[m]
             k == m + 1
             z == Body(c, y, v, k)
  <2>1. m \in Nat /\ CtxFine(v) /\ Follows(y, v) /\ k \in 1 .. n
    BY <1>1
  <2>2. g[k] = z
    <3>1. k \in 0 .. n /\ k # 0 /\ k - 1 = m
      BY <2>1
    <3> QED BY <3>1, <1>2
  <2> HIDE DEF k, v
  <2>3. k \in DOMAIN v.tab
    BY <1>1, <2>1 DEF Follows
  <2>4. CtxFine(z) /\ Follows(v, z)
    <3>1. CtxFine(v) /\ Follows(v, v)
      BY <2>1 DEF Follows
    <3>2. CtxFine(RemovePathByIndex(v, k)) /\ Follows(v, RemovePathByIndex(v, k))
      BY <2>1, <2>3, RemoveByIndex
    <3>3. CtxFine(RecoverVisit(v, y, k, c.f)) /\ Follows(v, RecoverVisit(v, y, k, c.f))
      BY <2>1, RecoverVisitFine
    <3>4. CtxFine(TryReadd(v, y.tab[k].iface, c.f)) /\ Follows(v, TryReadd(v, y.tab[k].iface, c.f))
      BY <2>1, TryReaddFine
    <3> QED BY <3>1, <3>2, <3>3, <3>4 DEF Body
  <2> HIDE DEF z
  <2>5. Follows(y, z)
    BY <2>1, <2>4, FollowsOn
  <2> QED BY <2>2, <2>4, <2>5 DEF k
<1> HIDE DEF P
<1>5. P = Nat
  <2>1. P \in SUBSET Nat
    BY DEF P
  <2> QED BY <2>1, <1>3, <1>4, PathsInduct
<1>6. \A k \in 0 .. n : CtxFine(g[k]) /\ Follows(y, g[k])
  BY <1>1, <1>5 DEF P
<1> QED BY <1>6 DEF n

LEMMA RecoverAllFine ==
    ASSUME CtxType(ctx), NEW y, CtxFine(y), NEW f \in Faults
    PROVE  /\ CtxFine(RecoverAll(y, f)) /\ Follows(y, RecoverAll(y, f))
           /\ CtxFine(ReaddClosed(y, f)) /\ Follows(y, ReaddClosed(y, f))
<1> DEFINE n == Len(y.tab)
           c == [kind |-> "recover", i |-> 0, f |-> f]
           d == [kind |-> "readd", i |-> 0, f |-> f]
           R(g) == g = [k \in 0 .. n |-> IF k = 0 THEN y ELSE RecoverVisit(g[k - 1], y, k, f)]
           S(g) == g = [k \in 0 .. n |->
                          IF k = 0 THEN y
                          ELSE IF g[k - 1].tab[k].fd < 0 THEN TryReadd(g[k - 1], y.tab[k].iface, f)
                          ELSE g[k - 1]]
<1>1. n \in Nat /\ n \in 0 .. n
  BY CtxFields DEF CtxFine
<1>2. \A g : R(g) <=> Loops(c, y, g, n)
  BY DEF Loops, Body
<1>3. \A g : S(g) <=> Loops(d, y, g, n)
  BY DEF Loops, Body
<1>4. RecoverAll(y, f) = (CHOOSE g : R(g))[n]
  BY DEF RecoverAll
<1>5. ReaddClosed(y, f) = (CHOOSE g : S(g))[n]
  BY DEF ReaddClosed
<1>6. c.f \in Faults /\ d.f \in Faults
  OBVIOUS
<1> HIDE DEF c, d, n
<1>7. (\E g : R(g)) /\ \E g : S(g)
  BY ZenonT(90), <1>1, <1>2, <1>3, LoopExists
<1>8. Loops(c, y, CHOOSE g : R(g), n) /\ Loops(d, y, CHOOSE g : S(g), n)
  BY <1>2, <1>3, <1>7
<1>9. \A g : Loops(c, y, g, n) \/ Loops(d, y, g, n) => CtxFine(g[n]) /\ Follows(y, g[n])
  BY <1>1, <1>6, LoopFine DEF n
<1> QED
  BY <1>4, <1>5, <1>8, <1>9

LEMMA DropFine ==
    ASSUME CtxType(ctx), NEW y, CtxFine(y), NEW i
    PROVE  LET z == DropPathsByIfname(y, i)
           IN  /\ CtxFine(z) /\ Follows(y, z)
               /\ \A k \in DOMAIN z.tab : z.tab[k].iface = i => z.tab[k].att = 0
<1> DEFINE n == Len(y.tab)
           c == [kind |-> "drop", i |-> i, f |-> NoFault]
           R(g) == g = [k \in 0 .. n |->
                          IF k = 0 THEN y
                          ELSE IF y.tab[k].iface = i THEN RemovePathByIndex(g[k - 1], k) ELSE g[k - 1]]
<1>1. n \in Nat /\ DOMAIN y.tab = 1 .. n
  BY CtxFields DEF CtxFine
<1>2. \A g : R(g) <=> Loops(c, y, g, n)
  BY DEF Loops, Body
<1>3. DropPathsByIfname(y, i) = (CHOOSE g : R(g))[n]
  BY DEF DropPathsByIfname
<1>4. c.f \in Faults
  BY DEF Faults
<1> DEFINE g == CHOOSE g : R(g)
<1>5. Loops(c, y, g, n)
  <2> HIDE DEF c, n
  <2>1. \E a : R(a)
    BY <1>1, <1>2, LoopExists
  <2> QED BY <1>2, <2>1
<1>6. \A k \in 0 .. n : CtxFine(g[k]) /\ Follows(y, g[k])
  <2> HIDE DEF c, g
  <2> QED BY <1>4, <1>5, LoopFine
<1> HIDE DEF g
<1>7. \A k \in 0 .. n : g[k] = IF k = 0 THEN y
                               ELSE IF y.tab[k].iface = i THEN RemovePathByIndex(g[k - 1], k) ELSE g[k - 1]
  BY <1>5 DEF Loops, Body
<1> HIDE DEF n, c
<1> DEFINE P == {m \in Nat : m <= n => \A k \in 1 .. m : y.tab[k].iface = i => g[m].tab[k].att = 0}
<1>8. 0 \in P
  OBVIOUS
<1>9. ASSUME NEW m \in P PROVE m + 1 \in P
  <2> SUFFICES ASSUME m + 1 <= n, NEW k \in 1 .. m + 1, y.tab[k].iface = i PROVE g[m + 1].tab[k].att = 0
    OBVIOUS
  <2> DEFINE v == g[m]
             o == m + 1
  <2>1. m \in Nat /\ m \in 0 .. n /\ o \in 0 .. n /\ o \in 1 .. n /\ o # 0 /\ o - 1 = m
    BY <1>1
  <2>2. g[o] = IF y.tab[o].iface = i THEN RemovePathByIndex(v, o) ELSE v
    BY <2>1, <1>7
  <2>3. CtxFine(v) /\ DOMAIN v.tab = 1 .. n
    BY <2>1, <1>1, <1>6 DEF Follows
  <2>a. \A a \in 1 .. m : y.tab[a].iface = i => v.tab[a].att = 0
    BY <2>1, <1>1
  <2>b. k \in Nat /\ (k # o => k \in 1 .. m /\ k \in 1 .. n)
    <3> HIDE DEF P, v
    <3> QED BY <2>1, <1>1
  <2> HIDE DEF o, v, P
  <2>c. g[m + 1] = g[o]
    BY DEF o
  <2>4. CASE k = o
    <3>1. RemovePathByIndex(v, o).tab[o].att = 0
      BY <2>1, <2>3, RemoveByIndex
    <3> QED BY <3>1, <2>c, <2>2, <2>4
  <2>5. CASE k # o
    <3>1. k \in 1 .. m /\ k \in 1 .. n
      BY <2>b, <2>5
    <3>2. v.tab[k].att = 0
      BY <3>1, <2>a
    <3>3. RemovePathByIndex(v, o).tab[k] = v.tab[k]
      <4>1. \A a \in DOMAIN v.tab \ {o} : RemovePathByIndex(v, o).tab[a] = v.tab[a]
        BY <2>1, <2>3, RemoveByIndex
      <4> QED BY <4>1, <3>1, <2>3, <2>5
    <3> QED BY <2>c, <2>2, <3>2, <3>3
  <2> QED BY <2>4, <2>5
<1> HIDE DEF P
<1>10. P = Nat
  <2>1. P \in SUBSET Nat
    BY DEF P
  <2> QED BY <2>1, <1>8, <1>9, PathsInduct
<1>11. \A k \in 1 .. n : y.tab[k].iface = i => g[n].tab[k].att = 0
  BY <1>1, <1>10 DEF P
<1>12. n \in 0 .. n /\ CtxFine(g[n]) /\ Follows(y, g[n])
  BY <1>1, <1>6
<1>13. \A k \in DOMAIN g[n].tab : g[n].tab[k].iface = i => g[n].tab[k].att = 0
  BY <1>1, <1>11, <1>12 DEF Follows
<1> QED
  BY <1>3, <1>12, <1>13 DEF g

LEMMA OneSlotFine ==
    ASSUME NEW y, CtxFine(y), NEW j \in DOMAIN y.lib, NEW q, Moved(y.lib[j].p, q),
           NEW z, z = [y EXCEPT !.lib[j].p = q]
    PROVE  CtxFine(z) /\ Follows(y, z)
<1> DEFINE L == [y.lib EXCEPT ![j] = [y.lib[j] EXCEPT !.p = q]]
<1>1. y.lib \in [DOMAIN y.lib -> LibSlot] /\ y.lib[j] \in LibSlot /\ q \in PathEntry
      /\ \A m \in DOMAIN y.lib : SlotFine(y.lib[m].p)
  BY CtxFields DEF CtxFine, SlotsFine, Moved, SlotFine
<1>2. [y.lib[j] EXCEPT !.p = q] \in LibSlot /\ [y.lib[j] EXCEPT !.p = q].h = y.lib[j].h
      /\ [y.lib[j] EXCEPT !.p = q].sock = y.lib[j].sock /\ [y.lib[j] EXCEPT !.p = q].p = q
  BY <1>1 DEF LibSlot
<1>3. AllMove(y.lib, L)
  BY <1>1, <1>2 DEF AllMove, Moved
<1>4. z = [y EXCEPT !.lib = L]
  BY DEF CtxFine, CtxType
<1> HIDE DEF L
<1> QED BY <1>3, <1>4, LibMovesFine

LEMMA ZeroFails ==
    ASSUME NEW y, CtxFine(y), NEW z, z = [y EXCEPT !.fails = [k \in Positions |-> 0]]
    PROVE  CtxFine(z) /\ Follows(y, z)
<1>1. CtxType(y)
  BY DEF CtxFine
<1>2. z.tab = y.tab /\ z.lib = y.lib /\ z.open = y.open /\ z.fails = [k \in Positions |-> 0]
  BY <1>1 DEF CtxType
<1>3. 0 \in 0 .. Limit
  BY LinuxPathsAssumption
<1>4. CtxType(z)
  BY <1>1, <1>2, <1>3 DEF CtxType
<1> QED
  BY <1>2, <1>4 DEF CtxFine, Follows

LEMMA ResetFine ==
    ASSUME NEW y, CtxFine(y)
    PROVE  CtxFine(Reset(y)) /\ Follows(y, Reset(y)) /\ DOMAIN Reset(y).lib = DOMAIN y.lib
<1> DEFINE q(j) == OnConnReset(y.lib[j].p)
           L == [j \in DOMAIN y.lib |-> [y.lib[j] EXCEPT !.p = q(j)]]
<1>1. Reset(y) = [y EXCEPT !.lib = L]
  BY DEF Reset
<1>2. ASSUME NEW j \in DOMAIN y.lib
      PROVE  /\ L[j] \in LibSlot /\ L[j].h = y.lib[j].h /\ L[j].sock = y.lib[j].sock
             /\ Moved(y.lib[j].p, L[j].p)
  <2>1. y.lib[j] \in LibSlot /\ SlotFine(y.lib[j].p)
    BY CtxFields DEF CtxFine, SlotsFine
  <2>2. Moved(y.lib[j].p, q(j)) /\ q(j) \in PathEntry
    BY <2>1, EventMoves DEF Moved, SlotFine
  <2> HIDE DEF q
  <2> QED
    BY <2>1, <2>2 DEF LibSlot
<1>3. DOMAIN Reset(y).lib = DOMAIN y.lib
  BY <1>1 DEF CtxFine, CtxType
<1> HIDE DEF L
<1>4. AllMove(y.lib, L)
  BY <1>2 DEF AllMove, L
<1> QED BY <1>1, <1>3, <1>4, LibMovesFine

-----------------------------------------------------------------------------
(* The control API's two commands. *)

LEMMA WithoutFine ==
    ASSUME NEW n \in Nat, n > 1, NEW tab \in [1 .. n -> TabEntry], NEW lib, NEW L, EntriesFine(tab, lib),
           NEW k \in 1 .. n, CarriesBut(lib, L, tab[k].h)
    PROVE  /\ TableFine(Without(tab, k), n - 1, L)
           /\ \A j \in 1 .. n - 1 : \E m \in 1 .. n : Without(tab, k)[j] = tab[m]
<1> DEFINE o(j) == IF j < k THEN j ELSE j + 1
           T == Without(tab, k)
<1>1. Len(tab) = n /\ DOMAIN tab = 1 .. n
  BY TableAsSeq
<1>2. T = [j \in 1 .. n - 1 |-> tab[o(j)]]
  BY <1>1 DEF Without
<1>3. \A j \in 1 .. n - 1 : o(j) \in 1 .. n /\ o(j) # k
  OBVIOUS
<1>4. \A j, m \in 1 .. n - 1 : j # m => o(j) # o(m)
  OBVIOUS
<1> HIDE DEF o, T
<1>5. T \in [1 .. n - 1 -> TabEntry]
  BY <1>2, <1>3
<1>6. T \in Seq(TabEntry) /\ Len(T) = n - 1 /\ DOMAIN T = 1 .. n - 1
  BY <1>5, TableAsSeq
<1>7. \A j, m \in 1 .. n - 1 : j # m => T[j].h # T[m].h
  BY <1>1, <1>2, <1>3, <1>4 DEF EntriesFine
<1>8. ASSUME NEW j \in 1 .. n - 1
      PROVE  IF T[j].att = 1 THEN T[j].fd # -1 /\ T[j].ev = T[j].fd /\ HasSlot(T[j], L) ELSE T[j].fd = -1
  <2> DEFINE m == o(j)
  <2>1. T[j] = tab[m] /\ m \in 1 .. n /\ m # k
    BY <1>2, <1>3
  <2> HIDE DEF m
  <2>2. tab[m].h # tab[k].h
    BY <2>1, <1>1 DEF EntriesFine
  <2>3. IF tab[m].att = 1 THEN tab[m].fd # -1 /\ tab[m].ev = tab[m].fd /\ HasSlot(tab[m], lib) ELSE tab[m].fd = -1
    BY <2>1, <1>1 DEF EntriesFine
  <2>4. HasSlot(tab[m], lib) => HasSlot(tab[m], L)
    BY <2>2 DEF CarriesBut
  <2> QED BY <2>1, <2>3, <2>4
<1>9. EntriesFine(T, L)
  BY <1>6, <1>7, <1>8 DEF EntriesFine
<1>10. TableFine(T, n - 1, L)
  BY <1>5, <1>6, <1>9 DEF TableFine
<1>11. \A j \in 1 .. n - 1 : \E m \in 1 .. n : T[j] = tab[m]
  BY <1>2, <1>3
<1> QED BY <1>10, <1>11 DEF T

Closing(lib, y, hd) == CtxType(y) /\ SlotsFine(y.lib, y.open) /\ Detaches(lib, y.lib, hd)
Closed(lib, y, hd, z) == Detaches(lib, z.lib, hd) /\ z = [y EXCEPT !.lib = z.lib]

LEMMA FdClosedCloses ==
    ASSUME NEW lib, NEW y, NEW hd, Closing(lib, y, hd)
    PROVE  Closed(lib, y, hd, LibFdClosed(y, hd))
  BY FdClosedDetaches DEF Closing, Closed

LEMMA RemovePathFine ==
    ASSUME NEW y, CtxFine(y), NEW k \in DOMAIN y.tab, Len(y.tab) > 1
    PROVE  LET h == y.tab[k].h
               z == LibFdClosed(RemoveEntry(LibDrop(y, h), k), h)
           IN  CtxFine(z) /\ \A i : Attached(z, i) => Attached(y, i)
<1> DEFINE n == Len(y.tab)
           e == y.tab[k]
           h == e.h
           w == LibDrop(y, h)
           u == RemoveEntry(w, k)
           T == Without(y.tab, k)
           O == y.open \ {e.fd}
           z == LibFdClosed(u, h)
<1>1. CtxType(y) /\ SlotsFine(y.lib, y.open) /\ EntriesFine(y.tab, y.lib)
  BY DEF CtxFine
<1>2. /\ e \in TabEntry /\ n \in Nat /\ n > 1 /\ n \in 1 .. MaxPaths /\ DOMAIN y.tab = 1 .. n /\ y.tab \in [1 .. n -> TabEntry]
      /\ k \in 1 .. n /\ y.fails \in [Positions -> 0 .. Limit] /\ MaxPaths \in Nat
      /\ y.lib \in Seq(LibSlot) /\ Len(y.lib) \in 1 .. MaxPaths /\ y.open \in SUBSET Nat /\ IsFiniteSet(y.open)
  BY <1>1, CtxFields DEF CtxType
<1>3. Detaches(y.lib, w.lib, h) /\ w = [y EXCEPT !.lib = w.lib]
  BY <1>1, LibDropDetaches
<1>4. u = [w EXCEPT !.tab = Without(@, k), !.open = @ \ {w.tab[k].fd}]
  BY DEF RemoveEntry
<1> HIDE DEF w, u, z
<1>5. w.tab = y.tab /\ w.open = y.open /\ w.fails = y.fails
      /\ w \in [tab : {w.tab}, fails : {w.fails}, lib : {w.lib}, open : {w.open}]
  BY <1>1, <1>3 DEF CtxType
<1>6. u.tab = T /\ u.open = O /\ u.fails = y.fails /\ u.lib = w.lib
      /\ u \in [tab : {u.tab}, fails : {u.fails}, lib : {u.lib}, open : {u.open}]
  <2> HIDE DEF T
  <2>1. T = Without(w.tab, k) /\ O = w.open \ {w.tab[k].fd}
    BY <1>5 DEF T
  <2> HIDE DEF O
  <2> QED BY <2>1, <1>4, <1>5
<1>7. ASSUME NEW L, Detaches(y.lib, L, h)
      PROVE  SlotsFine(L, O) /\ CarriesBut(y.lib, L, h) /\ L \in Seq(LibSlot) /\ Len(L) \in 1 .. MaxPaths
  <2>1. SlotsFine(L, y.open) /\ CarriesBut(y.lib, L, h)
    BY <1>1, <1>7, DetachesAny
  <2>2. L \in Seq(LibSlot) /\ Len(L) \in 1 .. MaxPaths
    BY <1>2, <1>7, TableAsSeq DEF Detaches
  <2>3. CASE e.att = 1
    <3>1. SlotOf(y.lib, h, e.fd)
      BY <1>1, <1>2, <2>3 DEF EntriesFine, HasSlot
    <3>2. SlotsFine(L, O)
      BY <1>1, <1>7, <3>1, DetachesFine
    <3> QED BY <2>1, <2>2, <3>2
  <2>4. CASE e.att # 1
    <3>1. e.fd = -1
      BY <1>1, <1>2, <2>4 DEF EntriesFine
    <3>2. O = y.open
      BY <3>1, <1>2
    <3> QED BY <2>1, <2>2, <3>2
  <2> QED BY <2>3, <2>4
<1>8. IsFiniteSet(O) /\ O \in SUBSET Nat
  BY <1>2, FS_RemoveElement
<1> DEFINE m == n - 1
<1>9. m \in 1 .. MaxPaths /\ m \in Nat
  BY <1>2
<1>10. ASSUME NEW L, Detaches(y.lib, L, h)
       PROVE  TableFine(T, m, L) /\ \A j \in 1 .. m : \E a \in 1 .. n : T[j] = y.tab[a]
  <2>1. CarriesBut(y.lib, L, y.tab[k].h)
    BY <1>7, <1>10
  <2> DEFINE tt == y.tab
  <2>2. tt \in [1 .. n -> TabEntry] /\ EntriesFine(tt, y.lib) /\ n \in Nat /\ n > 1 /\ k \in 1 .. n
        /\ CarriesBut(y.lib, L, tt[k].h)
    BY <1>1, <1>2, <2>1
  <2> HIDE DEF n, tt
  <2>3. TableFine(Without(tt, k), n - 1, L) /\ \A j \in 1 .. n - 1 : \E a \in 1 .. n : Without(tt, k)[j] = tt[a]
    BY <2>2, WithoutFine
  <2> QED BY <2>3 DEF tt
<1> HIDE DEF O, T, m, h
<1>11. CtxFine(u)
  BY <1>2, <1>3, <1>6, <1>7, <1>8, <1>9, <1>10, CtxFrom
<1>12. Detaches(y.lib, z.lib, h) /\ z = [u EXCEPT !.lib = z.lib]
  <2>1. CtxType(u) /\ SlotsFine(u.lib, u.open) /\ Detaches(y.lib, u.lib, h)
    BY <1>3, <1>6, <1>11 DEF CtxFine
  <2>2. Closing(y.lib, u, h)
    BY <2>1 DEF Closing
  <2>3. Closed(y.lib, u, h, LibFdClosed(u, h))
    BY <2>2, FdClosedCloses
  <2> QED BY <2>3 DEF z, Closed
<1>13. z.tab = T /\ z.open = O /\ z.fails = y.fails
      /\ z \in [tab : {z.tab}, fails : {z.fails}, lib : {z.lib}, open : {z.open}]
  BY <1>6, <1>12
<1>14. CtxFine(z)
  BY <1>2, <1>7, <1>8, <1>9, <1>10, <1>12, <1>13, CtxFrom
<1>15. \A i : Attached(z, i) => Attached(y, i)
  <2>1. DOMAIN T = 1 .. m /\ \A j \in 1 .. m : \E a \in 1 .. n : T[j] = y.tab[a]
    BY <1>3, <1>10 DEF TableFine
  <2> QED BY <2>1, <1>2, <1>13 DEF Attached
<1> QED BY <1>14, <1>15 DEF z, u, w, h

LEMMA AppendFine ==
    ASSUME NEW n \in Nat, NEW tab \in [1 .. n -> TabEntry], NEW lib, NEW L, EntriesFine(tab, lib),
           Carries(lib, L), NEW e \in TabEntry, HasSlot(e, L), e.fd # -1, e.ev = e.fd, e.att = 1,
           \A m \in 1 .. n : tab[m].h # e.h
    PROVE  TableFine(Append(tab, e), n + 1, L)
<1> DEFINE T == Append(tab, e)
<1>1. Len(tab) = n /\ DOMAIN tab = 1 .. n /\ tab \in Seq(TabEntry)
  BY TableAsSeq
<1>2. T \in Seq(TabEntry) /\ Len(T) = n + 1 /\ T[n + 1] = e /\ \A m \in 1 .. n : T[m] = tab[m]
  BY <1>1
<1> HIDE DEF T
<1>3. DOMAIN T = 1 .. n + 1 /\ T \in [1 .. n + 1 -> TabEntry]
  BY <1>2
<1>4. \A j \in 1 .. n + 1 : j \in 1 .. n \/ j = n + 1
  OBVIOUS
<1>5. ASSUME NEW a \in 1 .. n + 1, NEW b \in 1 .. n + 1, a # b PROVE T[a].h # T[b].h
  BY <1>1, <1>2, <1>4, <1>5 DEF EntriesFine
<1>6. ASSUME NEW m \in 1 .. n + 1
      PROVE  IF T[m].att = 1 THEN T[m].fd # -1 /\ T[m].ev = T[m].fd /\ HasSlot(T[m], L) ELSE T[m].fd = -1
  <2>1. CASE m = n + 1
    BY <2>1, <1>2
  <2>2. CASE m # n + 1
    BY <2>2, <1>1, <1>2, <1>4 DEF EntriesFine, Carries
  <2> QED BY <2>1, <2>2
<1>7. EntriesFine(T, L)
  BY <1>3, <1>5, <1>6 DEF EntriesFine
<1> QED BY <1>2, <1>3, <1>7 DEF TableFine, T

LEMMA AddPathFine ==
    ASSUME CtxFine(ctx), NEW i \in Ifaces, NEW f \in Faults, CanAddFd(ctx), Len(ctx.tab) < MaxPaths
    PROVE  LET fd == NewFd(ctx)
               h  == NewHandle(ctx)
               w  == LibAddFd(ctx, fd, Answer(i, f))
               y  == [w EXCEPT
                         !.tab = Append(@, [iface |-> i, fd |-> fd, att |-> 1, h |-> h, ev |-> fd]),
                         !.open = @ \cup {fd}]
               back == [LibDrop(w, h) EXCEPT !.open = ctx.open]
           IN  /\ CtxFine(y) /\ \A a : Attached(y, a) => Attached(ctx, a) \/ a = i
               /\ CtxFine(back) /\ Follows(ctx, back)
<1> DEFINE fd == NewFd(ctx)
           h  == NewHandle(ctx)
           w  == LibAddFd(ctx, fd, Answer(i, f))
           e  == [iface |-> i, fd |-> fd, att |-> 1, h |-> h, ev |-> fd]
           y  == [w EXCEPT !.tab = Append(@, e), !.open = @ \cup {fd}]
           v  == LibDrop(w, h)
           b  == [v EXCEPT !.open = ctx.open]
           n  == Len(ctx.tab)
           T  == Append(ctx.tab, e)
           O  == ctx.open \union {fd}
<1>1. CtxType(ctx) /\ SlotsFine(ctx.lib, ctx.open) /\ EntriesFine(ctx.tab, ctx.lib)
  BY DEF CtxFine
<1>2. /\ fd \in Nat /\ h \in Nat /\ fd \notin ctx.open
      /\ \A j \in DOMAIN ctx.tab : ctx.tab[j].h # h
      /\ \A j \in DOMAIN ctx.lib : ctx.lib[j].h # h
  BY <1>1, NewNumbers
<1>3. /\ n \in Nat /\ n < MaxPaths /\ MaxPaths \in Nat /\ DOMAIN ctx.tab = 1 .. n /\ ctx.tab \in [1 .. n -> TabEntry]
      /\ ctx.tab \in Seq(TabEntry) /\ n \in 1 .. MaxPaths
      /\ ctx.fails \in [Positions -> 0 .. Limit] /\ ctx.open \in SUBSET Nat /\ IsFiniteSet(ctx.open)
  BY <1>1, CtxFields DEF CtxType
<1>4. Result(Answer(i, f)) \in ActivateResult
  BY AnswerType
<1> HIDE DEF fd, h
<1>5. Adds(ctx.lib, w.lib, h, fd) /\ w = [ctx EXCEPT !.lib = w.lib]
  BY <1>1, <1>2, <1>4, LibAddFdAdds DEF h
<1> HIDE DEF w
<1>6. w.tab = ctx.tab /\ w.open = ctx.open /\ w.fails = ctx.fails
      /\ w \in [tab : {w.tab}, fails : {w.fails}, lib : {w.lib}, open : {w.open}]
  BY <1>1, <1>5 DEF CtxType
<1>7. w.lib \in Seq(LibSlot) /\ Len(w.lib) \in 1 .. MaxPaths
  BY <1>5 DEF Adds
<1>8. SlotsFine(w.lib, O) /\ Carries(ctx.lib, w.lib) /\ SlotOf(w.lib, h, fd)
  <2> DEFINE lib == ctx.lib
             L == w.lib
             open == ctx.open
  <2>1. SlotsFine(lib, open) /\ Adds(lib, L, h, fd) /\ fd \notin open /\ \A j \in DOMAIN lib : lib[j].h # h
    BY <1>1, <1>2, <1>5
  <2> HIDE DEF lib, L, open
  <2>2. SlotsFine(L, open \union {fd}) /\ Carries(lib, L) /\ SlotOf(L, h, fd)
    BY <2>1, AddsFine, Zenon
  <2> QED BY <2>2 DEF lib, L, open
<1>9. IsFiniteSet(O) /\ O \in SUBSET Nat
  BY <1>2, <1>3, FS_AddElement
<1>10. e \in TabEntry /\ e.fd # -1 /\ e.ev = e.fd /\ e.att = 1 /\ e.h = h /\ e.fd = fd /\ e.iface = i
  BY <1>2 DEF TabEntry
<1>11. y.tab = T /\ y.open = O /\ y.fails = ctx.fails /\ y.lib = w.lib
      /\ y \in [tab : {y.tab}, fails : {y.fails}, lib : {y.lib}, open : {y.open}]
  <2> HIDE DEF e
  <2> QED BY <1>6
<1> HIDE DEF e, y, O
<1>12. HasSlot(e, w.lib)
  BY <1>8, <1>10 DEF HasSlot
<1>13. TableFine(T, n + 1, w.lib)
  <2> DEFINE tab == ctx.tab
             lib == ctx.lib
             L == w.lib
  <2>1. /\ n \in Nat /\ tab \in [1 .. n -> TabEntry] /\ EntriesFine(tab, lib) /\ Carries(lib, L) /\ e \in TabEntry
        /\ HasSlot(e, L) /\ e.fd # -1 /\ e.ev = e.fd /\ e.att = 1 /\ \A m \in 1 .. n : tab[m].h # e.h
    BY <1>1, <1>2, <1>3, <1>8, <1>10, <1>12
  <2> HIDE DEF tab, lib, L, n
  <2>2. TableFine(Append(tab, e), n + 1, L)
    BY <2>1, AppendFine
  <2> QED BY <2>2 DEF tab, L
<1> DEFINE m == n + 1
<1>14. m \in 1 .. MaxPaths
  BY <1>3
<1>15. \A a : Attached(y, a) => Attached(ctx, a) \/ a = i
  <2>1. DOMAIN T = 1 .. n + 1 /\ T[n + 1] = e /\ \A k \in 1 .. n : T[k] = ctx.tab[k]
    BY <1>3, <1>10
  <2>2. \A k \in 1 .. n + 1 : k \in 1 .. n \/ k = n + 1
    BY <1>3
  <2> HIDE DEF T, n
  <2> QED BY <2>1, <2>2, <1>3, <1>10, <1>11 DEF Attached
<1> HIDE DEF T, m
<1>16. CtxFine(y)
  <2>1. TableFine(y.tab, m, y.lib)
    BY <1>11, <1>13 DEF m
  <2> QED BY <1>3, <1>7, <1>8, <1>9, <1>11, <1>14, <2>1, CtxFrom
<1>17. CtxType(w)
  BY <1>1, <1>3, <1>6, <1>7 DEF CtxType
<1>18. Detaches(w.lib, v.lib, h) /\ v = [w EXCEPT !.lib = v.lib]
  BY <1>8, <1>17, LibDropDetaches
<1> HIDE DEF v
<1>19. v.tab = ctx.tab /\ v.open = ctx.open /\ v.fails = ctx.fails
      /\ v \in [tab : {v.tab}, fails : {v.fails}, lib : {v.lib}, open : {v.open}]
  BY <1>6, <1>18
<1>20. b.tab = ctx.tab /\ b.open = ctx.open /\ b.fails = ctx.fails /\ b.lib = v.lib
      /\ b \in [tab : {b.tab}, fails : {b.fails}, lib : {b.lib}, open : {b.open}]
  BY <1>19
<1> HIDE DEF b
<1>21. SlotsFine(v.lib, O \ {fd}) /\ CarriesBut(w.lib, v.lib, h)
  BY <1>8, <1>18, DetachesFine
<1>22. O \ {fd} = ctx.open
  BY <1>2 DEF O
<1>23. v.lib \in Seq(LibSlot) /\ Len(v.lib) \in 1 .. MaxPaths
  <2>1. DOMAIN w.lib = 1 .. Len(w.lib) /\ Len(w.lib) \in Nat
    BY <1>7
  <2>2. v.lib \in [1 .. Len(w.lib) -> LibSlot]
    BY <1>18, <2>1 DEF Detaches
  <2>3. v.lib \in Seq(LibSlot) /\ Len(v.lib) = Len(w.lib)
    BY <2>1, <2>2, TableAsSeq
  <2> QED BY <2>3, <1>7
<1>24. EntriesFine(ctx.tab, v.lib)
  <2> DEFINE tab == ctx.tab
             lib == ctx.lib
             L == w.lib
             M == v.lib
  <2>1. EntriesFine(tab, lib) /\ Carries(lib, L) /\ CarriesBut(L, M, h) /\ \A k \in DOMAIN tab : tab[k].h # h
    BY <1>1, <1>2, <1>8, <1>21
  <2> HIDE DEF tab, lib, L, M
  <2>2. EntriesFine(tab, M)
    BY <2>1 DEF EntriesFine, Carries, CarriesBut
  <2> QED BY <2>2 DEF tab, M
<1>25. TableFine(b.tab, n, b.lib)
  BY <1>3, <1>20, <1>24 DEF TableFine
<1>26. CtxFine(b)
  <2>1. SlotsFine(b.lib, b.open)
    BY <1>20, <1>21, <1>22
  <2> HIDE DEF n
  <2> QED BY <1>3, <1>20, <1>23, <1>25, <2>1, CtxFrom
<1>27. Follows(ctx, b)
  BY <1>20 DEF Follows
<1> QED BY <1>15, <1>16, <1>26, <1>27 DEF y, b, v, w, e, fd, h

-----------------------------------------------------------------------------
(* The steps.  First the ones of the event loop beside the monitor.         *)

LEMMA FollowsAttached ==
    ASSUME NEW y, NEW z, Follows(y, z)
    PROVE  \A i : Attached(z, i) => Attached(y, i) \/ Healthy(i)
  BY DEF Follows, Attached

LEMMA StepKeeps ==
    ASSUME PathsInv, CtxFine(ctx'), UNCHANGED <<ifs, nlq>>, blind \subseteq blind',
           \A i \in Ifaces : Attached(ctx', i) => Attached(ctx, i) \/ Healthy(i) \/ i \in blind'
    PROVE  PathsInv'
<1>1. MonitorType'
  <2>1. MonitorType /\ ifs' = ifs /\ nlq' = nlq
    BY DEF PathsInv
  <2> QED BY <2>1 DEF MonitorType
<1>2. LossAnnounced'
  <2> SUFFICES ASSUME NEW i \in Ifaces, i \notin blind', Attached(ctx', i)
               PROVE  /\ ifs'[i].link \in Lost => LinkLossPending(nlq', i)
                      /\ ifs'[i].addr \/ LinkLossPending(nlq', i) \/ AddrLossPending(nlq', i)
    BY DEF LossAnnounced
  <2>1. ifs' = ifs /\ nlq' = nlq /\ i \notin blind
    OBVIOUS
  <2>2. CASE Healthy(i)
    BY <2>1, <2>2 DEF Healthy, UpAndRunning, Lost
  <2>3. CASE Attached(ctx, i)
    <3>1. /\ ifs[i].link \in Lost => LinkLossPending(nlq, i)
          /\ ifs[i].addr \/ LinkLossPending(nlq, i) \/ AddrLossPending(nlq, i)
      BY <2>1, <2>3 DEF PathsInv, LossAnnounced
    <3> QED BY <2>1, <3>1
  <2> QED BY <2>2, <2>3
<1> QED BY <1>1, <1>2 DEF PathsInv

LEMMA FollowStep ==
    ASSUME PathsInv, CtxFine(ctx'), Follows(ctx, ctx'), UNCHANGED <<ifs, nlq>>, blind' = blind
    PROVE  PathsInv'
  BY FollowsAttached, StepKeeps

LEMMA RecoverTimerKeeps ==
    ASSUME PathsInv, NEW f \in Faults, NEW closes \in BOOLEAN, RecoverTimer(f, closes)
    PROVE  PathsInv'
<1> DEFINE y == RecoverAll(ctx, f)
           z == [y EXCEPT !.fails = [k \in Positions |-> 0]]
<1>1. CtxFine(ctx) /\ CtxType(ctx)
  BY DEF PathsInv, CtxFine
<1>2. CtxFine(y) /\ Follows(ctx, y)
  BY <1>1, RecoverAllFine
<1>3. ctx' = (IF closes THEN z ELSE y) /\ UNCHANGED <<ifs, nlq>> /\ blind' = blind
  BY DEF RecoverTimer
<1> HIDE DEF y
<1>4. CtxFine(z) /\ Follows(y, z)
  BY <1>2, ZeroFails
<1> HIDE DEF z
<1>5. Follows(ctx, z)
  BY <1>2, <1>4, FollowsOn
<1>6. CtxFine(ctx') /\ Follows(ctx, ctx')
  BY <1>2, <1>3, <1>4, <1>5
<1> QED BY <1>3, <1>6, FollowStep

LEMMA AddPathKeeps ==
    ASSUME PathsInv, NEW i \in Ifaces, NEW f \in Faults, AddPath(i, f)
    PROVE  PathsInv'
<1> DEFINE fd == NewFd(ctx)
           h  == NewHandle(ctx)
           w  == LibAddFd(ctx, fd, Answer(i, f))
           y  == [w EXCEPT
                     !.tab = Append(@, [iface |-> i, fd |-> fd, att |-> 1, h |-> h, ev |-> fd]),
                     !.open = @ \cup {fd}]
           b  == [LibDrop(w, h) EXCEPT !.open = ctx.open]
<1>1. CtxFine(ctx)
  BY DEF PathsInv
<1>2. /\ Len(ctx.tab) < MaxPaths
      /\ ctx' = IF f[1] = "socket" \/ ifs[i].link = "gone" \/ ~CanAddFd(ctx) THEN ctx
                ELSE IF f[1] = "event" THEN b ELSE y
      /\ blind' = IF Healthy(i) THEN blind ELSE blind \cup {i}
      /\ UNCHANGED <<ifs, nlq>>
  BY DEF AddPath, Healthy, UpAndRunning
<1>3. CanAddFd(ctx) => /\ CtxFine(y) /\ \A a : Attached(y, a) => Attached(ctx, a) \/ a = i
                       /\ CtxFine(b) /\ Follows(ctx, b)
  BY <1>1, <1>2, AddPathFine
<1> HIDE DEF y, b
<1>4. blind \subseteq blind' /\ (Healthy(i) \/ i \in blind')
  BY <1>2
<1>5. CASE ctx' = ctx
  <2>1. \A a \in Ifaces : Attached(ctx', a) => Attached(ctx, a) \/ Healthy(a) \/ a \in blind'
    BY <1>5
  <2>2. CtxFine(ctx')
    BY <1>1, <1>5
  <2> QED BY <1>2, <1>4, <2>1, <2>2, StepKeeps
<1>6. CASE CanAddFd(ctx) /\ ctx' = b
  <2>1. \A a \in Ifaces : Attached(ctx', a) => Attached(ctx, a) \/ Healthy(a) \/ a \in blind'
    BY <1>3, <1>6, FollowsAttached
  <2>2. CtxFine(ctx')
    BY <1>3, <1>6
  <2> QED BY <1>2, <1>4, <2>1, <2>2, StepKeeps
<1>7. CASE CanAddFd(ctx) /\ ctx' = y
  <2>1. \A a \in Ifaces : Attached(ctx', a) => Attached(ctx, a) \/ Healthy(a) \/ a \in blind'
    BY <1>3, <1>4, <1>7
  <2>2. CtxFine(ctx')
    BY <1>3, <1>7
  <2> QED BY <1>2, <1>4, <2>1, <2>2, StepKeeps
<1> QED BY <1>2, <1>5, <1>6, <1>7

LEMMA RemovePathKeeps ==
    ASSUME PathsInv, NEW i \in Ifaces, RemovePath(i)
    PROVE  PathsInv'
<1> DEFINE hit == {k \in DOMAIN ctx.tab : ctx.tab[k].iface = i}
           k == Least(hit)
           h == ctx.tab[k].h
           z == LibFdClosed(RemoveEntry(LibDrop(ctx, h), k), h)
<1>1. CtxFine(ctx)
  BY DEF PathsInv
<1>2. Len(ctx.tab) > 1 /\ hit # {} /\ ctx' = z /\ UNCHANGED <<ifs, nlq>> /\ blind' = blind
  BY DEF RemovePath
<1>3. hit \in SUBSET Nat
  BY <1>1, CtxFields DEF CtxFine
<1>4. k \in DOMAIN ctx.tab
  BY <1>2, <1>3, PathsLeast
<1> HIDE DEF hit, k
<1>5. CtxFine(z) /\ \A a : Attached(z, a) => Attached(ctx, a)
  BY <1>1, <1>2, <1>4, RemovePathFine
<1> HIDE DEF z
<1>6. CtxFine(ctx') /\ \A a \in Ifaces : Attached(ctx', a) => Attached(ctx, a) \/ Healthy(a) \/ a \in blind'
  BY <1>2, <1>5
<1> QED BY <1>2, <1>6, StepKeeps

-----------------------------------------------------------------------------
(* The library's steps. *)

LEMMA ReadyKeeps ==
    ASSUME PathsInv, NEW f \in Faults, ReadyToCreatePath(f)
    PROVE  PathsInv'
<1> DEFINE r == IF f = NoFault THEN "OK" ELSE f[1]
           z == Activate(ctx, r)
<1>1. CtxFine(ctx) /\ CtxType(ctx) /\ SlotsFine(ctx.lib, ctx.open)
  BY DEF PathsInv, CtxFine
<1>2. ctx' = z /\ UNCHANGED <<ifs, nlq>> /\ blind' = blind /\ f[1] \in {"none", "TRANSIENT_FAIL", "PERMANENT_FAIL"}
  BY DEF ReadyToCreatePath
<1>3. Result(r) \in ActivateResult
  BY <1>2 DEF Result, ActivateResult, Faults, NoFault
<1> HIDE DEF r
<1>4. AllMove(ctx.lib, z.lib) /\ z = [ctx EXCEPT !.lib = z.lib]
  BY <1>1, <1>3, ActivateAll
<1> HIDE DEF z
<1>5. CtxFine(z) /\ Follows(ctx, z)
  BY <1>1, <1>4, LibMovesFine
<1>6. CtxFine(ctx') /\ Follows(ctx, ctx')
  BY <1>2, <1>5
<1> QED BY <1>2, <1>6, FollowStep

LEMMA PathRemovedKeeps ==
    ASSUME PathsInv, NEW j \in DOMAIN ctx.lib, PathRemoved(j)
    PROVE  PathsInv'
<1> DEFINE after == [k \in DOMAIN ctx.lib |-> OnXquicRemoved(ctx.lib[k].p)]
           h == ctx.lib[j].h
           z == OnSlot(ctx, h, after)
<1>1. CtxFine(ctx) /\ CtxType(ctx) /\ SlotsFine(ctx.lib, ctx.open)
  BY DEF PathsInv, CtxFine
<1>2. ctx' = z /\ UNCHANGED <<ifs, nlq>> /\ blind' = blind
  BY DEF PathRemoved
<1>3. \A k \in DOMAIN ctx.lib : Moved(ctx.lib[k].p, after[k])
  BY <1>1, EventMoves DEF SlotsFine
<1> HIDE DEF after, h
<1>4. AllMove(ctx.lib, z.lib) /\ z = [ctx EXCEPT !.lib = z.lib]
  BY <1>1, <1>3, OnSlotMoves
<1> HIDE DEF z
<1>5. CtxFine(z) /\ Follows(ctx, z)
  BY <1>1, <1>4, LibMovesFine
<1>6. CtxFine(ctx') /\ Follows(ctx, ctx')
  BY <1>2, <1>5
<1> QED BY <1>2, <1>6, FollowStep

LEMMA ValidatedKeeps ==
    ASSUME PathsInv, NEW j \in DOMAIN ctx.lib, Validated(j)
    PROVE  PathsInv'
<1> DEFINE q == OnValidationOk(ctx.lib[j].p, "ACTIVE")
<1>1. CtxFine(ctx) /\ SlotFine(ctx.lib[j].p)
  BY DEF PathsInv, CtxFine, SlotsFine
<1>2. ctx' = [ctx EXCEPT !.lib[j].p = q] /\ UNCHANGED <<ifs, nlq>> /\ blind' = blind
  BY DEF Validated
<1>3. Moved(ctx.lib[j].p, q)
  BY <1>1, EventMoves
<1> HIDE DEF q
<1>4. CtxFine(ctx') /\ Follows(ctx, ctx')
  BY <1>1, <1>2, <1>3, OneSlotFine
<1> QED BY <1>2, <1>4, FollowStep

LEMMA RetryKeeps ==
    ASSUME PathsInv, NEW j \in DOMAIN ctx.lib, NEW r \in ActivateResult, Retry(j, r)
    PROVE  PathsInv'
<1> DEFINE q == OnRetryTimer(ctx.lib[j].p, Result(r), 1)
<1>1. CtxFine(ctx) /\ SlotFine(ctx.lib[j].p)
  BY DEF PathsInv, CtxFine, SlotsFine
<1>2. ctx' = [ctx EXCEPT !.lib[j].p = q] /\ UNCHANGED <<ifs, nlq>> /\ blind' = blind
  BY DEF Retry
<1>3. Result(r) \in ActivateResult
  BY DEF Result, ActivateResult
<1>4. Moved(ctx.lib[j].p, q)
  BY <1>1, <1>3, ActivateMoves
<1> HIDE DEF q
<1>5. CtxFine(ctx') /\ Follows(ctx, ctx')
  BY <1>1, <1>2, <1>4, OneSlotFine
<1> QED BY <1>2, <1>5, FollowStep

LEMMA EstablishedKeeps ==
    ASSUME PathsInv, NEW f \in Faults, Established(f)
    PROVE  PathsInv'
<1>1. CtxFine(ctx) /\ CtxType(ctx)
  BY DEF PathsInv, CtxFine
<1>2. ctx' = ReaddClosed(ctx, f) /\ UNCHANGED <<ifs, nlq>> /\ blind' = blind
  BY DEF Established
<1>3. CtxFine(ReaddClosed(ctx, f)) /\ Follows(ctx, ReaddClosed(ctx, f))
  BY <1>1, RecoverAllFine
<1>4. CtxFine(ctx') /\ Follows(ctx, ctx')
  BY <1>2, <1>3
<1> QED BY <1>2, <1>4, FollowStep

LEMMA ConnEndsKeeps ==
    ASSUME PathsInv, ConnEnds
    PROVE  PathsInv'
<1> DEFINE z == [ctx EXCEPT !.fails = [k \in Positions |-> 0]]
<1>1. CtxFine(ctx)
  BY DEF PathsInv
<1>2. ctx' = z /\ UNCHANGED <<ifs, nlq>> /\ blind' = blind
  BY DEF ConnEnds
<1>3. CtxFine(z) /\ Follows(ctx, z)
  BY <1>1, ZeroFails
<1> HIDE DEF z
<1>4. CtxFine(ctx') /\ Follows(ctx, ctx')
  BY <1>2, <1>3
<1> QED BY <1>2, <1>4, FollowStep

LEMMA TickReconnectKeeps ==
    ASSUME PathsInv, NEW j \in DOMAIN ctx.lib, TickReconnect(j)
    PROVE  PathsInv'
<1> DEFINE y == Reset(ctx)
           p == y.lib[j].p
           q == [p EXCEPT !.xquic_path_live = 1, !.state = "VALIDATING"]
           z == BeginWith(y, j)
<1>1. CtxFine(ctx)
  BY DEF PathsInv
<1>2. ctx' = z /\ p.platform_attached = 1 /\ UNCHANGED <<ifs, nlq>> /\ blind' = blind
  BY DEF TickReconnect
<1>3. CtxFine(y) /\ Follows(ctx, y) /\ DOMAIN y.lib = DOMAIN ctx.lib
  BY <1>1, ResetFine
<1> HIDE DEF y
<1>4. SlotFine(p) /\ j \in DOMAIN y.lib
  BY <1>3 DEF CtxFine, SlotsFine
<1>5. z = [y EXCEPT !.lib[j].p = q]
  BY DEF BeginWith
<1> HIDE DEF p, z
<1>6. Moved(p, q)
  <2>1. p \in PathEntry /\ q = [p EXCEPT !.xquic_path_live = 1, !.state = "VALIDATING"]
    BY <1>4 DEF SlotFine
  <2> HIDE DEF q
  <2>2. q \in PathEntry /\ q.state = "VALIDATING" /\ q.platform_attached = p.platform_attached
    BY <2>1 DEF PathEntry, Lifecycle
  <2> QED BY <1>2, <2>2 DEF Moved, SlotFine
<1> HIDE DEF q
<1>7. CtxFine(z) /\ Follows(y, z)
  BY <1>3, <1>4, <1>5, <1>6, OneSlotFine DEF p
<1>8. Follows(ctx, z)
  BY <1>3, <1>7, FollowsOn
<1>9. CtxFine(ctx') /\ Follows(ctx, ctx')
  BY <1>2, <1>7, <1>8
<1> QED BY <1>2, <1>9, FollowStep

-----------------------------------------------------------------------------
(* The kernel's steps. *)

LEMMA LinkSet ==
    ASSUME NEW r, HasFields(r), NEW v, NEW s, s = [r EXCEPT !.link = v]
    PROVE  HasFields(s) /\ s.link = v /\ s.addr = r.addr
<1> DEFINE b == r.addr
           c == r.route
<1>1. s = [link |-> v, addr |-> b, route |-> c]
  BY DEF HasFields
<1> HIDE DEF b, c
<1>2. HasFields(s) /\ s.link = v /\ s.addr = b
  BY <1>1 DEF HasFields
<1> QED BY <1>2 DEF b

LEMMA RouteSet ==
    ASSUME NEW r, HasFields(r), NEW v, NEW s, s = [r EXCEPT !.route = v]
    PROVE  HasFields(s) /\ s.link = r.link /\ s.addr = r.addr
<1> DEFINE b == r.addr
           c == r.link
<1>1. s = [link |-> c, addr |-> b, route |-> v]
  BY DEF HasFields
<1> HIDE DEF b, c
<1>2. HasFields(s) /\ s.link = c /\ s.addr = b
  BY <1>1 DEF HasFields
<1> QED BY <1>2 DEF b, c

LEMMA FieldsOf ==
    ASSUME NEW u, NEW v, NEW w, NEW s, s = [link |-> u, addr |-> v, route |-> w]
    PROVE  HasFields(s) /\ s.link = u /\ s.addr = v
  BY DEF HasFields

(* What a message in the buffer tells of. *)
LinkLoss(m) == m.t \in {"NEWLINK", "DELLINK"} /\ m.link \in Lost
AddrLoss(m) == m.t = "DELADDR"

LEMMA SendKeeps ==
    ASSUME MonitorType, NEW i \in Ifaces, NEW msgs \in Seq(Message), Send(i, msgs)
    PROVE  /\ nlq' \in Seq(Message) /\ Len(nlq') <= MaxQueue /\ blind \subseteq blind'
           /\ \A a : LinkLossPending(nlq, a) => LinkLossPending(nlq', a)
           /\ \A a : AddrLossPending(nlq, a) => AddrLossPending(nlq', a)
           /\ i \notin blind' =>
                 \A n \in DOMAIN msgs : \E m \in DOMAIN nlq' : nlq'[m] = msgs[n]
<1>1. nlq \in Seq(Message) /\ Len(nlq) <= MaxQueue /\ MaxQueue \in Nat
  BY LinuxPathsAssumption DEF MonitorType
<1>2. CASE nlq' = nlq
  BY <1>1, <1>2 DEF Send
<1>3. CASE nlq' # nlq
  <2>1. nlq' = nlq \o msgs /\ blind' = blind /\ Len(nlq) + Len(msgs) <= MaxQueue
    BY <1>3 DEF Send
  <2> DEFINE q == nlq \o msgs
  <2>2. q \in Seq(Message) /\ Len(q) = Len(nlq) + Len(msgs)
    BY <1>1
  <2>3. \A n \in DOMAIN nlq : n \in DOMAIN q /\ q[n] = nlq[n]
    BY <1>1
  <2>4. \A n \in DOMAIN msgs : Len(nlq) + n \in DOMAIN q /\ q[Len(nlq) + n] = msgs[n]
    BY <1>1
  <2> HIDE DEF q
  <2>5. nlq' = q
    BY <2>1 DEF q
  <2>6. \A a : LinkLossPending(nlq, a) => LinkLossPending(q, a)
    BY <2>3 DEF LinkLossPending
  <2>7. \A a : AddrLossPending(nlq, a) => AddrLossPending(q, a)
    BY <2>3 DEF AddrLossPending
  <2> QED BY <2>1, <2>2, <2>4, <2>5, <2>6, <2>7
<1> QED BY <1>2, <1>3

(* A kernel step on interface i alone: what it must tell, or go unseen. *)
LEMMA KernelKeeps ==
    ASSUME PathsInv, NEW i \in Ifaces, ctx' = ctx, NEW r, HasFields(r), r.link \in Links,
           ifs' = [ifs EXCEPT ![i] = r],
           nlq' \in Seq(Message), Len(nlq') <= MaxQueue, blind \subseteq blind',
           \A a : LinkLossPending(nlq, a) => LinkLossPending(nlq', a),
           \A a : AddrLossPending(nlq, a) => AddrLossPending(nlq', a),
           i \notin blind' =>
               /\ r.link = ifs[i].link \/ r.link \notin Lost \/ LinkLossPending(nlq', i)
               /\ \/ ifs[i].addr => r.addr
                  \/ LinkLossPending(nlq', i) \/ AddrLossPending(nlq', i)
    PROVE  PathsInv'
<1>1. MonitorType /\ LossAnnounced /\ CtxFine(ctx)
  BY DEF PathsInv
<1>2. ifs'[i] = r /\ DOMAIN ifs' = Ifaces /\ ifs' = [a \in Ifaces |-> ifs'[a]] /\ \A a \in Ifaces \ {i} : ifs'[a] = ifs[a]
  BY <1>1 DEF MonitorType
<1>3. MonitorType'
  BY <1>1, <1>2 DEF MonitorType
<1>4. LossAnnounced'
  <2> SUFFICES ASSUME NEW a \in Ifaces, a \notin blind', Attached(ctx', a)
               PROVE  /\ ifs'[a].link \in Lost => LinkLossPending(nlq', a)
                      /\ ifs'[a].addr \/ LinkLossPending(nlq', a) \/ AddrLossPending(nlq', a)
    BY DEF LossAnnounced
  <2>1. /\ ifs[a].link \in Lost => LinkLossPending(nlq, a)
        /\ ifs[a].addr \/ LinkLossPending(nlq, a) \/ AddrLossPending(nlq, a)
    BY <1>1 DEF LossAnnounced
  <2>2. CASE a # i
    BY <1>2, <2>1, <2>2
  <2>3. CASE a = i
    BY <1>2, <2>1, <2>3
  <2> QED BY <2>2, <2>3
<1>5. CtxFine(ctx')
  BY <1>1
<1> QED BY <1>3, <1>4, <1>5 DEF PathsInv

LEMMA LinkChangeKeeps ==
    ASSUME PathsInv, NEW i \in Ifaces, NEW link \in Links, LinkChange(i, link)
    PROVE  PathsInv'
<1> DEFINE no == FALSE
           r == IF link = "gone" THEN [link |-> link, addr |-> no, route |-> no]
                ELSE [ifs[i] EXCEPT !.link = link]
           msgs == IF link # "gone" THEN <<Msg("NEWLINK", i, link)>>
                   ELSE IF ifs[i].addr THEN <<Msg("DELADDR", i, link), Msg("DELLINK", i, link)>>
                   ELSE <<Msg("DELLINK", i, link)>>
<1>1. MonitorType /\ HasFields(ifs[i]) /\ DOMAIN ifs = Ifaces
  BY DEF PathsInv, MonitorType
<1>2. ctx' = ctx /\ ifs' = [ifs EXCEPT ![i] = r] /\ Send(i, msgs)
  BY DEF LinkChange
<1>3. HasFields(r) /\ r.link = link /\ (link # "gone" => r.addr = ifs[i].addr)
  <2>1. CASE link = "gone"
    <3>1. r = [link |-> link, addr |-> no, route |-> no]
      BY <2>1
    <3> HIDE DEF no, r
    <3> QED BY <2>1, <3>1, FieldsOf
  <2>2. CASE link # "gone"
    <3>1. r = [ifs[i] EXCEPT !.link = link]
      BY <2>2
    <3> DEFINE e == ifs[i]
    <3>2. r = [e EXCEPT !.link = link] /\ HasFields(e)
      BY <3>1, <1>1
    <3> HIDE DEF r, e
    <3>3. HasFields(r) /\ r.link = link /\ r.addr = e.addr
      BY <3>2, LinkSet
    <3> QED BY <3>3 DEF e
  <2> QED BY <2>1, <2>2
<1>4. msgs \in Seq(Message)
  <2> DEFINE a == Msg("NEWLINK", i, link)
             b == Msg("DELADDR", i, link)
             c == Msg("DELLINK", i, link)
  <2>1. a \in Message /\ b \in Message /\ c \in Message
    BY DEF Message, Msg
  <2>2. msgs \in {<<a>>, <<b, c>>, <<c>>}
    OBVIOUS
  <2> HIDE DEF a, b, c, msgs
  <2>3. <<a>> \in Seq(Message) /\ <<b, c>> \in Seq(Message) /\ <<c>> \in Seq(Message)
    BY <2>1
  <2> QED BY <2>2, <2>3, Zenon
<1>5. link \in Lost => \E n \in DOMAIN msgs : msgs[n].i = i /\ LinkLoss(msgs[n])
  <2>1. CASE link = "gone" /\ ifs[i].addr
    <3>1. 2 \in DOMAIN msgs /\ msgs[2] = Msg("DELLINK", i, link)
      BY <2>1
    <3> QED BY <3>1 DEF Msg, LinkLoss
  <2>2. CASE ~(link = "gone" /\ ifs[i].addr)
    <3>1. 1 \in DOMAIN msgs /\ msgs[1] \in {Msg("DELLINK", i, link), Msg("NEWLINK", i, link)}
      BY <2>2
    <3> QED BY <3>1 DEF Msg, LinkLoss
  <2> QED BY <2>1, <2>2
<1> HIDE DEF r, msgs
<1>6. /\ nlq' \in Seq(Message) /\ Len(nlq') <= MaxQueue /\ blind \subseteq blind'
      /\ \A a : LinkLossPending(nlq, a) => LinkLossPending(nlq', a)
      /\ \A a : AddrLossPending(nlq, a) => AddrLossPending(nlq', a)
      /\ i \notin blind' =>
            \A n \in DOMAIN msgs : \E m \in DOMAIN nlq' : nlq'[m] = msgs[n]
  BY <1>1, <1>2, <1>4, SendKeeps
<1>7. i \notin blind' /\ link \in Lost => LinkLossPending(nlq', i)
  BY <1>5, <1>6 DEF LinkLossPending, LinkLoss
<1>8. i \notin blind' =>
         /\ r.link = ifs[i].link \/ r.link \notin Lost \/ LinkLossPending(nlq', i)
         /\ \/ ifs[i].addr => r.addr
            \/ LinkLossPending(nlq', i) \/ AddrLossPending(nlq', i)
  BY <1>3, <1>7 DEF Lost
<1>9. r.link \in Links
  BY <1>3
<1> QED BY <1>2, <1>3, <1>6, <1>8, <1>9, KernelKeeps

LEMMA AddrChangeKeeps ==
    ASSUME PathsInv, NEW i \in Ifaces, NEW there \in BOOLEAN, AddrChange(i, there)
    PROVE  PathsInv'
<1> DEFINE v == there
           w == ifs[i].route /\ there
           r == [link |-> ifs[i].link, addr |-> v, route |-> w]
           t == IF there THEN "NEWADDR" ELSE "DELADDR"
           msgs == <<Msg(t, i, ifs[i].link)>>
<1>1. MonitorType /\ HasFields(ifs[i]) /\ DOMAIN ifs = Ifaces /\ ifs[i].link \in Links
  BY DEF PathsInv, MonitorType
<1>2. ctx' = ctx /\ ifs' = [ifs EXCEPT ![i] = r] /\ Send(i, msgs)
  <2>1. ctx' = ctx /\ Send(i, msgs)
    BY DEF AddrChange
  <2>2. ifs' = [ifs EXCEPT ![i] = r]
    BY Zenon DEF AddrChange
  <2> QED BY <2>1, <2>2
<1>3. HasFields(r) /\ r.link = ifs[i].link /\ r.addr = v
  <2> HIDE DEF v, w
  <2> QED BY FieldsOf
<1>4. msgs \in Seq(Message) /\ 1 \in DOMAIN msgs /\ msgs[1] = Msg(t, i, ifs[i].link)
  BY <1>1 DEF Message, Msg
<1>5. ~there => AddrLoss(msgs[1]) /\ msgs[1].i = i
  BY <1>4 DEF Msg, AddrLoss
<1> HIDE DEF r, msgs
<1>6. /\ nlq' \in Seq(Message) /\ Len(nlq') <= MaxQueue /\ blind \subseteq blind'
      /\ \A a : LinkLossPending(nlq, a) => LinkLossPending(nlq', a)
      /\ \A a : AddrLossPending(nlq, a) => AddrLossPending(nlq', a)
      /\ i \notin blind' =>
            \A n \in DOMAIN msgs : \E m \in DOMAIN nlq' : nlq'[m] = msgs[n]
  BY <1>1, <1>2, <1>4, SendKeeps
<1>7. i \notin blind' /\ ~there => AddrLossPending(nlq', i)
  BY <1>4, <1>5, <1>6 DEF AddrLossPending, AddrLoss
<1>8. i \notin blind' =>
         /\ r.link = ifs[i].link \/ r.link \notin Lost \/ LinkLossPending(nlq', i)
         /\ \/ ifs[i].addr => r.addr
            \/ LinkLossPending(nlq', i) \/ AddrLossPending(nlq', i)
  BY <1>3, <1>7
<1>9. r.link \in Links
  BY <1>1, <1>3
<1> QED BY <1>2, <1>3, <1>6, <1>8, <1>9, KernelKeeps

LEMMA RouteChangeKeeps ==
    ASSUME PathsInv, NEW i \in Ifaces, RouteChange(i)
    PROVE  PathsInv'
<1> DEFINE v == ~ifs[i].route
           r == [ifs[i] EXCEPT !.route = v]
<1>1. MonitorType /\ HasFields(ifs[i]) /\ DOMAIN ifs = Ifaces /\ ifs[i].link \in Links
      /\ nlq \in Seq(Message) /\ Len(nlq) <= MaxQueue
  BY DEF PathsInv, MonitorType
<1>2. ctx' = ctx /\ ifs' = [ifs EXCEPT ![i] = r] /\ nlq' = nlq /\ blind' = blind
  BY Zenon DEF RouteChange
<1>3. HasFields(r) /\ r.link = ifs[i].link /\ r.addr = ifs[i].addr
  <2> HIDE DEF v
  <2> QED BY <1>1, RouteSet
<1> HIDE DEF r
<1> QED BY <1>1, <1>2, <1>3, KernelKeeps

-----------------------------------------------------------------------------
(* The monitor's step. *)

LEMMA TailPending ==
    ASSUME nlq \in Seq(Message), nlq # <<>>
    PROVE  LET m == Head(nlq)
               q == Tail(nlq)
           IN  /\ m \in Message /\ q \in Seq(Message) /\ Len(q) <= Len(nlq)
               /\ \A a : LinkLossPending(nlq, a) => LinkLossPending(q, a) \/ (m.i = a /\ LinkLoss(m))
               /\ \A a : AddrLossPending(nlq, a) => AddrLossPending(q, a) \/ (m.i = a /\ AddrLoss(m))
<1> DEFINE m == Head(nlq)
           q == Tail(nlq)
<1>1. m \in Message /\ q \in Seq(Message) /\ Len(q) = Len(nlq) - 1 /\ m = nlq[1] /\ Len(nlq) \in Nat
  OBVIOUS
<1>2. \A n \in DOMAIN nlq : n = 1 \/ (n - 1 \in DOMAIN q /\ q[n - 1] = nlq[n])
  OBVIOUS
<1> HIDE DEF m, q
<1>3. \A a : LinkLossPending(nlq, a) => LinkLossPending(q, a) \/ (m.i = a /\ LinkLoss(m))
  BY <1>1, <1>2 DEF LinkLossPending, LinkLoss
<1>4. \A a : AddrLossPending(nlq, a) => AddrLossPending(q, a) \/ (m.i = a /\ AddrLoss(m))
  BY <1>1, <1>2 DEF AddrLossPending, AddrLoss
<1>5. Len(q) <= Len(nlq)
  BY <1>1
<1> QED BY <1>1, <1>3, <1>4, <1>5 DEF m, q

(* A message leaves the program as it was, lets it follow, or drops the     *)
(* paths of its interface; the last for every loss that it tells of.        *)
LEMMA Handling ==
    ASSUME CtxFine(ctx), NEW f \in Faults, NEW m \in Message, NEW z,
           z = CASE m.t = "NEWADDR" -> HandleNewAddr(m.i, f)
                 [] m.t = "DELADDR" -> HandleDelAddr(m.i, f)
                 [] OTHER           -> HandleNewLink(m.i, m.link, f)
    PROVE  /\ CtxFine(z) /\ Follows(ctx, z)
           /\ LinkLoss(m) => ~Attached(z, m.i)
           /\ AddrLoss(m) /\ UpAndRunning(m.i) /\ ~ifs[m.i].addr /\ f[1] # "ip" => ~Attached(z, m.i)
<1> DEFINE i == m.i
           d == DropPathsByIfname(ctx, i)
           r == ReaddOrReactivate(ctx, i, f)
<1>1. CtxType(ctx) /\ Follows(ctx, ctx)
  BY DEF CtxFine, Follows
<1>2. CtxFine(r) /\ Follows(ctx, r)
  BY <1>1, ReaddOrReactivateFine
<1>3. CtxFine(d) /\ Follows(ctx, d) /\ \A k \in DOMAIN d.tab : d.tab[k].iface = i => d.tab[k].att = 0
  BY <1>1, DropFine
<1> HIDE DEF d, r
<1>4. ~Attached(d, i)
  BY <1>3 DEF Attached
<1>5. m.t \in {"NEWLINK", "DELLINK", "NEWADDR", "DELADDR"}
  BY DEF Message
<1>6. CASE m.t = "NEWADDR"
  <2>1. z \in {ctx, r}
    BY <1>6 DEF HandleNewAddr, r
  <2> QED BY <1>1, <1>2, <1>6, <2>1 DEF LinkLoss, AddrLoss
<1>7. CASE m.t = "DELADDR"
  <2>1. z = IF UpAndRunning(i) /\ NoUsableIp(i, f) THEN d ELSE ctx
    BY <1>7 DEF HandleDelAddr, d
  <2>2. UpAndRunning(i) /\ ~ifs[i].addr /\ f[1] # "ip" => NoUsableIp(i, f)
    BY DEF NoUsableIp
  <2>3. CtxFine(z) /\ Follows(ctx, z)
    BY <1>1, <1>3, <2>1
  <2>4. UpAndRunning(i) /\ ~ifs[i].addr /\ f[1] # "ip" => ~Attached(z, i)
    BY <1>4, <2>1, <2>2
  <2> QED BY <1>7, <2>3, <2>4 DEF LinkLoss
<1>8. CASE m.t \in {"NEWLINK", "DELLINK"}
  <2>1. z = HandleNewLink(i, m.link, f)
    BY <1>8
  <2>2. z \in {ctx, d, r} /\ (m.link \in Lost => z = d)
    BY <2>1 DEF HandleNewLink, Lost, d, r
  <2> QED BY <1>1, <1>2, <1>3, <1>4, <1>8, <2>2 DEF LinkLoss, AddrLoss
<1> QED BY <1>5, <1>6, <1>7, <1>8

LEMMA NetlinkMessageKeeps ==
    ASSUME PathsInv, NEW f \in Faults, NetlinkMessage(f)
    PROVE  PathsInv'
<1> DEFINE m == Head(nlq)
           q == Tail(nlq)
           i == m.i
<1>1. MonitorType /\ LossAnnounced /\ CtxFine(ctx) /\ nlq \in Seq(Message) /\ Len(nlq) <= MaxQueue
  BY DEF PathsInv, MonitorType
<1>2. /\ nlq # <<>>
      /\ ctx' = CASE m.t = "NEWADDR" -> HandleNewAddr(m.i, f)
                  [] m.t = "DELADDR" -> HandleDelAddr(m.i, f)
                  [] OTHER           -> HandleNewLink(m.i, m.link, f)
      /\ blind' = IF m.t = "DELADDR" /\ (f[1] = "ip" \/ ifs[m.i].link = "dormant")
                  THEN blind \cup {m.i} ELSE blind
      /\ nlq' = q /\ ifs' = ifs
  BY DEF NetlinkMessage
<1>3. /\ m \in Message /\ q \in Seq(Message) /\ Len(q) <= Len(nlq)
      /\ \A a : LinkLossPending(nlq, a) => LinkLossPending(q, a) \/ (m.i = a /\ LinkLoss(m))
      /\ \A a : AddrLossPending(nlq, a) => AddrLossPending(q, a) \/ (m.i = a /\ AddrLoss(m))
  BY <1>1, <1>2, TailPending
<1> HIDE DEF m, q
<1>4. /\ CtxFine(ctx') /\ Follows(ctx, ctx')
      /\ LinkLoss(m) => ~Attached(ctx', m.i)
      /\ AddrLoss(m) /\ UpAndRunning(m.i) /\ ~ifs[m.i].addr /\ f[1] # "ip" => ~Attached(ctx', m.i)
  BY <1>1, <1>2, <1>3, Handling
<1>5. MonitorType'
  <2>1. Len(q) <= MaxQueue
    BY <1>1, <1>3, LinuxPathsAssumption
  <2> QED BY <1>1, <1>2, <1>3, <2>1 DEF MonitorType
<1>6. LossAnnounced'
  <2> SUFFICES ASSUME NEW a \in Ifaces, a \notin blind', Attached(ctx', a)
               PROVE  /\ ifs'[a].link \in Lost => LinkLossPending(nlq', a)
                      /\ ifs'[a].addr \/ LinkLossPending(nlq', a) \/ AddrLossPending(nlq', a)
    BY DEF LossAnnounced
  <2>1. a \notin blind
    BY <1>2
  <2>2. CASE Healthy(a)
    BY <1>2, <2>2 DEF Healthy, UpAndRunning, Lost
  <2>3. CASE ~Healthy(a)
    <3>1. Attached(ctx, a)
      BY <1>4, <2>3, FollowsAttached
    <3>2. /\ ifs[a].link \in Lost => LinkLossPending(nlq, a)
          /\ ifs[a].addr \/ LinkLossPending(nlq, a) \/ AddrLossPending(nlq, a)
      BY <1>1, <2>1, <3>1 DEF LossAnnounced
    <3>3. LinkLossPending(nlq, a) => LinkLossPending(q, a)
      BY <1>3, <1>4
    <3>4. CASE AddrLossPending(nlq, a) => AddrLossPending(q, a)
      BY <1>2, <3>2, <3>3, <3>4
    <3>5. CASE m.i = a /\ AddrLoss(m) /\ ~ifs[a].addr /\ ~LinkLossPending(q, a)
      <4>1. ifs[a].link \notin Lost /\ ifs[a].link \in Links
        BY <1>1, <3>2, <3>3, <3>5 DEF MonitorType
      <4>2. f[1] # "ip" /\ ifs[a].link # "dormant"
        BY <1>2, <3>5 DEF AddrLoss
      <4>3. UpAndRunning(a)
        BY <4>1, <4>2 DEF Lost, Links, UpAndRunning
      <4> QED BY <1>4, <3>5, <4>2, <4>3
    <3> QED BY <1>2, <1>3, <3>2, <3>3, <3>4, <3>5
  <2> QED BY <2>2, <2>3
<1> QED BY <1>4, <1>5, <1>6 DEF PathsInv

-----------------------------------------------------------------------------
(* The first state. *)

LEMMA StartOrders ==
    /\ Cardinality(Ifaces) \in 1 .. MaxPaths
    /\ StartOrder \in [1 .. Cardinality(Ifaces) -> Ifaces]
<1> DEFINE n == Cardinality(Ifaces)
           P(s) == \A k, m \in DOMAIN s : s[k] = s[m] => k = m
<1>1. IsFiniteSet(Ifaces) /\ n \in Nat /\ n \in 1 .. MaxPaths
  BY LinuxPathsAssumption, FS_CardinalityType
<1>2. PICK s : s \in Bijection(1 .. n, Ifaces)
  BY <1>1, FS_CardinalityType DEF ExistsBijection
<1>3. s \in [1 .. n -> Ifaces] /\ P(s)
  BY <1>2 DEF Bijection, Injection, IsInjective
<1> HIDE DEF P
<1>4. StartOrder = CHOOSE t \in [1 .. n -> Ifaces] : P(t)
  BY DEF StartOrder, P
<1>5. (CHOOSE t \in [1 .. n -> Ifaces] : P(t)) \in [1 .. n -> Ifaces]
  BY <1>3
<1> QED BY <1>1, <1>4, <1>5

LEMMA StartFine ==
    ASSUME PathsInit
    PROVE  CtxFine(ctx)
<1> DEFINE n == Cardinality(Ifaces)
           T == [k \in 1 .. n |-> StartEntry(k)]
           L == [k \in 1 .. n |-> StartSlot(k)]
           O == {k - 1 : k \in 1 .. n}
<1>1. n \in 1 .. MaxPaths /\ StartOrder \in [1 .. n -> Ifaces] /\ MaxPaths \in Nat /\ Limit \in Nat
  BY StartOrders, LinuxPathsAssumption
<1>2. DOMAIN StartOrder = 1 .. n
  BY <1>1
<1>3. ctx = [tab |-> T, fails |-> [k \in Positions |-> 0], lib |-> L, open |-> O]
  BY <1>2 DEF PathsInit
<1> HIDE DEF n
<1>4. ASSUME NEW k \in 1 .. n
      PROVE  /\ T[k] \in TabEntry /\ T[k].h = k - 1 /\ T[k].fd = k - 1 /\ T[k].ev = k - 1 /\ T[k].att = 1
             /\ T[k].iface \in Ifaces
  BY <1>1 DEF StartEntry, TabEntry
<1>5. ASSUME NEW k \in 1 .. n
      PROVE  /\ L[k] \in LibSlot /\ L[k].h = k - 1 /\ L[k].sock = k - 1
             /\ SlotFine(L[k].p) /\ L[k].p.platform_attached = 1
  <2> DEFINE p == OnAddFd([PathEntryInit EXCEPT !.fd = 0])
             v == [p EXCEPT !.xquic_path_live = 1, !.state = "VALIDATING"]
             q == IF k = 1 THEN v ELSE p
  <2>1. SlotFine(p) /\ p.platform_attached = 1
    BY AddedSlot
  <2>2. L[k] = [h |-> k - 1, sock |-> k - 1, p |-> q]
    BY DEF StartSlot
  <2> HIDE DEF p, L
  <2>3. v \in PathEntry /\ v.state = "VALIDATING" /\ v.platform_attached = 1
    <3>1. p \in PathEntry
      BY <2>1 DEF SlotFine
    <3> QED BY <2>1, <3>1 DEF PathEntry, Lifecycle
  <2> HIDE DEF v
  <2>4. SlotFine(v)
    BY <2>3 DEF SlotFine
  <2>5. SlotFine(q) /\ q.platform_attached = 1 /\ q \in PathEntry
    BY <2>1, <2>3, <2>4 DEF SlotFine
  <2> HIDE DEF q
  <2>6. k - 1 \in Nat
    BY <1>1
  <2> QED BY <2>2, <2>5, <2>6 DEF LibSlot
<1>6. T \in [1 .. n -> TabEntry] /\ L \in [1 .. n -> LibSlot]
  BY <1>4, <1>5
<1>7. /\ T \in Seq(TabEntry) /\ Len(T) = n /\ DOMAIN T = 1 .. n
      /\ L \in Seq(LibSlot) /\ Len(L) = n /\ DOMAIN L = 1 .. n
  BY <1>1, <1>6, TableAsSeq
<1>8. O \in SUBSET Nat /\ \A k \in 1 .. n : k - 1 \in O
  BY <1>1
<1>9. IsFiniteSet(O)
  <2>1. O \subseteq 0 .. n /\ 0 \in Int /\ n \in Int
    BY <1>1
  <2> HIDE DEF O
  <2>2. IsFiniteSet(0 .. n)
    BY <2>1, FS_Interval
  <2> QED BY <2>1, <2>2, FS_Subset
<1> HIDE DEF T, L, O
<1>10. SlotsFine(L, O)
  <2>1. \A j \in 1 .. n : SlotFine(L[j].p) /\ L[j].sock \in O
    BY <1>5, <1>8
  <2>2. \A j, m \in 1 .. n : j # m => L[j].h # L[m].h /\ L[j].sock # L[m].sock
    BY <1>1, <1>5
  <2> QED BY <1>7, <2>1, <2>2 DEF SlotsFine
<1>11. EntriesFine(T, L)
  <2>1. \A k, m \in 1 .. n : k # m => T[k].h # T[m].h
    BY <1>1, <1>4
  <2>2. ASSUME NEW k \in 1 .. n
        PROVE  T[k].fd # -1 /\ T[k].ev = T[k].fd /\ HasSlot(T[k], L)
    <3>1. T[k].fd # -1 /\ T[k].ev = T[k].fd
      BY <1>1, <1>4
    <3>2. L[k].h = T[k].h /\ L[k].sock = T[k].fd /\ L[k].p.platform_attached = 1 /\ k \in DOMAIN L
      BY <1>4, <1>5, <1>7
    <3>3. HasSlot(T[k], L)
      BY <3>2 DEF HasSlot, SlotOf
    <3> QED BY <3>1, <3>3
  <2> QED BY <1>4, <1>7, <2>1, <2>2 DEF EntriesFine
<1>12. TableFine(T, n, L)
  BY <1>6, <1>7, <1>11 DEF TableFine
<1> DEFINE F == [k \in Positions |-> 0]
<1>13. F \in [Positions -> 0 .. Limit]
  BY <1>1
<1> HIDE DEF F
<1>14. /\ ctx.tab = T /\ ctx.lib = L /\ ctx.open = O /\ ctx.fails = F
       /\ ctx \in [tab : {ctx.tab}, fails : {ctx.fails}, lib : {ctx.lib}, open : {ctx.open}]
  BY <1>3 DEF F
<1> QED BY <1>1, <1>7, <1>8, <1>9, <1>10, <1>12, <1>13, <1>14, CtxFrom

LEMMA PathsInitInv == PathsInit => PathsInv
<1> SUFFICES ASSUME PathsInit PROVE PathsInv
  OBVIOUS
<1> DEFINE yes == TRUE
           r == [link |-> "up", addr |-> yes, route |-> yes]
<1>1. ifs = [i \in Ifaces |-> r] /\ nlq = <<>>
  BY Zenon DEF PathsInit
<1>2. r.link = "up" /\ r.addr = yes /\ HasFields(r)
  <2> HIDE DEF yes
  <2> QED BY FieldsOf
<1>3. r.addr
  BY <1>2
<1> HIDE DEF r
<1>4. DOMAIN ifs = Ifaces /\ ifs = [i \in Ifaces |-> ifs[i]] /\ \A i \in Ifaces : ifs[i] = r
  BY <1>1
<1>5. MonitorType
  <2>1. nlq \in Seq(Message) /\ Len(nlq) <= MaxQueue
    BY <1>1, LinuxPathsAssumption
  <2> QED BY <1>2, <1>4, <2>1 DEF MonitorType, Links
<1>6. LossAnnounced
  BY <1>2, <1>3, <1>4 DEF LossAnnounced, Lost
<1> QED BY <1>5, <1>6, StartFine DEF PathsInv

LEMMA PathsNextInv ==
    ASSUME PathsInv, [PathsNext]_pathVars
    PROVE  PathsInv'
<1>1. ASSUME NEW i \in Ifaces, NEW link \in Links, LinkChange(i, link) PROVE PathsInv'
  BY <1>1, LinkChangeKeeps
<1>2. ASSUME NEW i \in Ifaces, NEW there \in BOOLEAN, AddrChange(i, there) PROVE PathsInv'
  BY <1>2, AddrChangeKeeps
<1>3. ASSUME NEW i \in Ifaces, RouteChange(i) PROVE PathsInv'
  BY <1>3, RouteChangeKeeps
<1>4. ASSUME NEW f \in Faults, NetlinkMessage(f) PROVE PathsInv'
  BY <1>4, NetlinkMessageKeeps
<1>5. ASSUME NEW f \in Faults, NEW closes \in BOOLEAN, RecoverTimer(f, closes) PROVE PathsInv'
  BY <1>5, RecoverTimerKeeps
<1>6. ASSUME NEW i \in Ifaces, NEW f \in Faults, AddPath(i, f) PROVE PathsInv'
  BY <1>6, AddPathKeeps
<1>7. ASSUME NEW i \in Ifaces, RemovePath(i) PROVE PathsInv'
  BY <1>7, RemovePathKeeps
<1>8. ASSUME NEW f \in Faults, ReadyToCreatePath(f) \/ Established(f) PROVE PathsInv'
  BY <1>8, ReadyKeeps, EstablishedKeeps
<1>9. ASSUME NEW j \in DOMAIN ctx.lib, PathRemoved(j) \/ Validated(j) \/ TickReconnect(j) PROVE PathsInv'
  BY <1>9, PathRemovedKeeps, ValidatedKeeps, TickReconnectKeeps
<1>10. ASSUME NEW j \in DOMAIN ctx.lib, NEW r \in ActivateResult, Retry(j, r) PROVE PathsInv'
  BY <1>10, RetryKeeps
<1>11. CASE ConnEnds
  BY <1>11, ConnEndsKeeps
<1>12. CASE UNCHANGED pathVars
  <2>1. ctx' = ctx /\ ifs' = ifs /\ nlq' = nlq /\ blind' = blind
    BY <1>12 DEF pathVars
  <2>2. CtxFine(ctx') /\ Follows(ctx, ctx')
    BY <2>1 DEF PathsInv, Follows
  <2> QED BY <2>1, <2>2, FollowStep
<1> QED
  BY <1>1, <1>2, <1>3, <1>4, <1>5, <1>6, <1>7, <1>8, <1>9, <1>10, <1>11, <1>12
  DEF PathsNext, Kernel, Library

LEMMA InvCorresponds == PathsInv => Corresponds
<1> SUFFICES ASSUME PathsInv PROVE Corresponds
  OBVIOUS
<1>1. CtxType(ctx) /\ SlotsFine(ctx.lib, ctx.open) /\ EntriesFine(ctx.tab, ctx.lib) /\ MonitorType
  BY DEF PathsInv, CtxFine
<1>2. /\ ctx.tab \in [DOMAIN ctx.tab -> TabEntry] /\ ctx.lib \in [DOMAIN ctx.lib -> LibSlot]
      /\ ctx.fails \in [Positions -> 0 .. Limit] /\ ctx.open \in SUBSET Nat
      /\ Len(ctx.tab) \in 1 .. MaxPaths /\ Len(ctx.lib) \in 1 .. MaxPaths /\ IsFiniteSet(ctx.open)
  BY <1>1, CtxFields DEF CtxType
<1>3. PathsTypeOK
  <2>1. \A k \in DOMAIN ctx.tab : /\ ctx.tab[k].iface \in Ifaces /\ ctx.tab[k].att \in {0, 1}
                                  /\ ctx.tab[k].fd \in Nat \cup {-1} /\ ctx.tab[k].ev \in Nat \cup {-1}
    BY <1>2 DEF TabEntry
  <2>2. \A j \in DOMAIN ctx.lib : ctx.lib[j].p \in PathEntry /\ ctx.lib[j].sock \in Nat
    BY <1>2 DEF LibSlot
  <2>3. Len(nlq) <= MaxQueue
    BY <1>1 DEF MonitorType
  <2> QED BY <1>2, <2>1, <2>2, <2>3 DEF PathsTypeOK
<1>4. SlotSocketsOwn
  BY <1>1 DEF SlotsFine, SlotSocketsOwn
<1>5. EntryBacked
  <2> SUFFICES ASSUME NEW k \in DOMAIN ctx.tab, ctx.tab[k].att = 1
               PROVE  /\ ctx.tab[k].fd \in ctx.open /\ ctx.tab[k].ev = ctx.tab[k].fd
                      /\ \A m \in DOMAIN ctx.tab \ {k} : ctx.tab[m].fd # ctx.tab[k].fd
                      /\ \E j \in DOMAIN ctx.lib : /\ ctx.lib[j].h = ctx.tab[k].h
                                                   /\ ctx.lib[j].sock = ctx.tab[k].fd
                                                   /\ ctx.lib[j].p.platform_attached = 1
    BY DEF EntryBacked
  <2>1. ctx.tab[k].fd # -1 /\ ctx.tab[k].ev = ctx.tab[k].fd /\ HasSlot(ctx.tab[k], ctx.lib)
    BY <1>1 DEF EntriesFine
  <2>2. PICK j \in DOMAIN ctx.lib : /\ ctx.lib[j].h = ctx.tab[k].h
                                    /\ ctx.lib[j].sock = ctx.tab[k].fd
                                    /\ ctx.lib[j].p.platform_attached = 1
    BY <2>1 DEF HasSlot, SlotOf
  <2>3. ctx.tab[k].fd \in ctx.open
    BY <1>1, <2>2 DEF SlotsFine
  <2>4. ASSUME NEW m \in DOMAIN ctx.tab \ {k} PROVE ctx.tab[m].fd # ctx.tab[k].fd
    <3>1. CASE ctx.tab[m].att = 1
      <4>1. HasSlot(ctx.tab[m], ctx.lib) /\ ctx.tab[m].h # ctx.tab[k].h
        BY <1>1, <3>1 DEF EntriesFine
      <4>2. PICK a \in DOMAIN ctx.lib : /\ ctx.lib[a].h = ctx.tab[m].h
                                        /\ ctx.lib[a].sock = ctx.tab[m].fd
                                        /\ ctx.lib[a].p.platform_attached = 1
        BY <4>1 DEF HasSlot, SlotOf
      <4>3. a # j
        BY <2>2, <4>1, <4>2
      <4> QED BY <1>1, <2>2, <4>2, <4>3 DEF SlotsFine
    <3>2. CASE ctx.tab[m].att # 1
      BY <1>1, <2>1, <3>2 DEF EntriesFine
    <3> QED BY <3>1, <3>2
  <2> QED BY <2>1, <2>2, <2>3, <2>4
<1> QED BY <1>3, <1>4, <1>5 DEF Corresponds

LEMMA InvDeadInterfaceDropped == PathsInv => DeadInterfaceDropped
<1> SUFFICES ASSUME PathsInv, nlq = <<>>, NEW k \in DOMAIN ctx.tab, ctx.tab[k].att = 1,
                    ctx.tab[k].iface \notin blind
             PROVE  ifs[ctx.tab[k].iface].link \in {"up", "dormant"} /\ ifs[ctx.tab[k].iface].addr
  BY DEF DeadInterfaceDropped
<1> DEFINE i == ctx.tab[k].iface
<1>1. i \in Ifaces
  BY CtxFields DEF PathsInv, CtxFine, TabEntry
<1>2. Attached(ctx, i)
  BY DEF Attached
<1>3. ~LinkLossPending(nlq, i) /\ ~AddrLossPending(nlq, i)
  BY DEF LinkLossPending, AddrLossPending
<1> HIDE DEF i
<1>4. i \notin blind
  BY DEF i
<1>5. ifs[i].link \notin Lost /\ ifs[i].addr
  BY <1>1, <1>2, <1>3, <1>4 DEF PathsInv, LossAnnounced
<1>6. ifs[i].link \in Links
  BY <1>1 DEF PathsInv, MonitorType
<1> QED BY <1>5, <1>6 DEF Lost, Links, i

(* The Linux client's table of paths, the library's slots and the open      *)
(* descriptors always describe the same sockets: for any number of          *)
(* interfaces and paths, any limit of retries and any size of the netlink   *)
(* buffer, whatever is dropped, re-added, taken back and compacted, and     *)
(* whichever call fails on the way.                                         *)
THEOREM PathsCorrespond == PathsSpec => []Corresponds
<1>1. PathsSpec => []PathsInv
  BY PathsInitInv, PathsNextInv, PTL DEF PathsSpec
<1> QED BY <1>1, InvCorresponds, PTL

(* Once the netlink monitor has handled every message and missed none, no   *)
(* path stays on an interface that is gone, down, without carrier or        *)
(* without an address, unless the control API added it there: however the   *)
(* losses, the returns, the recovery timer and the messages that tell of    *)
(* them interleave.                                                         *)
THEOREM PathsDropDead == PathsSpec => []DeadInterfaceDropped
<1>1. PathsSpec => []PathsInv
  BY PathsInitInv, PathsNextInv, PTL DEF PathsSpec
<1> QED BY <1>1, InvDeadInterfaceDropped, PTL
=============================================================================
