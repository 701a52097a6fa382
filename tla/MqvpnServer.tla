----------------------------- MODULE MqvpnServer -----------------------------
(***************************************************************************)
(* The server library of mqvpn (src/mqvpn_server.c): connections, the      *)
(* session table indexed by address offset, leases and pinned addresses of *)
(* named users, and user management.                                       *)
(*                                                                         *)
(* Everything runs on the tick thread: an xquic callback and a call of the *)
(* control socket are atomic steps.  A connection sends one CONNECT-IP     *)
(* request, as the client in this repository does.                         *)
(*                                                                         *)
(* mqvpn_server_new reserves the configured fixed addresses as             *)
(* mqvpn_server_set_user_fixed_ip does while nobody is connected, so a     *)
(* configured server is a state that AddUser and SetUserFixedIp reach.     *)
(***************************************************************************)
EXTENDS AddrPool, FiniteSets

CONSTANTS
    Conns,          \* svr_conn_t objects; one that was freed may be allocated again
    NoConn,         \* NULL
    Names,          \* user names, of the configuration and of x-user headers
    MaxClients,     \* s->max_clients
    MaxUsers,       \* MQVPN_MAX_USERS, also the size of the lease table
    AuthKey,        \* 1 iff config.auth_key is set
    FixedIps,       \* offsets of the addresses the operator pins
    MaxMarred       \* bound: addresses that get marred

ASSUME ServerAssumption ==
    /\ NoConn \notin Conns /\ "" \notin Names /\ "(global)" \notin Names
    /\ MaxClients \in Nat /\ MaxUsers \in Nat \ {0}
    /\ AuthKey \in {0, 1} /\ MaxMarred \in Nat
    /\ FixedIps \subseteq Offsets

VARIABLES
    conns,          \* the connections
    sessions,       \* s->sessions
    n_sessions,     \* s->n_sessions
    pool,           \* s->pool
    leases,         \* s->leases
    pinned_ips,     \* s->pinned_ips, one entry per user
    users,          \* names of config.user_names
    marred          \* history: addresses that were given to a connection while
                    \* another one had them, or released by a response that
                    \* failed although they were reserved before

sessionVars == <<conns, sessions, n_sessions>>
addressVars == <<pool, leases, pinned_ips>>
vars        == <<sessionVars, addressVars, users, marred>>

LeaseSlots == 1 .. MaxUsers
Usernames  == Names \cup {"", "(global)"}
Lease      == [username : Usernames, offset : 0 .. PoolSize]
Pin        == [username : Names, offset : Offsets]

(* svr_conn_t: open is 0 before cb_h3_conn_create and once it is freed;    *)
(* requested is 1 once CONNECT-IP has been handled; closing is 1 once      *)
(* xqc_h3_conn_close was called.                                           *)
Conn == [open : {0, 1}, requested : {0, 1}, closing : {0, 1}, username : Usernames,
         assigned_ip : 0 .. PoolSize, tunnel_established : {0, 1}]

NewConn(open) == [open |-> open, requested |-> 0, closing |-> 0, username |-> "",
                  assigned_ip |-> 0, tunnel_established |-> 0]

-----------------------------------------------------------------------------
(* Lookups *)

PinsOf(u) == {p \in pinned_ips : p.username = u}

(* Mutant: the old address of a pin is always given up at once. *)
NeverConnected(u) == FALSE

(* Some session of the table belongs to u: the is_connected loops. *)
IsConnected(u) == \E o \in Offsets : sessions[o] # NoConn /\ conns[sessions[o]].username = u

(* The first lease entry of a name. *)
LeasesOf(u) == {i \in LeaseSlots : leases[i].offset # 0 /\ leases[i].username = u}

LeasedOffset(u) ==
    IF LeasesOf(u) = {} THEN 0
    ELSE leases[CHOOSE i \in LeasesOf(u) : \A j \in LeasesOf(u) : i <= j].offset

-----------------------------------------------------------------------------
(* Connections *)

(* cb_h3_conn_create *)
H3ConnCreate(c) ==
    /\ conns[c].open = 0
    /\ conns' = [conns EXCEPT ![c] = NewConn(1)]
    /\ UNCHANGED <<sessions, n_sessions, addressVars, users, marred>>

(* svr_auth_required, svr_auth_check: a client presents the global key, or *)
(* the key of user n.                                                      *)
AuthRequired == AuthKey = 1 \/ users # {}

AuthCheck(global, n) == IF global = 1 THEN AuthKey = 1 ELSE n \in users

(* The name the connection gets; n is the x-user header of a client with   *)
(* the global key.                                                         *)
Identity(global, n) ==
    IF ~AuthRequired THEN ""
    ELSE IF global = 1 /\ n = "" THEN "(global)" ELSE n

(* Step 2 of svr_masque_send_response: the address for user u, the pinned  *)
(* one, the leased one if it is free, else the next of the pool; 0 if      *)
(* there is none.                                                          *)
ChooseIp(u) ==
    IF u # "" /\ PinsOf(u) # {} THEN (CHOOSE p \in PinsOf(u) : TRUE).offset
    ELSE IF u # "" /\ CanAllocAt(pool, LeasedOffset(u)) THEN LeasedOffset(u)
    ELSE AllocOffset(pool)

PoolAfterChoice(u) ==
    IF u # "" /\ PinsOf(u) # {} THEN pool
    ELSE IF u # "" /\ CanAllocAt(pool, LeasedOffset(u)) THEN AllocAt(pool, LeasedOffset(u))
    ELSE Alloc(pool)

(* The addresses connections have. *)
HeldOffsets == {conns[c].assigned_ip : c \in Conns} \ {0}

(* Mutant: one client too many. *)
PastMaxClients == n_sessions > MaxClients

(* max_clients reached *)
AtMaxClients == n_sessions >= MaxClients

(* svr_masque_send_response for user u.  sent is "all", "headers" when     *)
(* only the 200 went out, or "nothing".                                    *)
MasqueSendResponse(c, u, sent) ==
    LET ip == ChooseIp(u)
        cn == [conns[c] EXCEPT !.requested = 1, !.username = u]
    IN  \/ /\ AtMaxClients \/ sent = "nothing" \/ ip = 0
           /\ conns' = [conns EXCEPT ![c] = cn]
           /\ UNCHANGED <<sessions, n_sessions, pool, marred>>
        \/ /\ ~AtMaxClients /\ sent = "headers" /\ ip # 0
           /\ conns' = [conns EXCEPT ![c] = cn]
           /\ pool' = Release(PoolAfterChoice(u), ip)
           /\ marred' = IF ip \in pool.used THEN marred \cup {ip} ELSE marred
           /\ UNCHANGED <<sessions, n_sessions>>
        \/ /\ ~AtMaxClients /\ sent = "all" /\ ip # 0
           /\ conns' = [conns EXCEPT ![c] = [cn EXCEPT !.assigned_ip = ip,
                                                       !.tunnel_established = 1]]
           /\ pool' = PoolAfterChoice(u)
           /\ sessions' = [sessions EXCEPT ![ip] = c]
           /\ n_sessions' = n_sessions + 1
           /\ marred' = IF ip \in HeldOffsets THEN marred \cup {ip} ELSE marred

(* cb_request_read with a CONNECT-IP request: svr_connect_ip_on_request.  A *)
(* request that lacks a header is turned down like one with a wrong key.    *)
ConnectIpRequest(c, global, n, sent) ==
    LET u == Identity(global, n) IN
    /\ conns[c].open = 1 /\ conns[c].requested = 0 /\ conns[c].closing = 0
    /\ IF AuthRequired /\ ~AuthCheck(global, n)
       THEN /\ conns' = [conns EXCEPT ![c].requested = 1]
            /\ UNCHANGED <<sessions, n_sessions, pool, marred>>
       ELSE MasqueSendResponse(c, u, sent) /\ Cardinality(marred') <= MaxMarred
    /\ UNCHANGED <<leases, pinned_ips, users>>

(* cb_request_close on the CONNECT-IP stream. *)
RequestClose(c) ==
    /\ conns[c].open = 1 /\ conns[c].tunnel_established = 1
    /\ conns' = [conns EXCEPT ![c].tunnel_established = 0]
    /\ UNCHANGED <<sessions, n_sessions, addressVars, users, marred>>

(* The lease entry cb_h3_conn_close writes: the first that is empty or the *)
(* user's.  The table may be full.                                         *)
LeaseEntry(u) == {i \in LeaseSlots : leases[i].offset = 0 \/ leases[i].username = u}

SaveLease(u, o) ==
    IF u = "" \/ LeaseEntry(u) = {} THEN leases
    ELSE [leases EXCEPT ![CHOOSE i \in LeaseEntry(u) : \A j \in LeaseEntry(u) : i <= j] =
             [username |-> u, offset |-> o]]

(* The connection is the one in the session table. *)
HasSession(c) == conns[c].assigned_ip # 0 /\ sessions[conns[c].assigned_ip] = c

(* is_pinned *)
IsPinned(o) == \E p \in pinned_ips : p.offset = o

(* cb_h3_conn_close: the session goes, the address is leased and released  *)
(* unless it is pinned, and the connection is freed.                       *)
H3ConnClose(c) ==
    LET o    == conns[c].assigned_ip
        keep == o = 0 \/ IsPinned(o)
    IN  /\ conns[c].open = 1
        /\ sessions' = IF HasSession(c) THEN [sessions EXCEPT ![o] = NoConn] ELSE sessions
        /\ n_sessions' = IF HasSession(c) THEN n_sessions - 1 ELSE n_sessions
        /\ leases' = IF keep THEN leases ELSE SaveLease(conns[c].username, o)
        /\ pool' = IF keep THEN pool ELSE Release(pool, o)
        /\ conns' = [conns EXCEPT ![c] = NewConn(0)]
        /\ UNCHANGED <<pinned_ips, users, marred>>

-----------------------------------------------------------------------------
(* Users *)

(* mqvpn_server_add_user; a known name only gets a new key. *)
AddUser(u) ==
    /\ u \notin users
    /\ Cardinality(users) < MaxUsers
    /\ users' = users \cup {u}
    /\ UNCHANGED <<sessionVars, addressVars, marred>>

(* The pool once the pinned address of u is given up, which it is not while *)
(* u is connected: the close of that connection releases it.                *)
PoolWithoutPin(u) ==
    IF PinsOf(u) # {} /\ ~IsConnected(u)
    THEN Release(pool, (CHOOSE p \in PinsOf(u) : TRUE).offset)
    ELSE pool

(* Mutant: only tunnels that are up are closed. *)
DisconnectLive(u) ==
    [c \in Conns |->
        IF conns[c].username = u /\ conns[c].tunnel_established = 1 /\ HasSession(c)
        THEN [conns[c] EXCEPT !.closing = 1] ELSE conns[c]]

(* xqc_h3_conn_close on every session of u *)
DisconnectSessions(u) ==
    [c \in Conns |->
        IF conns[c].username = u /\ \E o \in Offsets : sessions[o] = c
        THEN [conns[c] EXCEPT !.closing = 1] ELSE conns[c]]

(* mqvpn_server_remove_user *)
RemoveUser(u) ==
    /\ u \in users
    /\ users' = users \ {u}
    /\ pool' = PoolWithoutPin(u)
    /\ pinned_ips' = pinned_ips \ PinsOf(u)
    /\ conns' = DisconnectSessions(u)
    /\ UNCHANGED <<sessions, n_sessions, leases, marred>>

(* mqvpn_server_set_user_fixed_ip with ip = "" *)
ClearUserFixedIp(u) ==
    /\ u \in users
    /\ pool' = PoolWithoutPin(u)
    /\ pinned_ips' = pinned_ips \ PinsOf(u)
    /\ UNCHANGED <<sessionVars, leases, users, marred>>

(* mqvpn_server_set_user_fixed_ip: the old address is given up before the  *)
(* new one is reserved, also when that fails.                              *)
SetUserFixedIp(u, o) ==
    LET pool1 == PoolWithoutPin(u)
        pins1 == pinned_ips \ PinsOf(u)
    IN  /\ u \in users
        /\ IF CanAllocAt(pool1, o) /\ Cardinality(pins1) < MaxUsers
           THEN /\ pool' = AllocAt(pool1, o)
                /\ pinned_ips' = pins1 \cup {[username |-> u, offset |-> o]}
           ELSE pool' = pool1 /\ pinned_ips' = pins1
        /\ UNCHANGED <<sessionVars, leases, users, marred>>

-----------------------------------------------------------------------------
(* The specification *)

Init ==
    /\ conns = [c \in Conns |-> NewConn(0)]
    /\ sessions = [o \in Offsets |-> NoConn] /\ n_sessions = 0
    /\ pool = PoolInit
    /\ leases = [i \in LeaseSlots |-> [username |-> "", offset |-> 0]]
    /\ pinned_ips = {} /\ users = {} /\ marred = {}

Next ==
    \/ \E c \in Conns :
          \/ H3ConnCreate(c)
          \/ \E global \in {0, AuthKey}, n \in Names \cup {""},
                sent \in {"all", "headers", "nothing"} : ConnectIpRequest(c, global, n, sent)
          \/ RequestClose(c)
          \/ H3ConnClose(c)
    \/ \E u \in Names :
          \/ AddUser(u)
          \/ RemoveUser(u)
          \/ ClearUserFixedIp(u)
          \/ \E o \in FixedIps : SetUserFixedIp(u, o)

Spec == Init /\ [][Next]_vars

-----------------------------------------------------------------------------
(* Properties *)

(* Every variable has its type. *)
TypeOK ==
    /\ conns \in [Conns -> Conn]
    /\ sessions \in [Offsets -> Conns \cup {NoConn}] /\ n_sessions \in Nat
    /\ pool \in Pool
    /\ leases \in [LeaseSlots -> Lease]
    /\ pinned_ips \subseteq Pin
    /\ users \subseteq Names /\ marred \subseteq Offsets

(* s->sessions never points to a freed svr_conn_t, nor to a connection     *)
(* with another address: cb_h3_conn_close finds its entry by assigned_ip,  *)
(* although a reconnect of a pinned user or a released address may have    *)
(* put another connection there.                                           *)
NoDanglingSession ==
    \A o \in Offsets : sessions[o] # NoConn =>
        conns[sessions[o]].open = 1 /\ conns[sessions[o]].assigned_ip = o

(* s->n_sessions, which is compared with max_clients and reported as       *)
(* n_clients, is the number of entries of the session table.               *)
Table        == {o \in Offsets : sessions[o] # NoConn}
SessionCount == n_sessions = Cardinality(Table)

(* No two connections have the same inner address. *)
AddressExclusive ==
    \A c, d \in Conns : conns[c].assigned_ip # 0 /\ conns[c].assigned_ip = conns[d].assigned_ip
        => c = d

PinnedOffsets == {p.offset : p \in pinned_ips}

(* The pool's flags are exact: an address is marked used iff a connection  *)
(* has it or it is pinned, so none is leaked and none given out twice.     *)
PoolExact == pool.used = HeldOffsets \cup PinnedOffsets

(* No connection has an address that mqvpn_addr_pool_alloc could give away,*)
(* those of S aside.                                                       *)
HeldIsUsedBut(S) == HeldOffsets \ S \subseteq pool.used

(* The lease table has one entry per name, so the first entry found by     *)
(* svr_masque_send_response is the one cb_h3_conn_close has written last.  *)
LeaseUnique ==
    \A i, j \in LeaseSlots :
        leases[i].offset # 0 /\ leases[j].offset # 0 /\ leases[i].username = leases[j].username
            => i = j

(* A pinned address is kept out of the dynamic pool and belongs to one     *)
(* user; nobody else is connected with it.  Those of S aside.              *)
PinnedExclusiveBut(S) ==
    \A p \in pinned_ips : p.offset \notin S =>
        /\ p.offset \in pool.used
        /\ \A q \in pinned_ips : q.offset = p.offset => q.username = p.username
        /\ \A c \in Conns : conns[c].assigned_ip = p.offset => conns[c].username = p.username

(* mqvpn_server_remove_user closes what the user had open, also when he    *)
(* was connected several times.  Connections that lost their place in the  *)
(* session table are not found; that takes a marred address.  (Without a   *)
(* global key every named connection belongs to a configured user.)        *)
RemovedUserDisconnected ==
    \A c \in Conns :
        /\ conns[c].assigned_ip # 0 /\ conns[c].username \in Names \ users
        /\ HasSession(c) \/ conns[c].assigned_ip \notin marred
        => conns[c].closing = 1

(* Setting a fixed address never leaves the user without one he had. *)
PinSticks ==
    [][\A u \in Names : PinsOf(u) # {} /\ (\E o \in FixedIps : SetUserFixedIp(u, o))
          => PinsOf(u)' # {}]_vars

(* What the server promises, with the holder of an address read off the    *)
(* connections: AddressAssignment is implemented by allocation, leases,    *)
(* failed responses and closes.                                            *)
Holder == [o \in Offsets \ {1} |->
              IF \E c \in Conns : conns[c].assigned_ip = o
              THEN CHOOSE c \in Conns : conns[c].assigned_ip = o ELSE NoConn]

Promise == INSTANCE AddressAssignment
    WITH Clients <- Conns, Nobody <- NoConn, Addresses <- Offsets \ {1}, Limit <- MaxClients,
         holder <- Holder

KeepsPromise == Promise!Spec

(* The server's tables agree in every state: sessions, their count, the    *)
(* addresses of the connections and the flags of the pool, although a      *)
(* failed response, a reconnect and a close each change only some of them. *)
TablesExact ==
    TypeOK /\ NoDanglingSession /\ SessionCount /\ AddressExclusive /\ PoolExact

(* Fixed addresses are set, moved and cleared while clients connect, fail  *)
(* half-way, connect again and leave.  A response that fails half-way puts *)
(* a pinned address back into the pool, and a pinned user who connects     *)
(* again shares it with his old connection; nothing but that address is    *)
(* affected then.  Every other pinned one is its user's alone, none in use *)
(* can be given away, no session entry dangles, leases stay unique, and    *)
(* the count of sessions is exact until then and never too low.            *)
PinsSafe ==
    /\ PinnedExclusiveBut(marred) /\ HeldIsUsedBut(marred)
    /\ NoDanglingSession /\ LeaseUnique
    /\ n_sessions >= Cardinality(Table) /\ (marred = {} => SessionCount)

(* What the code says of pinned addresses ("Pinned IPs are permanently     *)
(* reserved", mqvpn_server.c) and of removed users, without exceptions.    *)
PinnedExclusive == PinnedExclusiveBut({})
HeldIsUsed == HeldIsUsedBut({})
RemovedUserGone ==
    \A c \in Conns : conns[c].assigned_ip # 0 /\ conns[c].username \in Names \ users
        => conns[c].closing = 1
=============================================================================
