------------------------------ MODULE DataPath -------------------------------
(***************************************************************************)
(* The packets of the tunnel, from the TUN device of one side to the TUN   *)
(* device of the other, in both directions: source validation, the choice  *)
(* between stamped and raw datagrams, ICMP answers, the numbering of the   *)
(* reorder shim's send side (ReorderTx), the back-pressure latches of the  *)
(* two ends and the event loops that stop and resume reading the TUN.      *)
(* Sources: src/mqvpn_client.c (mqvpn_client_on_tun_packet, cb_dgram_read),*)
(* src/mqvpn_server.c (mqvpn_server_on_tun_packet, cb_dgram_read),         *)
(* src/platform/linux/platform_linux.c (on_tun_read, schedule_next_tick).  *)
(*                                                                         *)
(* A connection is used once; a client that reconnects uses another one.   *)
(* Its two ends close at times of their own.  The handshake and the leases *)
(* are MqvpnClient's and MqvpnServer's subject: here Connect stands for a  *)
(* completed CONNECT-IP exchange, reorder negotiation included, which may  *)
(* take over the address of a connection that is still established.  The   *)
(* receive engine (ReorderRx) may hold a packet for a while; its delay is  *)
(* part of the time a datagram stays undelivered.                          *)
(***************************************************************************)
EXTENDS ReorderTx

CONSTANTS
    Clients, Conns, Addrs,
    NoClient,    \* not a client
    NoConn,      \* not a connection
    V6Clients,   \* clients that are given an IPv6 address too
    Unchecked,   \* connections whose client end is another program, which
                 \* does not look at the source of what it sends
    Lens,        \* sizes of the packets read from a TUN
    Ttls,        \* their hop limits
    MssVals,     \* room for one packet in a datagram; 0: not known
    MinMtu,      \* 68: below it the room is not used as an MTU
    MinV6,       \* IPV6_MIN_MTU
    MtuCap,      \* configured tun_mtu, 0 for none
    PtbLimit,    \* ICMP answers per second
    MaxPkts,     \* bound: packets read from the TUN devices
    MaxEvents    \* bound: ticks of the clock, changes of the room,
                 \* failed allocations, connections after the first,
                 \* packets that are not sent or go without the number
                 \* they should have, and packets of a client at the end
                 \* of their life or with a wrong source

ASSUME PathAssumption ==
    /\ Conns \subseteq Nat /\ Addrs \subseteq Nat \ {0}
    /\ V6Clients \subseteq Clients /\ Unchecked \subseteq Conns /\ NoClient \notin Clients /\ NoConn \notin Conns
    /\ Lens \subseteq Nat \ {0} /\ MssVals \subseteq Nat /\ Ttls \subseteq Nat \ {0}
    /\ {MinMtu, MinV6, MtuCap, PtbLimit, MaxPkts, MaxEvents} \subseteq Nat
    /\ Hdr <= MinMtu /\ MinMtu <= MinV6 /\ (MtuCap = 0 \/ MinMtu <= MtuCap)

Ends == {"cli", "svr"}

Peer(e) == IF e = "cli" THEN "svr" ELSE "cli"

VARIABLES
    con,     \* con[c]: owner, address and, per end, the state kept for it
    sessions,   \* sessions[a]: the connection that packets for a go to
    nSessions,  \* the server's count of them
    bp,      \* bp[k]: the client's backpressure flag
    paused,  \* the server's tun_paused
    mtu,     \* mtu[k]: MTU of the client's TUN
    tokens,  \* tokens[e]: ICMP answers left in this second
    hist,    \* datagrams the transport accepted: all it has not delivered, and
             \* what is left of the stamped ones after their delivery
    out,     \* what the last step wrote to a TUN or sent as an ICMP answer
    n,       \* packets read so far
    now,     \* time
    events   \* bounded events so far

vars == <<con, sessions, nSessions, bp, paused, mtu, tokens, hist, out, n, now, events>>

NewEnd == [up |-> FALSE, eng |-> FALSE, peer |-> FALSE, mss |-> 0, owed |-> FALSE,
           tab |-> EmptyTable]

Nothing == [kind |-> "none"]

ConnOf(k) ==
    LET cs == {c \in Conns : con[c].owner = k /\ con[c]["cli"].up}
    IN  IF cs = {} THEN NoConn ELSE CHOOSE c \in cs : TRUE

(* get_interest and the (svr_)schedule_next_tick that ends every handler:  *)
(* the TUN is watched exactly while the library wants packets              *)
ClientReads(k) == ConnOf(k) # NoConn /\ ~bp[k]
ServerReads == ~paused

Least(x, y) == IF x < y THEN x ELSE y

(* apply_mtu_cap *)
Capped(m) == IF MtuCap > 0 THEN Least(m, MtuCap) ELSE m

Floor6(k, m) == IF k \in V6Clients /\ m < MinV6 THEN MinV6 ELSE m

(* the MTU the TUN starts with: 8 bytes are kept for the reorder header *)
FirstMtu(k, m) ==
    LET room == Capped(Floor6(k, IF m >= MinMtu THEN m ELSE MinV6))
    IN  IF Mode # "off" THEN Floor6(k, room - Hdr) ELSE room

(* Mutant: a side offers the shim by its configuration alone *)
AdvertiseByMode(eng) == Mode # "off"

(* mqvpn_reorder_should_advertise *)
ShouldAdvertise(eng) == Mode # "off" /\ eng

Init ==
    /\ con = [c \in Conns |-> [owner |-> NoClient, addr |-> 0, cli |-> NewEnd, svr |-> NewEnd]]
    /\ sessions = [a \in Addrs |-> NoConn] /\ nSessions = 0
    /\ bp = [k \in Clients |-> FALSE]
    /\ paused = FALSE
    /\ mtu = [k \in Clients |-> 0]
    /\ tokens = [e \in Ends |-> PtbLimit]
    /\ hist = {} /\ out = Nothing
    /\ n = 0 /\ now = 0 /\ events = 0

(* A connection is established: each side has its engines (ce, se tell     *)
(* whether they could be allocated), the client offers the shim in its     *)
(* request and the server echoes it.  The server enters it for the address *)
(* it chose; a pinned one may still be entered for another connection,     *)
(* which goes on without being told.  Nothing depends on which connections *)
(* and addresses they are: each is used for the first time in order.       *)
Connect(k, c, a, ce, se, m) ==
    LET alloc(x) == Mode # "off" /\ x
        asked == ShouldAdvertise(alloc(ce))
        echoed == ShouldAdvertise(alloc(se)) /\ asked
    IN
    /\ con[c].owner = NoClient /\ ConnOf(k) = NoConn
    /\ \A d \in Conns : d < c => con[d].owner # NoClient
    /\ \A b \in Addrs : b < a => \E d \in Conns : con[d].addr = b
    /\ con' = [con EXCEPT ![c] =
           [owner |-> k, addr |-> a,
            cli |-> [NewEnd EXCEPT !.up = TRUE, !.eng = alloc(ce), !.peer = echoed, !.mss = m],
            svr |-> [NewEnd EXCEPT !.up = TRUE, !.eng = alloc(se), !.peer = asked, !.mss = m]]]
    /\ sessions' = [sessions EXCEPT ![a] = c] /\ nSessions' = nSessions + 1
    /\ events' = events + Cardinality({i \in 1..4 : <<~ce, ~se, m = 0, \E d \in Conns : con[d].owner # NoClient>>[i]})
    /\ events' <= MaxEvents
    /\ mtu' = [mtu EXCEPT ![k] = FirstMtu(k, m)]
    /\ out' = Nothing
    /\ UNCHANGED <<bp, paused, tokens, hist, n, now>>

(* ptb_rate_allow, then the ICMP answer or silence *)
Icmp(e, answer) ==
    IF tokens[e] > 0
    THEN out' = answer /\ tokens' = [tokens EXCEPT ![e] = @ - 1]
    ELSE out' = Nothing /\ UNCHANGED tokens

(* The reorder gate: what Peek says when stamping was negotiated and the   *)
(* datagrams' room is known, raw otherwise                                 *)
Gate(e, c, f, len) ==
    LET end == con[c][e]
    IN  IF end.eng /\ end.peer /\ Mode # "off" /\ end.mss > 0
        THEN Peek(end.tab, f, len, end.mss)
        ELSE {[tab |-> end.tab, act |-> "raw", seq |-> 0, reset |-> FALSE]}

(* Mutant: the answer to a packet too big to be stamped forgets the header *)
EffMtuBare(act, mss) == mss

(* the MTU told to the sender of a packet that is too big *)
EffMtu(act, mss) == IF act = "drop_mtu" THEN mss - Least(Hdr, mss) ELSE mss

(* too big to be stamped, or too big to be sent raw *)
TooBig(p, len, mss) ==
    \/ p.act = "drop_mtu"
    \/ p.act = "raw" /\ mss > 0 /\ len > mss

KeepTable(e, c, p) == con' = [con EXCEPT ![c][e].tab = p.tab]

AnswerTooBig(e, c, p, f, len) ==
    /\ KeepTable(e, c, p)
    /\ Icmp(e, [kind |-> "ptb", e |-> e, c |-> c, f |-> f, len |-> len,
                mtu |-> EffMtu(p.act, con[c][e].mss)])
    /\ UNCHANGED <<bp, paused, hist>>

(* The transport takes the datagram: only now the numbering advances *)
Send(e, c, p, f, pkt) ==
    /\ con' = [con EXCEPT ![c][e].tab = IF p.act = "stamp" THEN Commit(p.tab, f) ELSE p.tab]
    /\ hist' = hist \cup {pkt}
    /\ UNCHANGED <<bp, paused>>

(* Mutant: a refused datagram has its number all the same *)
RefusedNumbered(e, c, p, f) ==
    /\ con' = [con EXCEPT ![c][e] = [con[c][e] EXCEPT
                   !.tab = IF p.act = "stamp" THEN Commit(p.tab, f) ELSE p.tab,
                   !.owed = TRUE]]
    /\ IF e = "cli"
       THEN bp' = [bp EXCEPT ![con[c].owner] = TRUE] /\ UNCHANGED paused
       ELSE paused' = TRUE /\ UNCHANGED bp
    /\ UNCHANGED hist

(* The transport is full (EAGAIN): the packet is gone, reading stops and a *)
(* write notification is owed                                              *)
Refused(e, c, p, f) ==
    /\ con' = [con EXCEPT ![c][e] = [con[c][e] EXCEPT !.tab = p.tab, !.owed = TRUE]]
    /\ IF e = "cli"
       THEN bp' = [bp EXCEPT ![con[c].owner] = TRUE] /\ UNCHANGED paused
       ELSE paused' = TRUE /\ UNCHANGED bp
    /\ UNCHANGED hist

(* tun_send_datagram and its server counterpart *)
SendDatagram(e, c, p, f, pkt) ==
    /\ \/ Send(e, c, p, f, pkt)
       \/ Refused(e, c, p, f)
       \/ KeepTable(e, c, p) /\ UNCHANGED <<bp, paused, hist>>
    /\ out' = Nothing /\ UNCHANGED tokens

Datagram(e, c, p, f, a, ttl) ==
    [id |-> n, c |-> c, e |-> e, f |-> f, stamped |-> p.act = "stamp",
     seq |-> IF p.act = "stamp" THEN p.seq ELSE 0,
     reset |-> p.act = "stamp" /\ p.reset, at |-> now, done |-> FALSE, a |-> a, ttl |-> ttl]

(* A packet was read.  An odd one, one that was not sent and one without a *)
(* number although its end numbers is an event                             *)
Offered(odd) ==
    LET smooth == \E x \in hist' \ hist : x.stamped \/ ~con[x.c][x.e].peer
    IN
    /\ n' = n + 1
    /\ events' = IF odd \/ ~smooth THEN events + 1 ELSE events
    /\ events' <= MaxEvents

(* mqvpn_client_on_tun_packet: a packet of flow f with source address a *)
ClientTunPacket(k, f, len, a, ttl) ==
    LET c == ConnOf(k)
    IN
    /\ n < MaxPkts /\ ClientReads(k)
    /\ IF a # con[c].addr /\ c \notin Unchecked
       THEN out' = Nothing /\ UNCHANGED <<con, bp, paused, tokens, hist>>
       ELSE \E p \in Gate("cli", c, f, len) :
              IF TooBig(p, len, con[c]["cli"].mss)
              THEN AnswerTooBig("cli", c, p, f, len)
              ELSE SendDatagram("cli", c, p, f, Datagram("cli", c, p, f, a, ttl))
    /\ Offered(ttl <= 1 \/ a # con[c].addr)
    /\ UNCHANGED <<sessions, nSessions, mtu, now>>

(* mqvpn_server_on_tun_packet: a packet of flow f for address a; its hop   *)
(* limit is lowered before it is sent                                      *)
ServerTunPacket(f, len, a, ttl) ==
    LET c == sessions[a]
    IN
    /\ n < MaxPkts /\ ServerReads /\ nSessions > 0
    /\ IF c = NoConn
       THEN Icmp("svr", [kind |-> "unreachable"]) /\ UNCHANGED <<con, bp, paused, hist>>
       ELSE \E p \in Gate("svr", c, f, len) :
              IF TooBig(p, len, con[c]["svr"].mss)
              THEN AnswerTooBig("svr", c, p, f, len)
              ELSE IF ttl <= 1
                   THEN /\ KeepTable("svr", c, p)
                        /\ Icmp("svr", [kind |-> "expired"])
                        /\ UNCHANGED <<bp, paused, hist>>
                   ELSE SendDatagram("svr", c, p, f, Datagram("svr", c, p, f, a, ttl - 1))
    /\ Offered(FALSE)
    /\ UNCHANGED <<sessions, nSessions, mtu, now>>

(* forward_inner_ip of the two ends: a packet with a source that is not    *)
(* the connection's is dropped by the server; one at the end of its life   *)
(* is answered, by the server within the allowance; what is left is        *)
(* written to the TUN                                                      *)
ForwardInner(x) ==
    LET e == Peer(x.e)
    IN
    IF e = "svr" /\ x.a # con[x.c].addr
    THEN out' = Nothing /\ UNCHANGED tokens
    ELSE IF x.ttl <= 1
         THEN IF e = "svr" THEN Icmp("svr", [kind |-> "expired"])
              ELSE out' = [kind |-> "expired"] /\ UNCHANGED tokens
         ELSE /\ out' = [kind |-> "pkt", e |-> e, c |-> x.c, a |-> x.a, ttl |-> x.ttl - 1]
              /\ UNCHANGED tokens

(* The history without the contents of the datagrams xs, which arrived or  *)
(* never can; of a raw one nothing is left                                 *)
Delivered(h, xs) ==
    (h \ xs) \cup {[x EXCEPT !.done = TRUE, !.a = 0, !.ttl = 0] : x \in {y \in xs : y.stamped}}

(* cb_dgram_read: a stamped datagram needs the receive engine *)
DgramRead(x) ==
    LET end == con[x.c][Peer(x.e)]
    IN
    /\ ~x.done /\ end.up
    /\ hist' = Delivered(hist, {x})
    /\ IF x.stamped /\ ~end.eng
       THEN out' = Nothing /\ UNCHANGED tokens
       ELSE ForwardInner(x)
    /\ UNCHANGED <<con, sessions, nSessions, bp, paused, mtu, n, now, events>>

(* Mutant: the server waits for the queue and forgets to read again *)
DgramWriteQuiet(e, c) ==
    /\ con[c][e].up /\ con[c][e].owed
    /\ con' = [con EXCEPT ![c][e].owed = FALSE]
    /\ IF e = "cli" THEN bp' = [bp EXCEPT ![con[c].owner] = FALSE] ELSE UNCHANGED bp
    /\ out' = Nothing
    /\ UNCHANGED <<sessions, nSessions, paused, mtu, tokens, hist, n, now, events>>

(* cb_dgram_write: there is room again on a connection that refused *)
DgramWrite(e, c) ==
    /\ con[c][e].up /\ con[c][e].owed
    /\ con' = [con EXCEPT ![c][e].owed = FALSE]
    /\ IF e = "cli"
       THEN bp' = [bp EXCEPT ![con[c].owner] = FALSE] /\ UNCHANGED paused
       ELSE paused' = FALSE /\ UNCHANGED bp
    /\ out' = Nothing
    /\ UNCHANGED <<sessions, nSessions, mtu, tokens, hist, n, now, events>>

(* cb_dgram_mss_updated: on the client the TUN's MTU follows *)
MssUpdated(e, c, m) ==
    LET k == con[c].owner
    IN
    /\ con[c][e].up /\ m # con[c][e].mss /\ events < MaxEvents
    /\ events' = events + 1
    /\ con' = [con EXCEPT ![c][e].mss = m]
    /\ mtu' = IF e = "cli" /\ m >= MinMtu
              THEN [mtu EXCEPT ![k] = Capped(Floor6(k, m))] ELSE mtu
    /\ out' = Nothing
    /\ UNCHANGED <<sessions, nSessions, bp, paused, tokens, hist, n, now>>

(* Mutant: the server removes the entry of the address, whosever it is *)
RemoveAny(c) ==
    /\ sessions' = [sessions EXCEPT ![con[c].addr] = NoConn]
    /\ nSessions' = nSessions - 1

(* The entry of a closed connection goes, if it is its own *)
RemoveSession(c) ==
    IF sessions[con[c].addr] = c
    THEN /\ sessions' = [sessions EXCEPT ![con[c].addr] = NoConn]
         /\ nSessions' = nSessions - 1
    ELSE UNCHANGED <<sessions, nSessions>>

(* One end's connection is torn down with its reorder engines; the latches *)
(* stay as they are, and a notification it owed (owed) never comes         *)
Closed(e, c) ==
    /\ con[c][e].up
    /\ con' = [con EXCEPT ![c][e] = [NewEnd EXCEPT !.eng = con[c][e].eng, !.owed = con[c][e].owed]]
    /\ IF e = "svr" THEN RemoveSession(c) ELSE UNCHANGED <<sessions, nSessions>>
    /\ hist' = IF con[c][Peer(e)].up
               THEN Delivered(hist, {x \in hist : x.c = c /\ x.e = Peer(e)})
               ELSE {x \in hist : x.c # c}
    /\ out' = Nothing
    /\ UNCHANGED <<bp, paused, mtu, tokens, n, now, events>>

(* Time passes; a second refills the ICMP allowance *)
Elapse ==
    /\ events < MaxEvents
    /\ events' = events + 1 /\ now' = now + 1
    /\ con' = [c \in Conns |-> [con[c] EXCEPT !.cli.tab = Aged(@), !.svr.tab = Aged(@)]]
    /\ tokens' = [e \in Ends |-> PtbLimit]
    /\ out' = Nothing
    /\ UNCHANGED <<sessions, nSessions, bp, paused, mtu, hist, n>>

Next ==
    \/ \E k \in Clients, c \in Conns, a \in Addrs, ce, se \in BOOLEAN, m \in MssVals :
          Connect(k, c, a, ce, se, m)
    \/ \E k \in Clients, f \in Flows, len \in Lens, a \in Addrs, ttl \in Ttls :
          ClientTunPacket(k, f, len, a, ttl)
    \/ \E f \in Flows, len \in Lens, a \in Addrs, ttl \in Ttls :
          ServerTunPacket(f, len, a, ttl)
    \/ \E x \in hist : DgramRead(x)
    \/ \E e \in Ends, c \in Conns : DgramWrite(e, c) \/ Closed(e, c)
    \/ \E e \in Ends, c \in Conns, m \in MssVals : MssUpdated(e, c, m)
    \/ Elapse

Spec == Init /\ [][Next]_vars

-----------------------------------------------------------------------------
(* Every variable keeps its shape: a send-flow table never exceeds its     *)
(* limit, whatever creates and evicts entries (get_or_create).             *)
TypeOK ==
    /\ sessions \in [Addrs -> Conns \cup {NoConn}] /\ nSessions \in Int
    /\ bp \in [Clients -> BOOLEAN] /\ paused \in BOOLEAN
    /\ mtu \in [Clients -> Nat] /\ tokens \in [Ends -> 0..PtbLimit]
    /\ \A c \in Conns, e \in Ends :
          /\ con[c][e].tab \in TableType
          /\ MaxFlows # 0 => NFlows(con[c][e].tab) <= MaxFlows
    /\ \A x, y \in hist : x.id = y.id => x = y

Earlier(x) ==
    {y \in hist : y.stamped /\ y.c = x.c /\ y.e = x.e /\ y.f = x.f /\ y.id < x.id}

(* The receiver can trust the numbers: of one flow on one connection they  *)
(* count 0, 1, 2, ... over exactly the datagrams the transport accepted    *)
(* (nothing refused or dropped consumes one), the first ones and no other  *)
(* carry the reset mark, and a flow starts again at 0 only after it sent   *)
(* nothing for longer than the egress idle timeout, when the receiver,     *)
(* whose timeout is shorter, has forgotten it.                             *)
NumberingSound ==
    \A x \in hist : x.stamped =>
        /\ x.reset <=> x.seq < ResetMarks
        /\ \/ x.seq = 0 /\ \A y \in Earlier(x) : x.at - y.at > IdleTicks
           \/ \E y \in Earlier(x) :
                 /\ \A z \in Earlier(x) : z.id <= y.id
                 /\ x.seq = y.seq + 1

(* Numbers can be trusted whatever the send-flow table creates, evicts and *)
(* refuses.                                                                *)
NumbersTrusted == TypeOK /\ NumberingSound

(* No side stamps towards a side that has no receive engine: it would drop *)
(* everything it is sent, a black hole in one direction, however the       *)
(* engines' allocations fail on the two sides.                             *)
NoBlackhole ==
    \A x \in hist : x.stamped => con[x.c][Peer(x.e)].eng

(* The MTU told to the sender of a packet that is too big is smaller than  *)
(* that packet; a packet of just that size is accepted, unless its flow    *)
(* gets its entry in the send-flow table only then, and a bigger one is    *)
(* not: a sender that obeys is not told again, and no byte of the datagram *)
(* is wasted.                                                              *)
PtbHonest ==
    out.kind = "ptb" =>
        LET end == con[out.c][out.e]
        IN
        /\ out.mtu < out.len
        /\ out.mtu > 0 =>
              \A p \in Gate(out.e, out.c, out.f, out.mtu) :
                  TooBig(p, out.mtu, end.mss) => p.tab # end.tab
        /\ \A p \in Gate(out.e, out.c, out.f, out.mtu + 1) :
              TooBig(p, out.mtu + 1, end.mss)

(* What reaches a TUN has the address given to the connection it came over *)
(* (the source on the server, the destination on the client), whatever the *)
(* peer sent and whoever has that address now, has lost a hop and is still *)
(* alive.  What answers it reaches the same connection, as long as no      *)
(* later one was given its address.                                        *)
RightAddress ==
    out.kind = "pkt" =>
        /\ out.a = con[out.c].addr
        /\ out.ttl >= 1 /\ \E t \in Ttls : out.ttl < t
        /\ \/ out.e = "cli"
           \/ sessions[out.a] = out.c
           \/ \E d \in Conns : d > out.c /\ con[d].addr = out.a

(* Nobody stops reading a TUN without being told to go on, or reads while  *)
(* the transport is full: a client, and the server for all its clients,    *)
(* has stopped exactly while a connection that refused a datagram has not  *)
(* said that it has room again (cb_dgram_write), through reconnects and    *)
(* take-overs.  A connection that closes first never says it.              *)
StopOwed ==
    /\ \A k \in Clients : bp[k] <=> \E c \in Conns : con[c].owner = k /\ con[c]["cli"].owed
    /\ paused <=> \E c \in Conns : con[c]["svr"].owed

(* platform_linux.c says that reading stops "until ready_for_tun callback";*)
(* the callback can only come from a live connection that refused a        *)
(* datagram.  The flag outlives the connection, so it need not come.       *)
StopIsTemporary ==
    /\ \A k \in Clients : bp[k] /\ ConnOf(k) # NoConn => con[ConnOf(k)]["cli"].owed
    /\ paused => \E c \in Conns : con[c]["svr"].up /\ con[c]["svr"].owed

(* "Register in session table" (mqvpn_server.c): an established connection *)
(* is the one packets for its address go to.  A second connection that is  *)
(* given a pinned address takes the entry over, and when it closes the     *)
(* first one, still established, is without one.                           *)
EstablishedIsReached ==
    \A c \in Conns : con[c]["svr"].up => sessions[con[c].addr] = c

(* mqvpn_client.c keeps 8 bytes of the inner MTU for the reorder header    *)
(* ("the usable inner MTU shrinks by 8"): a packet of the TUN's MTU can be *)
(* stamped.  The update after a change of the datagram size forgets them.  *)
StampFits ==
    \A k \in Clients \ V6Clients :
        LET c == ConnOf(k) IN
        c # NoConn /\ con[c]["cli"].eng /\ con[c]["cli"].mss >= MinMtu =>
            mtu[k] + Hdr <= con[c]["cli"].mss
=============================================================================
