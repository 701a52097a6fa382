------------------------------ MODULE TcpRelay ------------------------------
(***************************************************************************)
(* One connection of the hybrid TCP lane, from end to end: the inner       *)
(* application, the client's flow (src/src/hybrid/tcp_lane.c and           *)
(* tcp_lane_uplink.c), its H3 request stream, the server's flow            *)
(* (src/src/hybrid/tcp_egress.c), the egress socket and the origin.        *)
(*                                                                         *)
(* Bytes are numbered 1, 2, ... in the order their sender sent them, so a  *)
(* lost, repeated or reordered byte shows.  lwIP, xquic and the kernel are *)
(* external: each is the buffer the code sees, with its room, and the      *)
(* notification it gives.  A body notification comes only with new data.   *)
(*                                                                         *)
(* Faults (a reset by the inner peer, an idle timeout on either side, a    *)
(* failed connect, a fatal error of a relay call) happen at most MaxFaults *)
(* times; lwIP refuses a write it has room for (ERR_MEM) MaxMem times.     *)
(***************************************************************************)
EXTENDS Integers, Sequences

CONSTANTS
    UpBytes, DownBytes,   \* bound: bytes the application and the origin send
    Wnd,                  \* TCP_WND: lwIP's receive window
    HighWater, LowWater,  \* MQVPN_TCP_LANE_BP_HIGH_WATER, _LOW_WATER
    SndBuf,               \* TCP_SND_BUF
    Mss,                  \* TCP_MSS: one chunk of the client's downlink
    H3Cap,                \* flow control window of an H3 stream
    SockCap,              \* send buffer of the egress socket
    Chunk,                \* TCP_EGRESS_RELAY_CHUNK
    MaxFaults, MaxMem     \* bounds on faults and on ERR_MEM

ASSUME RelayAssumption ==
    /\ {UpBytes, DownBytes, MaxFaults, MaxMem} \subseteq Nat
    /\ {Wnd, HighWater, LowWater, SndBuf, Mss, H3Cap, SockCap, Chunk} \subseteq Nat \ {0}
    /\ LowWater <= HighWater
    /\ Mss <= SndBuf

VARIABLES
    c,        \* the client's flow with its pcb
    up,       \* the request stream, client to server
    down,     \* the request stream, server to client
    e,        \* the server's flow
    sk,       \* the egress socket
    inner,    \* the inner application
    origin,   \* the origin server
    budget,   \* faults and ERR_MEM still to come
    lwip      \* what the last lwIP callback returned, "none" for other steps

vars == <<c, up, down, e, sk, inner, origin, budget, lwip>>

-----------------------------------------------------------------------------
(* State *)

Front(s, n) == SubSeq(s, 1, n)
After(s, n) == SubSeq(s, n + 1, Len(s))
Count(n)    == [i \in 1..n |-> i]

Smaller(a, b) == IF a < b THEN a ELSE b

(* mqvpn_tcp_flow_t.  q is the uplink queue without the part of the head   *)
(* that was accepted, held is uplink_withheld_recved.  pcb, credit (bytes  *)
(* delivered to the recv callback and not yet recved), snd (written, not   *)
(* acknowledged) and shut (FIN queued) are lwIP's.                         *)
NewFlow ==
    [state |-> "pending_stream", q |-> <<>>, withheld |-> FALSE, held |-> 0,
     stash |-> <<>>, paused |-> FALSE, tcp_fin_seen |-> FALSE,
     fin_sent |-> FALSE, fin_received |-> FALSE,
     pcb |-> "open", credit |-> 0, snd |-> <<>>, shut |-> FALSE]

(* One direction of the stream: bytes in flight, bytes the receiver has    *)
(* buffered, the FIN in flight or received, RESET_STREAM sent.  hdr is the *)
(* response of the server while it is in flight (of the downlink only).    *)
NewStream == [hdr |-> "none", wire |-> <<>>, body |-> <<>>, fin |-> FALSE, fin_in |-> FALSE, reset |-> FALSE]

(* svr_tcp_egress_flow_t, with the registered fd interest and whether the  *)
(* flow has closed its request.                                            *)
NewEgress ==
    [state |-> "connecting", stash |-> <<>>, paused |-> FALSE,
     fin_received |-> FALSE, shutdown_done |-> FALSE,
     up_stash |-> <<>>, withheld |-> FALSE, eof |-> FALSE, fin_sent |-> FALSE,
     want_read |-> FALSE, want_write |-> TRUE, closed |-> FALSE]

Init ==
    /\ c = NewFlow
    /\ up = NewStream
    /\ down = NewStream
    /\ e = NewEgress
    /\ sk = [out |-> <<>>, out_fin |-> FALSE, in |-> <<>>, in_fin |-> FALSE]
    /\ inner = [sent |-> 0, fin |-> FALSE, got |-> <<>>]
    /\ origin = [sent |-> 0, fin |-> FALSE, got |-> <<>>]
    /\ budget = [faults |-> MaxFaults, mem |-> MaxMem]
    /\ lwip = "none"

Room(h) == H3Cap - Len(h.wire) - Len(h.body)

-----------------------------------------------------------------------------
(* The client's flow.  A step works on x: the flow, both directions of the *)
(* stream, and st, the tcp_lane_flow_status_t its calls return.  err says  *)
(* that the step's first call into xquic or lwIP fails for good; room is   *)
(* what lwIP accepts of tcp_write.                                         *)

Client == [c |-> c, up |-> up, down |-> down, st |-> "LIVE"]

(* The H3 request is reset (close_h3), the pcb aborted, the flow freed. *)
TeardownFlow(x, close_h3) ==
    [x EXCEPT !.c = [NewFlow EXCEPT !.state = "freed", !.pcb = "aborted"],
              !.up.reset = @ \/ close_h3,
              !.st = IF x.c.pcb = "open" THEN "ABORTED" ELSE "GONE"]

OnRelayError(x) == TeardownFlow(x, TRUE)

(* The pcb is closed, not aborted: what it holds is still sent. *)
FinishCleanClose(x) ==
    [x EXCEPT !.c = [@ EXCEPT !.state = "closing", !.pcb = "closed", !.stash = <<>>],
              !.st = "GONE"]

UplinkMaybeFin(x, err) ==
    IF x.c.state # "active" \/ ~x.c.tcp_fin_seen \/ x.c.fin_sent \/ x.c.q # <<>>
    THEN x
    ELSE IF err THEN OnRelayError(x)
    ELSE IF Room(x.up) = 0 THEN x
    ELSE LET y == [x EXCEPT !.c.fin_sent = TRUE, !.up.fin = TRUE]
         IN  IF y.c.fin_received THEN FinishCleanClose(y) ELSE y

(* xquic takes as many bytes as its window has room for. *)
UplinkSendFrom(x, bytes) == [x EXCEPT !.up.wire = @ \o Front(bytes, Smaller(Room(x.up), Len(bytes)))]

(* Mutant: the window withheld from lwIP is not given back. *)
KeepWithheld(x) ==
    IF x.c.withheld /\ Len(x.c.q) < LowWater
    THEN [x EXCEPT !.c.withheld = FALSE, !.c.held = 0]
    ELSE x

ResumeRecved(x) ==
    IF x.c.withheld /\ Len(x.c.q) < LowWater
    THEN [x EXCEPT !.c.withheld = FALSE, !.c.credit = @ - x.c.held, !.c.held = 0]
    ELSE x

UplinkFlush(x, err) ==
    IF x.c.state # "active" THEN x
    ELSE IF err /\ x.c.q # <<>> THEN OnRelayError(x)
    ELSE LET y == [UplinkSendFrom(x, x.c.q) EXCEPT !.c.q = After(@, Smaller(Room(x.up), Len(@)))]
             z == UplinkMaybeFin(y, err)
         IN  IF z.st = "LIVE" THEN ResumeRecved(z) ELSE z

UplinkDeliver(x, bytes, err) ==
    LET direct == x.c.state = "active" /\ x.c.q = <<>>
        n      == IF direct THEN Smaller(Room(x.up), Len(bytes)) ELSE 0
        y      == [UplinkSendFrom(x, Front(bytes, n)) EXCEPT !.c.q = @ \o After(bytes, n)]
        w      == \/ y.c.withheld
                  \/ y.c.state = "active"
                  \/ Len(y.c.q) >= HighWater
    IN  IF err THEN OnRelayError(x)
        ELSE IF n < Len(bytes) /\ w
        THEN [y EXCEPT !.c.withheld = TRUE, !.c.held = @ + Len(bytes), !.c.credit = @ + Len(bytes)]
        ELSE y

DownlinkMaybeShutdown(x) ==
    LET y == [x EXCEPT !.c.fin_received = TRUE, !.c.shut = TRUE]
    IN  IF x.c.fin_received THEN x
        ELSE IF y.c.fin_sent THEN FinishCleanClose(y) ELSE y

(* Whole chunks are read and written while lwIP has room for them; the     *)
(* first one that does not fit is stashed.                                 *)
DownlinkDrain(x, room, err) ==
    LET body  == x.down.body
        wrote == IF Len(body) <= room THEN Len(body) ELSE (room \div Mss) * Mss
        read  == Smaller(wrote + Mss, Len(body))
        y     == [x EXCEPT !.down.body = After(@, read),
                           !.c.snd = @ \o Front(body, wrote),
                           !.c.stash = SubSeq(body, wrote + 1, read),
                           !.c.paused = wrote < Len(body)]
    IN  IF err THEN OnRelayError(x)
        ELSE IF x.down.fin_in /\ ~y.c.paused THEN DownlinkMaybeShutdown(y) ELSE y

DownlinkStashRetry(x, room, err) ==
    IF room < Len(x.c.stash) THEN x
    ELSE IF err THEN OnRelayError(x)
    ELSE [x EXCEPT !.c.snd = @ \o x.c.stash, !.c.stash = <<>>, !.c.paused = FALSE]

(* Mutant: a paused flow reads on and its stash is overwritten. *)
PumpWhilePaused(x, room, err) ==
    IF x.c.state = "active" THEN DownlinkDrain(x, room, err) ELSE x

DownlinkPump(x, room, err) ==
    LET y == IF x.c.paused THEN DownlinkStashRetry(x, room, err) ELSE x
    IN  IF y.st # "LIVE" \/ y.c.paused \/ y.c.state # "active" THEN y
        ELSE DownlinkDrain(y, room - Len(x.c.stash), err /\ ~x.c.paused)
-----------------------------------------------------------------------------
(* The server's flow.  A step works on y: the flow, both directions of the *)
(* stream and the socket.  "Uplink" and "downlink" are the server's own    *)
(* names: its downlink carries what the client sent.                       *)

Server == [e |-> e, up |-> up, down |-> down, sk |-> sk]

(* Mutant: the stream is given up without telling the client. *)
SilentClose(y) == [y EXCEPT !.e.closed = TRUE]

(* The flow itself is freed later, by the close notification. *)
CloseRequest(y) == [y EXCEPT !.e.closed = TRUE, !.down.reset = TRUE]

FlowDestroy(y) ==
    [y EXCEPT !.e = [@ EXCEPT !.state = "freed", !.stash = <<>>, !.up_stash = <<>>,
                              !.want_read = FALSE, !.want_write = FALSE],
              !.sk.out_fin = TRUE, !.sk.in = <<>>]

UpdateFdInterest(y) ==
    IF y.e.state = "active"
    THEN [y EXCEPT !.e.want_write = y.e.paused,
                   !.e.want_read = ~y.e.withheld /\ ~y.e.eof]
    ELSE y

MaybeShutdownDownlink(y) ==
    IF ~y.e.fin_received \/ y.e.paused \/ y.e.shutdown_done
    THEN y
    ELSE [y EXCEPT !.sk.out_fin = TRUE, !.e.shutdown_done = TRUE]

(* The end of the chunk that holds the byte after the first n. *)
ChunkEnd(n, len) == Smaller((n \div Chunk) * Chunk + Chunk, len)

DrainBody(y, err) ==
    LET body == y.up.body
        sent == Smaller(SockCap - Len(y.sk.out), Len(body))
        read == IF sent = Len(body) THEN sent ELSE ChunkEnd(sent, Len(body))
        z    == [y EXCEPT !.up.body = After(@, read), !.sk.out = @ \o Front(body, sent)]
    IN  IF y.e.paused THEN y
        ELSE IF err THEN CloseRequest(y)
        ELSE IF sent < Len(body)
        THEN UpdateFdInterest([z EXCEPT !.e.stash = SubSeq(body, sent + 1, read),
                                        !.e.paused = TRUE])
        ELSE IF y.up.fin_in
        THEN MaybeShutdownDownlink([z EXCEPT !.e.fin_received = TRUE])
        ELSE z

(* Mutant: the body that came during the pause is left where it is. *)
FlushNoDrain(y, err) ==
    LET n == Smaller(SockCap - Len(y.sk.out), Len(y.e.stash))
        z == [y EXCEPT !.sk.out = @ \o Front(y.e.stash, n), !.e.stash = After(@, n)]
    IN  IF z.e.stash # <<>> THEN z
        ELSE UpdateFdInterest(MaybeShutdownDownlink([z EXCEPT !.e.paused = FALSE]))

FlushDownlinkRetry(y, err) ==
    LET n == Smaller(SockCap - Len(y.sk.out), Len(y.e.stash))
        z == [y EXCEPT !.sk.out = @ \o Front(y.e.stash, n), !.e.stash = After(@, n)]
    IN  IF err THEN CloseRequest(y)
        ELSE IF z.e.stash # <<>> THEN z
        ELSE DrainBody(UpdateFdInterest(MaybeShutdownDownlink([z EXCEPT !.e.paused = FALSE])),
                       FALSE)

TryUplinkFin(y, err) ==
    IF y.e.fin_sent THEN y
    ELSE IF err THEN CloseRequest(y)
    ELSE IF Room(y.down) = 0 THEN y
    ELSE [y EXCEPT !.e.fin_sent = TRUE, !.down.fin = TRUE]

(* recv until the socket is empty; a chunk the stream refuses in part is   *)
(* stashed and reading stops.                                              *)
UplinkRecv(y, err) ==
    LET in   == y.sk.in
        sent == Smaller(Room(y.down), Len(in))
        read == IF sent = Len(in) THEN sent ELSE ChunkEnd(sent, Len(in))
        z    == [y EXCEPT !.sk.in = After(@, read), !.down.wire = @ \o Front(in, sent)]
    IN  IF err THEN CloseRequest(y)
        ELSE IF sent < Len(in)
        THEN UpdateFdInterest([z EXCEPT !.e.up_stash = SubSeq(in, sent + 1, read),
                                        !.e.withheld = TRUE])
        ELSE IF y.sk.in_fin
        THEN TryUplinkFin(UpdateFdInterest([z EXCEPT !.e.eof = TRUE]), FALSE)
        ELSE UpdateFdInterest(z)

OnRelayReady(y, readable, writable, err) ==
    LET z == IF writable /\ y.e.paused THEN FlushDownlinkRetry(y, err) ELSE y
    IN  IF z.e.closed THEN z
        ELSE IF readable /\ ~z.e.withheld THEN UplinkRecv(z, err) ELSE UpdateFdInterest(z)

OnH3Writable(y, err) ==
    LET n == Smaller(Room(y.down), Len(y.e.up_stash))
        z == [y EXCEPT !.down.wire = @ \o Front(y.e.up_stash, n), !.e.up_stash = After(@, n)]
        w == IF y.e.withheld THEN UpdateFdInterest([z EXCEPT !.e.withheld = FALSE]) ELSE z
    IN  IF err /\ (y.e.withheld \/ y.e.eof) THEN CloseRequest(y)
        ELSE IF z.e.up_stash # <<>> THEN z
        ELSE IF w.e.eof THEN TryUplinkFin(w, FALSE) ELSE w

(* 200, then what the client sent before it. *)
OnConnected(y, err) ==
    DrainBody([UpdateFdInterest([y EXCEPT !.e.state = "active"]) EXCEPT !.down.hdr = "200"], err)

FailConnect(y) == FlowDestroy([y EXCEPT !.down.hdr = "error"])

-----------------------------------------------------------------------------
(* Steps of the client *)

ClientStep(x) == c' = x.c /\ up' = x.up /\ down' = x.down
Frame(x)      == lwip' = IF x.st = "ABORTED" THEN "ERR_ABRT" ELSE "ERR_OK"

Errors   == IF budget.faults > 0 THEN BOOLEAN ELSE {FALSE}
Free(x)  == SndBuf - Len(x.c.snd)
Rooms(x) == IF budget.mem > 0 THEN 0..Free(x) ELSE {Free(x)}

Spend(err, short) ==
    budget' = [faults |-> budget.faults - IF err THEN 1 ELSE 0,
               mem |-> budget.mem - IF short THEN 1 ELSE 0]

(* lwIP delivers n bytes, within the window it advertised. *)
OnLwipRecv(n) ==
    /\ c.pcb = "open" /\ ~inner.fin
    /\ inner.sent + n <= UpBytes
    /\ c.credit + n <= Wnd
    /\ \E err \in Errors :
          LET x == UplinkDeliver(Client, After(Count(inner.sent + n), inner.sent), err)
          IN  ClientStep(x) /\ Frame(x) /\ Spend(err, FALSE)
    /\ inner' = [inner EXCEPT !.sent = @ + n]
    /\ UNCHANGED <<e, sk, origin>>

OnLwipFin ==
    /\ c.pcb = "open" /\ ~inner.fin
    /\ \E err \in Errors :
          LET x == UplinkFlush([Client EXCEPT !.c.tcp_fin_seen = TRUE], err)
          IN  ClientStep(x) /\ Frame(x) /\ Spend(err, FALSE)
    /\ inner' = [inner EXCEPT !.fin = TRUE]
    /\ UNCHANGED <<e, sk, origin>>

(* The application's host acknowledges n bytes. *)
OnLwipSent(n) ==
    /\ c.pcb = "open" /\ n <= Len(c.snd)
    /\ LET y == [Client EXCEPT !.c.snd = After(@, n)]
       IN  \E err \in Errors, room \in Rooms(y) :
              LET x == IF c.paused THEN DownlinkPump(y, room, err) ELSE y
              IN  ClientStep(x) /\ Frame(x) /\ Spend(err, room < Free(y))
    /\ inner' = [inner EXCEPT !.got = @ \o Front(c.snd, n)]
    /\ UNCHANGED <<e, sk, origin>>

(* The same for a pcb the flow has closed: lwIP sends what it holds. *)
LwipFlush ==
    /\ c.pcb = "closed" /\ c.snd # <<>>
    /\ c' = [c EXCEPT !.snd = <<>>]
    /\ inner' = [inner EXCEPT !.got = @ \o c.snd]
    /\ lwip' = "none"
    /\ UNCHANGED <<up, down, e, sk, origin, budget>>

Bound == c.state \in {"pending_stream", "active"}

XquicStep(x) == ClientStep(x) /\ lwip' = "none" /\ UNCHANGED <<e, sk, inner, origin>>

OnStreamEstablished ==
    /\ Bound /\ down.hdr = "200"
    /\ \E err \in Errors :
          /\ XquicStep(UplinkFlush([Client EXCEPT !.c.state = "active", !.down.hdr = "none"], err))
          /\ Spend(err, FALSE)

OnStreamRejected ==
    /\ Bound /\ down.hdr = "error"
    /\ XquicStep(TeardownFlow([Client EXCEPT !.down.hdr = "none"], TRUE))
    /\ UNCHANGED budget

OnClientWritable ==
    /\ Bound /\ Room(up) > 0
    /\ \E err \in Errors : XquicStep(UplinkFlush(Client, err)) /\ Spend(err, FALSE)

(* n bytes and perhaps the FIN arrive, and the pump runs. *)
Arrive(h, n, fin) ==
    [h EXCEPT !.body = @ \o Front(h.wire, n), !.wire = After(@, n), !.fin_in = @ \/ fin]

Arriving(h, n, fin) ==
    /\ n <= Len(h.wire) /\ (n > 0 \/ fin)
    /\ fin => h.fin /\ ~h.fin_in /\ n = Len(h.wire)

OnClientBody(n, fin) ==
    /\ c.state = "active" /\ Arriving(down, n, fin)
    /\ \E err \in Errors, room \in Rooms(Client) :
          /\ XquicStep(DownlinkPump([Client EXCEPT !.down = Arrive(@, n, fin)], room, err))
          /\ Spend(err, room < Free(Client))

(* The sweep of the lane's tick retries a paused flow. *)
LaneTick ==
    /\ Bound /\ c.paused
    /\ \E err \in Errors, room \in Rooms(Client) :
          /\ XquicStep(DownlinkPump(Client, room, err))
          /\ Spend(err, room < Free(Client))

(* RESET_STREAM arrives. *)
OnH3Closing ==
    /\ Bound /\ down.reset
    /\ XquicStep(TeardownFlow(Client, FALSE))
    /\ UNCHANGED budget

(* The inner peer resets or lwIP gives up: the pcb is already gone. *)
OnLwipErr ==
    /\ c.pcb = "open" /\ budget.faults > 0
    /\ XquicStep(TeardownFlow([Client EXCEPT !.c.pcb = "aborted"], TRUE))
    /\ Spend(TRUE, FALSE)

LaneIdle ==
    /\ Bound /\ budget.faults > 0
    /\ XquicStep(TeardownFlow(Client, TRUE))
    /\ Spend(TRUE, FALSE)

-----------------------------------------------------------------------------
(* Steps of the server *)

ServerStep(y) ==
    /\ e' = y.e /\ up' = y.up /\ down' = y.down /\ sk' = y.sk
    /\ lwip' = "none"
    /\ UNCHANGED <<c, inner, origin>>

ConnectDone ==
    /\ e.state = "connecting"
    /\ \E err \in Errors : ServerStep(OnConnected(Server, err)) /\ Spend(err, FALSE)

ConnectFails ==
    /\ e.state = "connecting" /\ budget.faults > 0
    /\ ServerStep(FailConnect(Server))
    /\ Spend(TRUE, FALSE)

(* Once the flow has closed its request every call on it fails, and the    *)
(* request is closed again: nothing changes until the close notification.  *)
Relaying == e.state = "active" /\ ~e.closed

OnBody(n, fin) ==
    /\ e.state # "freed" /\ ~e.closed /\ Arriving(up, n, fin)
    /\ \E err \in Errors :
          LET y == [Server EXCEPT !.up = Arrive(@, n, fin)]
          IN  /\ ServerStep(IF e.state = "active" THEN DrainBody(y, err) ELSE y)
              /\ Spend(err /\ e.state = "active", FALSE)

Readable == e.want_read /\ (sk.in # <<>> \/ sk.in_fin)
Writable == e.want_write /\ Len(sk.out) < SockCap

OnFdReady ==
    /\ Relaying /\ (Readable \/ Writable)
    /\ \E err \in Errors :
          ServerStep(OnRelayReady(Server, Readable, Writable, err)) /\ Spend(err, FALSE)

OnServerWritable ==
    /\ Relaying /\ Room(down) > 0
    /\ \E err \in Errors : ServerStep(OnH3Writable(Server, err)) /\ Spend(err, FALSE)

EgressIdle ==
    /\ Relaying /\ budget.faults > 0
    /\ ServerStep(CloseRequest(Server))
    /\ Spend(TRUE, FALSE)

(* The request is closed by the flow, reset by the client, or complete. *)
Complete == e.fin_received /\ e.fin_sent /\ down.fin_in

CloseNotify ==
    /\ e.state # "freed" /\ (e.closed \/ up.reset \/ Complete)
    /\ ServerStep(FlowDestroy(Server))
    /\ UNCHANGED budget

-----------------------------------------------------------------------------
(* The origin *)

OriginStep == lwip' = "none" /\ UNCHANGED <<c, up, down, e, inner, budget>>

OriginRead(n) ==
    /\ n <= Len(sk.out)
    /\ origin' = [origin EXCEPT !.got = @ \o Front(sk.out, n)]
    /\ sk' = [sk EXCEPT !.out = After(@, n)]
    /\ OriginStep

OriginSend(n) ==
    /\ e.state = "active" /\ ~origin.fin
    /\ origin.sent + n <= DownBytes /\ Len(sk.in) + n <= SockCap
    /\ origin' = [origin EXCEPT !.sent = @ + n]
    /\ sk' = [sk EXCEPT !.in = @ \o After(Count(origin.sent + n), origin.sent)]
    /\ OriginStep

OriginFin ==
    /\ e.state = "active" /\ ~origin.fin
    /\ origin' = [origin EXCEPT !.fin = TRUE]
    /\ sk' = [sk EXCEPT !.in_fin = TRUE]
    /\ OriginStep

-----------------------------------------------------------------------------
Next ==
    \/ \E n \in 1..Wnd : OnLwipRecv(n)
    \/ OnLwipFin
    \/ \E n \in 1..SndBuf : OnLwipSent(n)
    \/ LwipFlush
    \/ OnStreamEstablished
    \/ OnStreamRejected
    \/ OnClientWritable
    \/ \E n \in 0..H3Cap, fin \in BOOLEAN : OnClientBody(n, fin)
    \/ LaneTick
    \/ OnH3Closing
    \/ OnLwipErr
    \/ LaneIdle
    \/ ConnectDone
    \/ ConnectFails
    \/ \E n \in 0..H3Cap, fin \in BOOLEAN : OnBody(n, fin)
    \/ OnFdReady
    \/ OnServerWritable
    \/ EgressIdle
    \/ CloseNotify
    \/ \E n \in 1..SockCap : OriginRead(n)
    \/ \E n \in 1..SockCap : OriginSend(n)
    \/ OriginFin

(* Something is left to do: a byte, a FIN, a response or a reset is under  *)
(* way, a notification is due, or a peer has not finished.                 *)
Busy ==
    \/ c.pcb = "open" /\ ~inner.fin
    \/ c.pcb # "aborted" /\ c.snd # <<>>
    \/ Bound /\ (down.hdr # "none" \/ down.reset)
    \/ Bound /\ c.paused /\ Len(c.stash) <= SndBuf - Len(c.snd)
    \/ /\ c.state = "active" /\ Room(up) > 0
       /\ c.q # <<>> \/ (c.tcp_fin_seen /\ ~c.fin_sent)
    \/ c.state = "active" /\ (down.wire # <<>> \/ (down.fin /\ ~down.fin_in))
    \/ e.state = "connecting" \/ (e.state = "active" /\ ~origin.fin)
    \/ e.state # "freed" /\ ~e.closed /\ (up.wire # <<>> \/ (up.fin /\ ~up.fin_in))
    \/ Relaying /\ (Readable \/ Writable)
    \/ Relaying /\ Room(down) > 0 /\ (e.up_stash # <<>> \/ (e.eof /\ ~e.fin_sent))
    \/ e.state # "freed" /\ (e.closed \/ up.reset \/ Complete)
    \/ sk.out # <<>>

(* Every step moves bytes, a FIN, a reset or the end of a flow forward, so *)
(* it is enough that the event loops and the two peers do not all stop     *)
(* while something is left to do.  (Weak fairness of Next, written out.)   *)
Fairness == []<>~Busy \/ []<><<Next>>_vars

Spec == Init /\ [][Next]_vars /\ Fairness

-----------------------------------------------------------------------------
(* Properties *)

(* The state has its type. *)
TypeOK ==
    /\ c.state \in {"pending_stream", "active", "closing", "freed"}
    /\ c.pcb \in {"open", "closed", "aborted"}
    /\ c.credit \in 0..Wnd /\ c.held \in 0..Wnd
    /\ {c.withheld, c.paused, c.tcp_fin_seen, c.fin_sent, c.fin_received, c.shut} \subseteq BOOLEAN
    /\ Len(c.snd) <= SndBuf /\ Len(c.stash) <= Mss /\ Len(c.q) <= Wnd + HighWater
    /\ \A h \in {up, down} : Room(h) >= 0
    /\ e.state \in {"connecting", "active", "freed"}
    /\ Len(e.stash) <= Chunk /\ Len(e.up_stash) <= Chunk
    /\ Len(sk.out) <= SockCap /\ Len(sk.in) <= SockCap
    /\ lwip \in {"none", "ERR_OK", "ERR_ABRT"}

(* No step has given up the connection: both flows are there or have come  *)
(* to their end by the two FINs.                                           *)
Kept ==
    /\ c.state # "freed"
    /\ ~e.closed
    /\ e.state = "freed" => e.fin_received /\ e.fin_sent

(* Every byte the application sent is at the origin or in exactly one      *)
(* place on the way, in order: partial accepts, the queue, the stash and   *)
(* the pauses of both sides lose, repeat and reorder nothing.              *)
UplinkExact ==
    Kept => origin.got \o sk.out \o e.stash \o up.body \o up.wire \o c.q = Count(inner.sent)

(* The same for the bytes of the origin. *)
DownlinkExact ==
    Kept => inner.got \o c.snd \o c.stash \o down.body \o down.wire \o e.up_stash \o sk.in
              = Count(origin.sent)

(* A peer sees the other's FIN only behind all its bytes: shutdown is not  *)
(* called, and the FIN is not sent on the stream, while a byte is queued,  *)
(* stashed or unread on that side.                                         *)
FinIsLast ==
    /\ e.shutdown_done => inner.fin /\ Len(origin.got) + Len(sk.out) = inner.sent
    /\ c.shut => origin.fin /\ Len(inner.got) + Len(c.snd) = origin.sent
    /\ c.fin_sent => c.q = <<>>

(* The window withheld from lwIP under back-pressure is owed exactly once  *)
(* and only while bytes are queued, so the next flush gives it back; else  *)
(* the application's connection would stall or its window grow.            *)
WindowOwed ==
    c.pcb = "open" => /\ c.credit = c.held
                      /\ c.held > 0 => c.withheld
                      /\ c.withheld => c.q # <<>>

(* The fd of a relaying flow is registered for reading unless a chunk is   *)
(* stashed or the end was read, and for writing while a chunk is stashed:  *)
(* no registration is left behind that spins or sleeps for ever.           *)
InterestExact ==
    Relaying => /\ e.want_write = (e.stash # <<>>)
                /\ e.want_read = (e.up_stash = <<>> /\ ~e.eof)

(* An lwIP callback returns ERR_ABRT when the pcb was aborted inside it    *)
(* and never otherwise; lwIP goes on to use the pcb after any other value  *)
(* (tcp_lane_flow_status_t).                                               *)
AbortReported ==
    lwip # "none" => (lwip = "ERR_ABRT" <=> c.pcb = "aborted")

(* The relay moves bytes exactly, in both directions and to the FINs.      *)
BytesExact == TypeOK /\ UplinkExact /\ DownlinkExact /\ FinIsLast

(* What each hop owes the library it runs in, at the end of every          *)
(* callback: lwIP gets its window back and hears of an abort, libevent     *)
(* knows what the flow waits for.                                          *)
HopContracts == WindowOwed /\ InterestExact /\ AbortReported

(* Both flows are released in the end, whichever side gave up and however  *)
(* the resets and notifications cross.                                     *)
BothReleased == <>(c.state \in {"closing", "freed"} /\ e.state = "freed")

(* Without a fault the two FINs and every byte arrive: no pause, withheld  *)
(* window or refused FIN waits for a notification that does not come.      *)
AllRelayed ==
    <>(\/ budget.faults < MaxFaults
       \/ /\ inner.fin /\ origin.fin /\ c.shut /\ e.shutdown_done
          /\ origin.got = Count(inner.sent) /\ inner.got = Count(origin.sent))
=============================================================================
