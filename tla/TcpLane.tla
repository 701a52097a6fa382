------------------------------ MODULE TcpLane -------------------------------
(***************************************************************************)
(* The client's table of TCP-lane flows (src/src/hybrid/tcp_lane.c): which *)
(* inner TCP connection goes through lwIP and an H3 request of its own and *)
(* which stays RAW, the life of a flow from its SYN to the routing marker  *)
(* it leaves behind, the sweep of the table, and the lane's creation and   *)
(* end with the VPN connection (src/src/mqvpn_client.c, lwip_glue.c).      *)
(* What one flow relays is TcpRelay's subject.                             *)
(*                                                                         *)
(* The table is one hash chain, so that every two flows collide.  Time is  *)
(* kept as the age of each entry's last_activity_us, in seconds; the sweep *)
(* runs once a second.  lwIP's pcb lists are global to the process: a pcb  *)
(* has a life apart from the flow and from the lane.  Stream objects are   *)
(* heap slots that are used again.                                         *)
(***************************************************************************)
EXTENDS Naturals, FiniteSets, SequencesExt

CONSTANTS
    Keys,         \* 5-tuples of inner TCP connections
    Subnet,       \* those whose destination is in the tunnel's own subnet
    TcpMode,      \* hybrid.tcp_mode
    MaxFlows,     \* hybrid.tcp_max_flows
    MarkerCap,    \* TCP_LANE_RAW_MARKER_CAP
    ClosingCap,   \* TCP_LANE_CLOSING_CAP
    IdleTimeout,  \* hybrid.tcp_idle_timeout_sec; 0 is "never"
    Grace,        \* TCP_LANE_CLOSING_GRACE_US, in seconds
    Streams,      \* bound: slots for stream objects
    None          \* no key

ASSUME LaneAssumption ==
    /\ Subnet \subseteq Keys /\ None \notin Keys
    /\ TcpMode \in {"raw", "stream", "auto"}
    /\ {MaxFlows, MarkerCap, ClosingCap, Grace} \subseteq Nat \ {0}
    /\ IdleTimeout \in Nat /\ Streams \subseteq Nat \ {0}

VARIABLES
    w,       \* the lane's memory and the objects it holds, see Empty
    lane,    \* conn->tcp_lane and conn->lwip_ctx exist
    due,     \* a second has passed since last_sweep_us
    cur,     \* the sweep's f, None outside a sweep
    nxt      \* the sweep's saved next

vars == <<w, lane, due, cur, nxt>>

-----------------------------------------------------------------------------
(* State *)

Horizon == (IF IdleTimeout > Grace THEN IdleTimeout ELSE Grace) + 1

NoFlow == [state |-> "absent", pcb |-> FALSE, stream |-> 0, isn |-> 0, age |-> 0, paused |-> FALSE]
NoPcb  == [state |-> "none", listener |-> FALSE]

(* An inner connection: its initial sequence number (two connections in a  *)
(* row differ) and its phase: "new", committed by on_syn to the lane "raw" *)
(* or "tcp", accepted by lwIP ("est"), "over" (ended, reset or abandoned,  *)
(* or none yet), and "mixed" once a packet of it took the other lane.      *)
NoConn == [isn |-> 0, phase |-> "over"]

Populations == {"tcp", "raw", "closing"}

(* chain is the bucket, newest first; n the lane's three counters. *)
Empty == [chain |-> <<>>, flow |-> [k \in Keys |-> NoFlow], n |-> [p \in Populations |-> 0],
          pcb |-> [k \in Keys |-> NoPcb], stream |-> [s \in Streams |-> "free"], app |-> [k \in Keys |-> NoConn]]

Init ==
    /\ w = Empty
    /\ lane = FALSE
    /\ due = FALSE
    /\ cur = None
    /\ nxt = None

(* The counter an entry is counted in. *)
Population(state) ==
    CASE state = "sticky_raw" -> "raw" [] state = "closing" -> "closing" [] OTHER -> "tcp"

InTable(x, k) == x.flow[k].state # "absent"

-----------------------------------------------------------------------------
(* Removal and close.  An operator takes and returns the whole memory x.   *)

(* Where an entry is in the chain. *)
Place(x, k) == CHOOSE i \in DOMAIN x.chain : x.chain[i] = k

RemoveFlow(x, k) ==
    [x EXCEPT !.chain = RemoveAt(@, Place(x, k)), !.flow[k] = NoFlow,
              !.n[Population(x.flow[k].state)] = @ - 1]

(* The callbacks are cleared, then lwIP sends RST and frees the pcb. *)
SilentAbortPcb(x, k) ==
    IF x.flow[k].pcb
    THEN [x EXCEPT !.flow[k].pcb = FALSE, !.pcb[k] = NoPcb, !.app[k].phase = "over"]
    ELSE x

CloseH3(x, k) ==
    IF x.flow[k].stream # 0
    THEN [x EXCEPT !.stream[x.flow[k].stream] = "ended", !.flow[k].stream = 0]
    ELSE x

TeardownFlow(x, k, close_h3) ==
    LET y == IF close_h3 THEN CloseH3(x, k) ELSE [x EXCEPT !.flow[k].stream = 0]
    IN  RemoveFlow(SilentAbortPcb(y, k), k)

(* The first entry of the chain with the smallest last_activity_us. *)
OldestClosing(x) ==
    LET C == {k \in Keys : x.flow[k].state = "closing"}
        O == {k \in C : \A j \in C : x.flow[j].age <= x.flow[k].age}
    IN  x.chain[CHOOSE i \in DOMAIN x.chain : x.chain[i] \in O /\ \A j \in 1..(i - 1) : x.chain[j] \notin O]

MarkClosing(x, k) ==
    LET y == IF x.n["closing"] >= ClosingCap THEN RemoveFlow(x, OldestClosing(x)) ELSE x
    IN  [y EXCEPT !.n["tcp"] = @ - 1, !.n["closing"] = @ + 1,
                  !.flow[k].state = "closing", !.flow[k].age = 0, !.flow[k].paused = FALSE]

(* Both FINs have passed: lwIP keeps the pcb, without our callbacks, and   *)
(* xquic the request, until each has finished on its own.                  *)
FinishCleanClose(x, k) ==
    MarkClosing([x EXCEPT !.pcb[k] = [state |-> "closing", listener |-> FALSE],
                          !.stream[x.flow[k].stream] = "ended",
                          !.flow[k].pcb = FALSE, !.flow[k].stream = 0, !.app[k].phase = "over"], k)

-----------------------------------------------------------------------------
(* A packet from the TUN device *)

(* mqvpn_hybrid_classify, for the packets of Keys; others have no flow. *)
Classify(k) == IF TcpMode = "raw" \/ k \in Subnet THEN "raw" ELSE "tcp"

(* The paths active at the time of the SYN decide under tcp=auto: multi is *)
(* active_paths_count(c) >= 2.                                             *)
SynPolicy(multi) == IF TcpMode = "auto" THEN multi ELSE TcpMode = "stream"

(* -1 is the refusal: at the cap, a caller's error or no memory.  An old   *)
(* marker is gone even then.  The ISN is kept where it is read, in RAW     *)
(* markers.                                                                *)
OnSyn(x, k, to_tcp, isn) ==
    LET y == IF x.flow[k].state \in {"closing", "sticky_raw"} THEN RemoveFlow(x, k) ELSE x
        refused == \/ InTable(y, k)
                   \/ to_tcp /\ y.n["tcp"] >= MaxFlows
                   \/ ~to_tcp /\ y.n["raw"] >= MarkerCap
        f == [NoFlow EXCEPT !.state = IF to_tcp THEN "pending_accept" ELSE "sticky_raw",
                            !.isn = IF to_tcp THEN 0 ELSE isn]
    IN  IF refused
        THEN [ret |-> FALSE, x |-> y]
        ELSE [ret |-> TRUE,
              x |-> [y EXCEPT !.flow[k] = f, !.chain = <<k>> \o @, !.n[IF to_tcp THEN "tcp" ELSE "raw"] = @ + 1]]

(* The request could not be opened: the flow is torn down without closing  *)
(* it again.                                                               *)
AbortPending(x, k) == TeardownFlow(x, k, FALSE)

(* cli_tcp_lane_open_stream: "create" is no slot, no memory or no request, *)
(* "headers" a request that is closed again because its headers cannot be  *)
(* sent.                                                                   *)
OpenStream(x, k, how) ==
    LET free == {s \in Streams : x.stream[s] = "free"}
        s == CHOOSE s \in free : \A t \in free : s <= t
    IN  IF free = {} \/ how = "create" THEN AbortPending(x, k)
        ELSE IF how = "headers" THEN AbortPending([x EXCEPT !.stream[s] = "ended", !.flow[k].stream = s], k)
        ELSE [x EXCEPT !.stream[s] = "open", !.flow[k].stream = s]

(* The accept callback; lwIP itself aborts a pcb that is refused. *)
LwipAccept(x, k, how) ==
    LET refused == [x EXCEPT !.pcb[k] = NoPcb, !.app[k].phase = "over"]
    IN  IF x.flow[k].state # "pending_accept" THEN refused
        ELSE IF x.n["tcp"] > MaxFlows THEN RemoveFlow(refused, k)
        ELSE OpenStream([x EXCEPT !.pcb[k].state = "established", !.app[k].phase = "est",
                                  !.flow[k].state = "pending_stream", !.flow[k].pcb = TRUE, !.flow[k].age = 0], k, how)

(* lwIP freed the pcb before it called. *)
OnLwipErr(x, k) ==
    RemoveFlow(CloseH3([x EXCEPT !.flow[k].pcb = FALSE, !.pcb[k] = NoPcb, !.app[k].phase = "over"], k), k)

(* External: what lwIP does with a segment of k.  A pcb whose listener is  *)
(* gone is aborted instead of accepted; a segment without a pcb is         *)
(* answered with RST; "create" also stands for an empty pool of pcbs.      *)
LwipInput(x, k, seg, how) ==
    LET p == x.pcb[k].state
        gone == [x EXCEPT !.pcb[k] = NoPcb, !.app[k].phase = "over"]
    IN  CASE seg = "syn" /\ p = "none" /\ how # "create" -> [x EXCEPT !.pcb[k] = [state |-> "syn_rcvd", listener |-> TRUE]]
          [] seg = "ack" /\ p = "none" -> [x EXCEPT !.app[k].phase = "over"]
          [] seg = "ack" /\ p = "syn_rcvd" -> IF x.pcb[k].listener THEN LwipAccept(x, k, how) ELSE gone
          [] seg = "ack" /\ p = "established" -> [x EXCEPT !.flow[k].age = 0]
          [] seg = "ack" /\ p = "closing" -> [x EXCEPT !.pcb[k] = NoPcb]
          [] seg = "rst" /\ p = "established" -> OnLwipErr(x, k)
          [] seg = "rst" /\ p \in {"syn_rcvd", "closing"} -> gone
          [] OTHER -> x

(* Mutant: a SYN on a RAW marker always starts the verdict anew. *)
DecideIgnoringIsn(x, k, seg, to_tcp) ==
    LET f == x.flow[k]
        is_syn == seg = "syn" /\ f.state \in {"absent", "closing", "sticky_raw"}
    IN  IF is_syn THEN LET c == OnSyn(x, k, to_tcp, x.app[k].isn)
                       IN  [lane |-> IF c.ret /\ to_tcp THEN "tcp" ELSE "raw", commit |-> c.ret, x |-> c.x]
        ELSE [lane |-> IF f.state \in {"absent", "sticky_raw"} THEN "raw" ELSE "tcp", commit |-> FALSE, x |-> x]

(* The verdict of tun_decide_lane: found is the lookup, which a SYN undoes *)
(* on a closing marker and, with another ISN, on a RAW marker.             *)
DecideLane(x, k, seg, to_tcp) ==
    LET f == x.flow[k]
        is_syn == seg = "syn" /\ f.state \in {"absent", "closing", "sticky_raw"}
        found == /\ InTable(x, k)
                 /\ ~(is_syn /\ (f.state = "closing" \/ f.isn # x.app[k].isn))
        c == OnSyn(x, k, to_tcp, x.app[k].isn)
    IN  IF ~found /\ is_syn
        THEN [lane |-> IF c.ret /\ to_tcp THEN "tcp" ELSE "raw", commit |-> c.ret, x |-> c.x]
        ELSE [lane |-> IF ~found \/ f.state = "sticky_raw" THEN "raw" ELSE "tcp", commit |-> FALSE, x |-> x]

Verdict(k, seg, to_tcp) ==
    IF lane /\ Classify(k) = "tcp" THEN DecideLane(w, k, seg, to_tcp) ELSE [lane |-> "raw", commit |-> FALSE, x |-> w]

(* What the verdict v means to the connection, for LaneSticky. *)
Note(x, k, v) ==
    LET p == x.app[k].phase
    IN  [x EXCEPT !.app[k].phase =
           IF <<p, v.lane>> \in {<<"raw", "tcp">>, <<"est", "raw">>} THEN "mixed"
           ELSE IF v.commit THEN v.lane ELSE p]

Quiet == cur = None

TunPacket(k, seg, how, multi) ==
    /\ Quiet
    /\ seg = "syn" => w.app[k].phase \in {"new", "raw", "tcp"}
    /\ LET v == Verdict(k, seg, SynPolicy(multi))
           x == Note(v.x, k, v)
           y == IF seg = "rst" THEN [x EXCEPT !.app[k].phase = "over"] ELSE x
       IN  w' = IF v.lane = "tcp" THEN LwipInput(y, k, seg, how) ELSE y
    /\ UNCHANGED <<lane, due, cur, nxt>>

-----------------------------------------------------------------------------
(* Notifications of xquic, for the flow bound to the stream, if any *)

Owners(x, s) == {k \in Keys : x.flow[k].stream = s}

FlowStep(x) == w' = x /\ UNCHANGED <<lane, due, cur, nxt>>

OnStreamEstablished(s) ==
    \E k \in Owners(w, s) :
       /\ Quiet /\ w.flow[k].state = "pending_stream"
       /\ FlowStep([w EXCEPT !.flow[k].state = "active", !.flow[k].age = 0])

OnStreamRejected(s) ==
    \E k \in Owners(w, s) :
       /\ Quiet /\ w.flow[k].state = "pending_stream"
       /\ FlowStep(TeardownFlow(w, k, TRUE))

(* Mutant: the flow that owned the stream forgets to abort its pcb. *)
ClosingKeepsPcb(x, s) ==
    IF Owners(x, s) = {} THEN x
    ELSE LET k == CHOOSE k \in Owners(x, s) : TRUE IN RemoveFlow([x EXCEPT !.flow[k].stream = 0], k)

OnH3Closing(x, s) ==
    IF Owners(x, s) = {} THEN x ELSE TeardownFlow(x, CHOOSE k \in Owners(x, s) : TRUE, FALSE)

(* RESET_STREAM from the peer. *)
ClosingNotify(s) ==
    /\ Quiet /\ w.stream[s] = "open"
    /\ FlowStep([OnH3Closing(w, s) EXCEPT !.stream[s] = "ended"])

(* cb_request_close, the last notification, whatever closed the request:   *)
(* the stream object is freed.                                             *)
RequestClosed(x, s) ==
    IF x.stream[s] = "free" THEN x ELSE [OnH3Closing(x, s) EXCEPT !.stream[s] = "free"]

CloseNotify(s) ==
    /\ Quiet /\ w.stream[s] = "ended"
    /\ FlowStep(RequestClosed(w, s))

(* What the relay of an active flow does to the table: it moves bytes,     *)
(* stops at lwIP's full send buffer, ends cleanly or fails.                *)
RelayMoves(k) ==
    /\ Quiet /\ w.flow[k].state = "active"
    /\ \E p \in BOOLEAN : FlowStep([w EXCEPT !.flow[k].age = 0, !.flow[k].paused = p])

RelayEnds(k) ==
    /\ Quiet /\ w.flow[k].state = "active" /\ ~w.flow[k].paused
    /\ FlowStep(FinishCleanClose(w, k))

RelayFails(k) ==
    /\ Quiet /\ w.flow[k].state \in {"pending_stream", "active"} /\ w.flow[k].pcb
    /\ FlowStep(TeardownFlow(w, k, TRUE))

(* mqvpn_lwip_tick: a timer of lwIP gives a pcb up. *)
LwipTimer(k) ==
    /\ Quiet /\ lane /\ w.pcb[k].state # "none"
    /\ FlowStep(IF w.pcb[k].state = "established" THEN OnLwipErr(w, k) ELSE [w EXCEPT !.pcb[k] = NoPcb])

-----------------------------------------------------------------------------
(* mqvpn_tcp_lane_tick, one flow of the walk per step.  A sweep is atomic: *)
(* every other step waits for its end (Quiet).                             *)

NextInChain(x, k) ==
    IF Place(x, k) < Len(x.chain) THEN x.chain[Place(x, k) + 1] ELSE None

Head1(x) == IF x.chain = <<>> THEN None ELSE Head(x.chain)

(* f = ..., next = f->next: what the loop holds when it visits k. *)
Visit(x, k) == cur' = k /\ nxt' = IF k # None /\ InTable(x, k) THEN NextInChain(x, k) ELSE None

Second ==
    /\ Quiet /\ lane
    /\ w.n["tcp"] + w.n["closing"] = 0 \/ ~due
    /\ due' = TRUE
    /\ w' = [w EXCEPT !.flow = [k \in Keys |->
                IF InTable(w, k) /\ w.flow[k].state # "sticky_raw" /\ w.flow[k].age < Horizon
                THEN [w.flow[k] EXCEPT !.age = @ + 1] ELSE w.flow[k]]]
    /\ UNCHANGED <<lane, cur, nxt>>

TickStart ==
    /\ Quiet /\ lane /\ due
    /\ w.n["tcp"] + w.n["closing"] > 0
    /\ due' = FALSE
    /\ Visit(w, Head1(w))
    /\ UNCHANGED <<w, lane>>

(* Mutant: a flow that lwIP has not accepted yet is never idle. *)
IdleAccepted(f) == IdleTimeout # 0 /\ f.state \notin {"sticky_raw", "closing", "pending_accept"} /\ f.age > IdleTimeout

Idle(f) == IdleTimeout # 0 /\ f.state \notin {"sticky_raw", "closing"} /\ f.age > IdleTimeout

Expired(f) == f.state = "closing" /\ f.age > Grace

SweepEvict ==
    /\ cur # None
    /\ LET f == w.flow[cur]
           x == IF Expired(f) THEN RemoveFlow(w, cur) ELSE TeardownFlow(w, cur, TRUE)
       IN  /\ Expired(f) \/ Idle(f)
           /\ w' = x
           /\ Visit(x, nxt)
    /\ UNCHANGED <<lane, due>>

SweepPass ==
    /\ cur # None
    /\ LET f == w.flow[cur] IN ~Expired(f) /\ ~Idle(f) /\ ~f.paused
    /\ Visit(w, nxt)
    /\ UNCHANGED <<w, lane, due>>

(* Where the walk goes on after the retry of a paused flow: from the head  *)
(* of the bucket when the flow is gone or a marker.                        *)
AfterRetry(live, x) == Visit(x, IF live THEN nxt ELSE Head1(x))

(* The stash is retried and the drain resumed: the flow stays as it is,    *)
(* moves, reaches its clean end, or fails.                                 *)
SweepRetry ==
    /\ cur # None
    /\ LET f == w.flow[cur]
           moved == [w EXCEPT !.flow[cur].paused = FALSE, !.flow[cur].age = 0]
       IN  /\ ~Expired(f) /\ ~Idle(f) /\ f.paused
           /\ \/ w' = w /\ AfterRetry(TRUE, w)
              \/ w' = moved /\ AfterRetry(TRUE, moved)
              \/ \E x \in {FinishCleanClose(moved, cur), TeardownFlow(w, cur, TRUE)} : w' = x /\ AfterRetry(FALSE, x)
    /\ UNCHANGED <<lane, due>>

Sweep == SweepEvict \/ SweepPass \/ SweepRetry

-----------------------------------------------------------------------------
(* The lane's life *)

(* Tunnel configuration arrives: the context, then the table; without the  *)
(* table the context is given up again.                                    *)
LaneNew(ok) ==
    /\ Quiet /\ ~lane /\ TcpMode # "raw"
    /\ lane' = ok
    /\ due' = FALSE
    /\ UNCHANGED <<w, cur, nxt>>

(* Every pcb of a flow is aborted, then every entry freed; the requests    *)
(* are left to the connection.                                             *)
LaneFree(x) ==
    [Empty EXCEPT !.pcb = [k \in Keys |-> IF x.flow[k].pcb THEN NoPcb ELSE x.pcb[k]],
                  !.stream = x.stream,
                  !.app = [k \in Keys |-> IF x.flow[k].pcb THEN [x.app[k] EXCEPT !.phase = "over"] ELSE x.app[k]]]

(* mqvpn_lwip_ctx_free closes the listener: half-open pcbs lose it. *)
CtxFree(x) == [x EXCEPT !.pcb = [k \in Keys |-> [@[k] EXCEPT !.listener = FALSE]]]

(* The connection ends: xquic closes its requests, then cb_h3_conn_close   *)
(* destroys the connection with its lane.  A flow whose request is closed  *)
(* is torn down first, its pcb aborted as LaneFree aborts the others'.     *)
(* Connections that have a verdict but were not accepted have none with    *)
(* the next lane.                                                          *)
ConnClose ==
    /\ Quiet /\ lane
    /\ LET x == CtxFree(LaneFree(w))
       IN  w' = [x EXCEPT !.stream = [s \in Streams |-> "free"], !.app = [k \in Keys |-> IF @[k].phase \in {"raw", "tcp"} THEN [@[k] EXCEPT !.phase = "new"] ELSE @[k]]]
    /\ lane' = FALSE
    /\ due' = FALSE
    /\ UNCHANGED <<cur, nxt>>

-----------------------------------------------------------------------------
(* Inner hosts *)

AppConnects(k) ==
    /\ Quiet /\ w.app[k].phase = "over"
    /\ FlowStep([w EXCEPT !.app[k] = [isn |-> 1 - @.isn, phase |-> "new"]])

(* It ends on the RAW lane, or vanishes. *)
AppEnds(k) ==
    /\ Quiet /\ w.app[k].phase # "over"
    /\ FlowStep([w EXCEPT !.app[k].phase = "over"])

Next ==
    \/ \E k \in Keys :
         \/ \E seg \in {"syn", "ack", "rst"}, how \in {"ok", "create", "headers"}, multi \in BOOLEAN :
              TunPacket(k, seg, how, multi)
         \/ RelayMoves(k)
         \/ RelayEnds(k)
         \/ RelayFails(k)
         \/ LwipTimer(k)
         \/ AppConnects(k)
         \/ AppEnds(k)
    \/ \E s \in Streams :
         \/ OnStreamEstablished(s)
         \/ OnStreamRejected(s)
         \/ ClosingNotify(s)
         \/ CloseNotify(s)
    \/ Second
    \/ TickStart
    \/ SweepEvict
    \/ SweepPass
    \/ SweepRetry
    \/ \E ok \in BOOLEAN : LaneNew(ok)
    \/ ConnClose

(* The event loop ticks the client while a lane has entries to age. *)
Ticking  == lane /\ w.n["tcp"] + w.n["closing"] > 0
Fairness == []<>~Ticking \/ []<><<Second \/ TickStart \/ Sweep>>_vars

Spec == Init /\ [][Next]_vars /\ Fairness

-----------------------------------------------------------------------------
(* Properties *)

FlowStates == {"absent", "pending_accept", "pending_stream", "active", "closing", "sticky_raw"}

TypeOK ==
    /\ w.chain \in Seq(Keys) /\ IsInjective(w.chain)
    /\ \A k \in Keys :
         /\ w.flow[k] \in [state : FlowStates, pcb : BOOLEAN, stream : Streams \cup {0}, isn : 0..1,
                           age : 0..Horizon, paused : BOOLEAN]
         /\ w.pcb[k] \in [state : {"none", "syn_rcvd", "established", "closing"}, listener : BOOLEAN]
         /\ InTable(w, k) <=> k \in ToSet(w.chain)
    /\ w.stream \in [Streams -> {"free", "open", "ended"}]
    /\ {lane, due} \subseteq BOOLEAN
    /\ {cur, nxt} \subseteq Keys \cup {None}

(* The three counters, from which admission, eviction and the statistics   *)
(* are decided, count exactly the entries of the table, within their caps. *)
CountersExact ==
    /\ \A p \in Populations :
         w.n[p] = Cardinality({k \in Keys : InTable(w, k) /\ Population(w.flow[k].state) = p})
    /\ w.n["tcp"] <= MaxFlows /\ w.n["raw"] <= MarkerCap /\ w.n["closing"] <= ClosingCap

(* lwIP holds an accepted pcb with our callbacks exactly while a flow of   *)
(* the table owns it: no flow keeps a freed pcb and none survives the      *)
(* flow, the lane or the connection (lwip_glue.h's teardown contract).     *)
PcbOwned == \A k \in Keys : w.pcb[k].state = "established" <=> w.flow[k].pcb

(* A request is open exactly while one flow is bound to it; no flow holds  *)
(* a freed stream object, even after its slot is used again.               *)
StreamOwned ==
    \A s \in Streams :
       /\ w.stream[s] = "open" <=> Owners(w, s) # {}
       /\ Cardinality(Owners(w, s)) <= 1

(* What the sweep holds in f and next while it evicts, retries and marks   *)
(* are entries of the table.                                               *)
CursorLive == \A k \in {cur, nxt} \ {None} : InTable(w, k)

(* The lane's table, its counters, lwIP's pcbs and the requests agree, at  *)
(* every step of the sweep too: nothing is used after it was freed and     *)
(* nothing is left behind when an allocation failed or a side reset.       *)
FlowsOwned == TypeOK /\ CountersExact /\ PcbOwned /\ StreamOwned /\ CursorLive

(* Within a VPN connection no packet of a live inner connection leaves the *)
(* lane its SYN was committed to (sticky from the verdict on RAW, from     *)
(* lwIP's accept on the TCP lane).                                         *)
LaneSticky == \A k \in Keys : w.app[k].phase # "mixed"

(* A marker left by a clean close, and a flow lwIP never accepts, leave    *)
(* the table: neither a tuple nor a slot is lost for good.                 *)
Reaped ==
    \A k \in Keys : \A state \in {"closing", "pending_accept"} :
       w.flow[k].state = state ~> w.flow[k].state # state
=============================================================================
