----------------------------- MODULE TcpEgress ------------------------------
(***************************************************************************)
(* The server's connect-tcp requests (src/src/hybrid/tcp_egress.c): how a  *)
(* request is admitted, the egress flow with its socket from connect() to  *)
(* its one destruction, the two counters the caps are tested against, and  *)
(* the platform's registry that maps a socket back to its flow             *)
(* (src/src/platform/linux/platform_linux.c).  What a flow relays is       *)
(* TcpRelay's subject.                                                     *)
(*                                                                         *)
(* A flow is named by its stream, whose tcp_egress_flow field points to    *)
(* it; stream objects, connections and file descriptors are used again     *)
(* after they are freed, and a descriptor is the smallest free one.        *)
(* xqc_h3_request_close may call the close notification at once or later.  *)
(***************************************************************************)
EXTENDS Integers, FiniteSets

CONSTANTS
    Conns,           \* H3 connections (svr_conn_t)
    Streams,         \* bound: stream objects
    Fds,             \* bound: file descriptors open at a time
    MaxFlows,        \* hybrid.tcp_max_flows, per connection
    Budget,          \* egress_fd_budget: the whole server and the registry
    ConnectTimeout,  \* hybrid.tcp_connect_timeout_sec
    IdleTimeout,     \* hybrid.tcp_idle_timeout_sec; 0 is "never"
    MaxFail          \* bound: failures of event_new and event_add

ASSUME EgressAssumption ==
    /\ Streams \cup Fds \subseteq Nat \ {0} /\ IsFiniteSet(Streams) /\ IsFiniteSet(Fds)
    /\ Conns # {}
    /\ {MaxFlows, ConnectTimeout} \subseteq Nat \ {0}
    /\ {Budget, IdleTimeout, MaxFail} \subseteq Nat
    /\ Cardinality(Fds) >= Budget

VARIABLES
    w,      \* streams, flows, counters, descriptors and registry, see Start
    due,    \* a second has passed since the last tick
    up      \* the server exists

vars == <<w, due, up>>

-----------------------------------------------------------------------------
(* State *)

Horizon == (IF IdleTimeout > ConnectTimeout THEN IdleTimeout ELSE ConnectTimeout) + 1

NoStream == [st |-> "free", conn |-> CHOOSE c \in Conns : TRUE, resp |-> "none"]
NoFlow   == [st |-> "absent", fd |-> 0, age |-> 0]

Start ==
    [stream |-> [s \in Streams |-> NoStream],
     flow |-> [s \in Streams |-> NoFlow], nconn |-> [c \in Conns |-> 0], nglobal |-> 0,
     fds |-> {}, reg |-> [f \in Fds |-> 0], fails |-> 0]

Init == w = Start /\ due = FALSE /\ up = TRUE

Live(x, s) == x.flow[s].st # "absent"

-----------------------------------------------------------------------------
(* The platform's registry.  fail says that libevent cannot make or add    *)
(* the event: the slot is emptied.                                         *)

Register(x, fd, s, fail) ==
    LET used == Cardinality({f \in Fds : x.reg[f] # 0})
    IN  IF x.reg[fd] = 0 /\ used >= Budget THEN x
        ELSE IF fail THEN [x EXCEPT !.reg[fd] = 0, !.fails = @ + 1]
        ELSE [x EXCEPT !.reg[fd] = s]

Unregister(x, F) == [x EXCEPT !.reg = [fd \in Fds |-> IF fd \in F THEN 0 ELSE x.reg[fd]]]

-----------------------------------------------------------------------------
(* Flows.  A loop over several of them is one operator on their set: each  *)
(* turn touches only what its flow owns.                                   *)

Descriptors(x, S) == {x.flow[s].fd : s \in S}
OfConn(x, S, c)   == {s \in S : x.stream[s].conn = c}

(* Mutant: the descriptor is closed and stays in the registry. *)
DestroyKeepsEvent(x, S) ==
    [x EXCEPT !.fds = @ \ Descriptors(x, S),
              !.nconn = [c \in Conns |-> x.nconn[c] - Cardinality(OfConn(x, S, c))],
              !.nglobal = @ - Cardinality(S),
              !.flow = [s \in Streams |-> IF s \in S THEN NoFlow ELSE x.flow[s]]]

(* The only way a flow ends. *)
FlowDestroy(x, S) ==
    [Unregister(x, Descriptors(x, S)) EXCEPT
              !.fds = @ \ Descriptors(x, S),
              !.nconn = [c \in Conns |-> x.nconn[c] - Cardinality(OfConn(x, S, c))],
              !.nglobal = @ - Cardinality(S),
              !.flow = [s \in Streams |-> IF s \in S THEN NoFlow ELSE x.flow[s]]]

(* cb_request_close: a flow still there is destroyed, the stream freed. *)
RequestClosed(x, S) ==
    LET R == {s \in S : x.stream[s].st # "free"}
    IN  [FlowDestroy(x, {s \in R : Live(x, s)}) EXCEPT
            !.stream = [s \in Streams |-> IF s \in R THEN NoStream ELSE x.stream[s]]]

(* xqc_h3_request_close, by a relay error or of idle flows. *)
CloseRequest(x, S, sync) ==
    LET y == [x EXCEPT !.stream = [s \in Streams |->
                 IF s \in S \ sync THEN [x.stream[s] EXCEPT !.st = "closing"] ELSE x.stream[s]]]
    IN  RequestClosed(y, S \cap sync)

(* svr_tcp_egress_respond; "refused" stands for 400, 403, 500, 502, 503    *)
(* and 504.                                                                *)
Respond(x, S, status) ==
    [x EXCEPT !.stream = [s \in Streams |->
        IF s \in S THEN [x.stream[s] EXCEPT !.resp = status] ELSE x.stream[s]]]

FailConnect(x, S) == FlowDestroy(Respond(x, S, "refused"), S)

(* The 200 goes out, then what the client sent before it is drained: the   *)
(* drain may fail and close the request.                                   *)
OnConnected(x, s, fail, drained, sync) ==
    LET y == [x EXCEPT !.flow[s].st = "active", !.flow[s].age = 0]
        z == Respond(Register(y, y.flow[s].fd, s, fail), {s}, "200")
    IN  IF drained THEN z ELSE CloseRequest(z, {s}, sync)

-----------------------------------------------------------------------------
(* A request *)

(* svr_tcp_egress_acl_decide: the tunnel's subnet is out of reach even for *)
(* EgressAllow, which overrides the built-in and the configured denials.   *)
AclDecide(t) == ~t.tunnel /\ (t.allow \/ (~t.private /\ ~t.deny))

Targets == [tunnel : BOOLEAN, allow : BOOLEAN, private : BOOLEAN, deny : BOOLEAN]

(* Who may go on to connect: an authenticated tunnel, a path that parses,  *)
(* a target the rules allow.                                               *)
Admissions == {a /\ p /\ AclDecide(t) : a \in BOOLEAN, p \in BOOLEAN, t \in Targets}

(* Both caps, before a socket is made. *)
Admit(x, c) == x.nglobal < Budget /\ x.nconn[c] < MaxFlows

(* how: no callback registered by the platform, no socket or memory, and   *)
(* the three ends of connect().                                            *)
StartConnect(x, s, how, fail, drained, sync) ==
    LET c == x.stream[s].conn
        fd == CHOOSE f \in Fds \ x.fds : \A g \in Fds \ x.fds : f <= g
        y == [x EXCEPT !.fds = @ \cup {fd}, !.flow[s] = [st |-> "connecting", fd |-> fd, age |-> 0],
                       !.nconn[c] = @ + 1, !.nglobal = @ + 1]
    IN  IF how = "none" \/ ~Admit(x, c) \/ x.fds = Fds THEN Respond(x, {s}, "refused")
        ELSE CASE how = "done"     -> OnConnected(y, s, fail, drained, sync)
               [] how = "error"    -> FailConnect(y, {s})
               [] how = "progress" -> Register(y, fd, s, fail)

-----------------------------------------------------------------------------
(* svr_tcp_egress_tick, at the end of every handler of the event loop.     *)
(* sync: the idle flows whose close notification comes at once.            *)

(* Mutant: a flow that is not in the registry is left to its events. *)
LatePolled(x) == {s \in Streams : x.flow[s].st = "connecting" /\ x.flow[s].age >= ConnectTimeout
                                  /\ x.reg[x.flow[s].fd] = s}

Late(x) == {s \in Streams : x.flow[s].st = "connecting" /\ x.flow[s].age >= ConnectTimeout}

(* Mutant: the sweep collects no idle flow. *)
IdleNever(x) == {}

IdleFlows(x) == {s \in Streams : IdleTimeout # 0 /\ x.flow[s].st = "active" /\ x.flow[s].age > IdleTimeout}

Tick(x, sync) == CloseRequest(FailConnect(x, Late(x)), IdleFlows(x), sync)

Handler(x) == \E sync \in SUBSET IdleFlows(x) : w' = Tick(x, sync) /\ due' = FALSE /\ UNCHANGED up

Fails == IF w.fails < MaxFail THEN BOOLEAN ELSE {FALSE}

-----------------------------------------------------------------------------
(* Handlers *)

(* cb_request_read with the headers of a connect-tcp request. *)
Request(c, s) ==
    /\ up /\ w.stream[s].st = "free"
    /\ \A t \in Streams : w.stream[t].st = "free" => s <= t
    /\ LET x == [w EXCEPT !.stream[s] = [st |-> "open", conn |-> c, resp |-> "none"]]
       IN  \E allowed \in Admissions :
             IF ~allowed THEN Handler(Respond(x, {s}, "refused"))
             ELSE \E how \in {"none", "done", "error", "progress"}, fail \in Fails,
                     drained \in BOOLEAN, sync \in {{}, {s}} :
                       Handler(StartConnect(x, s, how, fail, drained, sync))

(* on_egress_fd_event of a connecting flow: SO_ERROR decides. *)
ConnectEvent(fd) ==
    LET s == w.reg[fd]
    IN  /\ up /\ s # 0 /\ w.flow[s].st = "connecting"
        /\ \/ Handler(FailConnect(w, {s}))
           \/ \E fail \in Fails, drained \in BOOLEAN, sync \in {{}, {s}} :
                Handler(OnConnected(w, s, fail, drained, sync))

(* The relay moves bytes and sets its interest, or fails: on an event of   *)
(* its socket, or on a body or write notification of the request, which    *)
(* reaches the flow without the registry.                                  *)
Relay(s) ==
    /\ up /\ w.flow[s].st = "active" /\ w.stream[s].st = "open"
    /\ \/ \E fail \in Fails : Handler(Register([w EXCEPT !.flow[s].age = 0], w.flow[s].fd, s, fail))
       \/ \E sync \in {{}, {s}} : Handler(CloseRequest(w, {s}, sync))

(* cb_request_closing_notify: RESET_STREAM from the client. *)
ClosingNotify(s) ==
    /\ up /\ w.stream[s].st = "open"
    /\ Handler([FlowDestroy(w, {t \in {s} : Live(w, t)}) EXCEPT !.stream[s].st = "closing"])

CloseNotify(s) ==
    /\ up /\ (w.stream[s].st = "closing" \/ w.stream[s].resp = "refused")
    /\ Handler(RequestClosed(w, {s}))

(* xquic closes the requests of a connection, then the connection, which   *)
(* is not told apart from one that has no request.                         *)
ConnClosed(c) ==
    /\ up
    /\ LET mine == {s \in Streams : w.stream[s].st # "free" /\ w.stream[s].conn = c}
       IN  mine # {} /\ Handler(RequestClosed(w, mine))

Second ==
    /\ up /\ ~due
    /\ due' = TRUE
    /\ w' = [w EXCEPT !.flow = [s \in Streams |->
                IF Live(w, s) /\ w.flow[s].age < Horizon THEN [w.flow[s] EXCEPT !.age = @ + 1] ELSE w.flow[s]]]
    /\ UNCHANGED up

OnTick == up /\ due /\ Handler(w)

(* The cleanup of linux_platform_run_server: mqvpn_server_destroy closes   *)
(* the connections with the engine, sweeps the flows that are left and     *)
(* frees the rest; the registry is freed after it.                         *)
Destroy ==
    /\ up
    /\ up' = FALSE
    /\ LET x == RequestClosed(w, Streams)
       IN  w' = FlowDestroy(x, {s \in Streams : Live(x, s)})
    /\ UNCHANGED due

Next ==
    \/ \E c \in Conns :
         \/ ConnClosed(c)
         \/ \E s \in Streams : Request(c, s)
    \/ \E fd \in Fds : ConnectEvent(fd)
    \/ \E s \in Streams :
         \/ Relay(s)
         \/ ClosingNotify(s)
         \/ CloseNotify(s)
    \/ Second
    \/ OnTick
    \/ Destroy

(* The event loop runs its timer while it runs at all, and xquic finishes  *)
(* the requests that were closed.                                          *)
Waiting  == up /\ \E s \in Streams : Live(w, s)
Fairness ==
    /\ []<>~Waiting \/ []<><<Second \/ OnTick>>_vars
    /\ \A s \in Streams : []<>(w.stream[s].st # "closing")

Spec == Init /\ [][Next]_vars /\ Fairness

-----------------------------------------------------------------------------
(* Properties *)

TypeOK ==
    /\ w.stream \in [Streams -> [st : {"free", "open", "closing"}, conn : Conns,
                                 resp : {"none", "200", "refused"}]]
    /\ w.flow \in [Streams -> [st : {"absent", "connecting", "active"}, fd : Fds \cup {0}, age : 0..Horizon]]
    /\ w.nconn \in [Conns -> Nat] /\ w.nglobal \in Nat
    /\ w.fds \subseteq Fds /\ w.reg \in [Fds -> Streams \cup {0}]
    /\ w.fails \in 0..MaxFail /\ {due, up} \subseteq BOOLEAN

(* Both counters equal the flows they stand for, so neither cap can be     *)
(* passed and none is used up by flows that are gone.                      *)
CountsExact ==
    /\ w.nglobal = Cardinality({s \in Streams : Live(w, s)})
    /\ \A c \in Conns : w.nconn[c] = Cardinality({s \in Streams : Live(w, s) /\ w.stream[s].conn = c})
    /\ w.nglobal <= Budget
    /\ \A c \in Conns : w.nconn[c] <= MaxFlows

(* Every open egress descriptor belongs to one flow, whatever error path   *)
(* the request took, and none is left when the server is gone.             *)
FdOwned ==
    /\ w.fds = {w.flow[s].fd : s \in {t \in Streams : Live(w, t)}}
    /\ \A s, t \in Streams : Live(w, s) /\ Live(w, t) /\ w.flow[s].fd = w.flow[t].fd => s = t
    /\ ~up => w.fds = {}

(* The registry hands an event to the flow that owns the descriptor now,   *)
(* never to a freed flow whose descriptor number came back.                *)
RegistryFresh == \A fd \in Fds : w.reg[fd] # 0 => w.flow[w.reg[fd]].fd = fd

(* The registry never refuses a flow that was admitted: a flow without an  *)
(* event is one whose event libevent could not make.                       *)
AlwaysPolled == w.fails = 0 => \A s \in Streams : Live(w, s) => w.reg[w.flow[s].fd] = s

(* Destroying a flow reaches its stream and connection: both outlive it.   *)
StreamOutlives == \A s \in Streams : Live(w, s) => w.stream[s].st # "free"

(* Flows, counters, descriptors, events and streams agree on every path    *)
(* through accept, connect, relay, refusal, sweep and shutdown.            *)
FlowsSound ==
    TypeOK /\ CountsExact /\ FdOwned /\ RegistryFresh /\ AlwaysPolled /\ StreamOutlives

(* Every request gets an answer, also when connect() never finishes or its *)
(* event was lost.                                                         *)
Answered == \A s \in Streams : w.stream[s].st = "open" /\ w.stream[s].resp = "none"
                                  ~> w.stream[s].st # "open" \/ w.stream[s].resp # "none" \/ ~up

(* A flow that moves no byte any more gives its descriptor back. *)
ParkedCollected == \A s \in Streams : <>[](w.flow[s].st = "active") => []<>(w.flow[s].age = 0)
=============================================================================
