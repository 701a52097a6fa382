-------------------------- MODULE TcpEgressProofs --------------------------
(***************************************************************************)
(* Proofs about TcpEgress, for every number of connections, streams and    *)
(* descriptors and every cap, budget and timeout.                          *)
(*                                                                         *)
(* The handlers are compositions of operators on the record x of streams,  *)
(* flows, counters, descriptors and registry, so the invariant is a        *)
(* predicate of x and each operator has a lemma: it keeps the predicate.   *)
(***************************************************************************)
EXTENDS TcpEgress, FiniteSetTheorems, WellFoundedInduction, TLAPS

Stream == [st : {"free", "open", "closing"}, conn : Conns, resp : {"none", "200", "refused"}]
Flow   == [st : {"absent", "connecting", "active"}, fd : Fds \cup {0}, age : 0..Horizon]
World  == [stream : [Streams -> Stream], flow : [Streams -> Flow], nconn : [Conns -> Nat],
           nglobal : Nat, fds : SUBSET Fds, reg : [Fds -> Streams \cup {0}], fails : 0..MaxFail]

LiveSet(x) == {s \in Streams : Live(x, s)}

(* A flow that is not there has no descriptor. *)
FdIffLive(x) == \A s \in Streams : x.flow[s].fd = 0 <=> x.flow[s].st = "absent"

(* Both counters, with their caps. *)
Counted(x) ==
    /\ x.nglobal = Cardinality(LiveSet(x)) /\ x.nglobal <= Budget
    /\ \A c \in Conns : /\ x.nconn[c] = Cardinality(OfConn(x, LiveSet(x), c))
                        /\ x.nconn[c] <= MaxFlows

(* Each flow owns one descriptor. *)
Owned(x) ==
    /\ x.fds = Descriptors(x, LiveSet(x))
    /\ \A s, t \in LiveSet(x) : x.flow[s].fd = x.flow[t].fd => s = t

(* An entry of the registry names the flow that owns the descriptor. *)
Fresh(x) == \A fd \in Fds : x.reg[fd] # 0 => x.flow[x.reg[fd]].fd = fd

(* Every flow but those of N is in the registry, unless libevent failed. *)
Polled(x, N) == x.fails = 0 => \A s \in LiveSet(x) \ N : x.reg[x.flow[s].fd] = s

Outlives(x) == \A s \in LiveSet(x) : x.stream[s].st # "free"

(* The flows of N are between their creation and their registration. *)
SoundBut(x, N) ==
    /\ x \in World /\ FdIffLive(x) /\ Counted(x) /\ Owned(x) /\ Fresh(x)
    /\ Polled(x, N) /\ Outlives(x)

EgressInv ==
    /\ SoundBut(w, {}) /\ due \in BOOLEAN /\ up \in BOOLEAN
    /\ ~up => w.fds = {}

-----------------------------------------------------------------------------
(* Constants *)

LEMMA Bounds ==
    /\ Streams \subseteq Nat /\ 0 \notin Streams /\ IsFiniteSet(Streams)
    /\ Fds \subseteq Nat /\ 0 \notin Fds /\ IsFiniteSet(Fds)
    /\ Budget \in Nat /\ MaxFlows \in Nat /\ MaxFail \in Nat /\ Horizon \in Nat /\ Horizon > 0
    /\ ConnectTimeout \in Nat /\ IdleTimeout \in Nat
  <1>1. /\ Streams \subseteq Nat /\ 0 \notin Streams /\ IsFiniteSet(Streams)
        /\ Fds \subseteq Nat /\ 0 \notin Fds /\ IsFiniteSet(Fds)
    BY EgressAssumption
  <1>2. /\ Budget \in Nat /\ MaxFlows \in Nat /\ MaxFail \in Nat
        /\ ConnectTimeout \in Nat /\ IdleTimeout \in Nat
    BY EgressAssumption
  <1>3. Horizon \in Nat /\ Horizon > 0
    BY <1>2 DEF Horizon
  <1> QED
    BY <1>1, <1>2, <1>3

LEMMA NoStreamType == NoStream \in Stream
  <1>1. (CHOOSE c \in Conns : TRUE) \in Conns
    BY EgressAssumption
  <1> QED
    BY <1>1 DEF NoStream, Stream

LEMMA NoFlowType == NoFlow \in Flow /\ NoFlow.st = "absent" /\ NoFlow.fd = 0
  BY Bounds DEF NoFlow, Flow

LEMMA LiveFinite ==
    ASSUME NEW S, S \subseteq Streams
    PROVE  IsFiniteSet(S) /\ Cardinality(S) \in Nat
  BY Bounds, FS_Subset, FS_CardinalityType

LEMMA LiveFd ==
    ASSUME NEW x \in World, FdIffLive(x), NEW s \in LiveSet(x)
    PROVE  s \in Streams /\ x.flow[s].fd \in Fds /\ x.flow[s].fd # 0
  <1>1. s \in Streams /\ x.flow[s].st # "absent" /\ x.flow[s] \in Flow
    BY DEF LiveSet, Live, World
  <1> QED
    BY <1>1 DEF FdIffLive, Flow

(* What the registry holds is alive. *)
LEMMA RegistryLive ==
    ASSUME NEW x \in World, FdIffLive(x), Fresh(x), NEW fd \in Fds, x.reg[fd] # 0
    PROVE  x.reg[fd] \in LiveSet(x) /\ x.flow[x.reg[fd]].fd = fd
  <1>1. x.reg[fd] \in Streams /\ x.flow[x.reg[fd]].fd = fd /\ fd # 0
    BY Bounds DEF Fresh, World
  <1> QED
    BY <1>1 DEF FdIffLive, LiveSet, Live

-----------------------------------------------------------------------------
(* Flows end *)

(* svr_tcp_egress_flow_destroy, field by field. *)
LEMMA DestroyFields ==
    ASSUME NEW x \in World, NEW S
    PROVE  LET z == FlowDestroy(x, S) IN
           /\ z.stream = x.stream /\ z.fails = x.fails
           /\ z.flow = [s \in Streams |-> IF s \in S THEN NoFlow ELSE x.flow[s]]
           /\ z.nconn = [c \in Conns |-> x.nconn[c] - Cardinality(OfConn(x, S, c))]
           /\ z.nglobal = x.nglobal - Cardinality(S)
           /\ z.fds = x.fds \ Descriptors(x, S)
           /\ z.reg = [fd \in Fds |-> IF fd \in Descriptors(x, S) THEN 0 ELSE x.reg[fd]]
           /\ z = [stream |-> z.stream, flow |-> z.flow, nconn |-> z.nconn, nglobal |-> z.nglobal,
                   fds |-> z.fds, reg |-> z.reg, fails |-> z.fails]
  <1> DEFINE y == Unregister(x, Descriptors(x, S))
             z == FlowDestroy(x, S)
  <1>1. /\ y.stream = x.stream /\ y.fails = x.fails /\ y.flow = x.flow /\ y.nconn = x.nconn
        /\ y.nglobal = x.nglobal /\ y.fds = x.fds
        /\ y.reg = [fd \in Fds |-> IF fd \in Descriptors(x, S) THEN 0 ELSE x.reg[fd]]
    BY DEF Unregister, World
  <1>2. y = [stream |-> y.stream, flow |-> y.flow, nconn |-> y.nconn, nglobal |-> y.nglobal,
             fds |-> y.fds, reg |-> y.reg, fails |-> y.fails]
    BY DEF Unregister, World
  <1> HIDE DEF y
  <1>3. z = [y EXCEPT !.fds = y.fds \ Descriptors(x, S),
                      !.nconn = [c \in Conns |-> x.nconn[c] - Cardinality(OfConn(x, S, c))],
                      !.nglobal = y.nglobal - Cardinality(S),
                      !.flow = [s \in Streams |-> IF s \in S THEN NoFlow ELSE x.flow[s]]]
    BY DEF FlowDestroy, y
  <1> HIDE DEF z
  <1>4. z = [stream |-> z.stream, flow |-> z.flow, nconn |-> z.nconn, nglobal |-> z.nglobal,
             fds |-> z.fds, reg |-> z.reg, fails |-> z.fails]
    BY <1>2, <1>3
  <1>5. /\ z.stream = y.stream /\ z.fails = y.fails /\ z.reg = y.reg
        /\ z.flow = [s \in Streams |-> IF s \in S THEN NoFlow ELSE x.flow[s]]
        /\ z.nconn = [c \in Conns |-> x.nconn[c] - Cardinality(OfConn(x, S, c))]
        /\ z.nglobal = y.nglobal - Cardinality(S)
        /\ z.fds = y.fds \ Descriptors(x, S)
    BY <1>2, <1>3
  <1> QED
    BY <1>1, <1>4, <1>5 DEF z

LEMMA FlowDestroySound ==
    ASSUME NEW x, NEW N, SoundBut(x, N), NEW S, S \subseteq LiveSet(x)
    PROVE  LET z == FlowDestroy(x, S) IN
           /\ SoundBut(z, N \ S)
           /\ LiveSet(z) = LiveSet(x) \ S
           /\ z.stream = x.stream /\ z.fails = x.fails
           /\ \A s \in Streams \ S : z.flow[s] = x.flow[s]
  <1> DEFINE z == FlowDestroy(x, S)
             D == Descriptors(x, S)
             L == LiveSet(x)
  <1>0. /\ x \in World /\ FdIffLive(x) /\ Counted(x) /\ Owned(x) /\ Fresh(x)
        /\ Polled(x, N) /\ Outlives(x) /\ L \subseteq Streams /\ S \subseteq L
    BY DEF SoundBut, LiveSet
  <1>1. /\ z.stream = x.stream /\ z.fails = x.fails
        /\ z.flow = [s \in Streams |-> IF s \in S THEN NoFlow ELSE x.flow[s]]
        /\ z.nconn = [c \in Conns |-> x.nconn[c] - Cardinality(OfConn(x, S, c))]
        /\ z.nglobal = x.nglobal - Cardinality(S)
        /\ z.fds = x.fds \ D
        /\ z.reg = [fd \in Fds |-> IF fd \in D THEN 0 ELSE x.reg[fd]]
        /\ z = [stream |-> z.stream, flow |-> z.flow, nconn |-> z.nconn, nglobal |-> z.nglobal,
                fds |-> z.fds, reg |-> z.reg, fails |-> z.fails]
    BY <1>0, DestroyFields
  <1> HIDE DEF z
  <1>2. /\ \A s \in Streams \ S : z.flow[s] = x.flow[s]
        /\ \A s \in S : z.flow[s] = NoFlow
    BY <1>0, <1>1
  <1>3. LiveSet(z) = L \ S
    BY <1>0, <1>2, NoFlowType DEF LiveSet, Live
  <1>4. \A fd \in D : \E s \in S : x.flow[s].fd = fd
    BY DEF Descriptors
  <1>5. \A s \in S : x.flow[s].fd \in D
    BY DEF Descriptors
  <1>6. \A s \in L \ S : x.flow[s].fd \notin D
    BY <1>0, <1>4 DEF Owned
  <1> HIDE DEF D
  <1>7. \A c \in Conns : /\ OfConn(z, L \ S, c) = OfConn(x, L, c) \ OfConn(x, S, c)
                         /\ OfConn(x, S, c) \subseteq OfConn(x, L, c)
                         /\ OfConn(x, L, c) \subseteq Streams
    BY <1>0, <1>1 DEF OfConn
  <1>8. Counted(z) /\ z.nglobal \in Nat /\ \A c \in Conns : z.nconn[c] \in Nat
    <2>1. /\ IsFiniteSet(L) /\ Cardinality(L) \in Nat /\ Cardinality(S) \in Nat
          /\ Cardinality(L \ S) \in Nat
      BY <1>0, LiveFinite
    <2>2. Cardinality(L \ S) = Cardinality(L) - Cardinality(S)
      <3>1. L \cap S = S
        BY <1>0
      <3> QED
        BY <2>1, <3>1, FS_Difference
    <2>3. z.nglobal = Cardinality(LiveSet(z)) /\ z.nglobal <= Budget /\ z.nglobal \in Nat
      <3>1. x.nglobal = Cardinality(L) /\ x.nglobal <= Budget /\ Budget \in Nat
        BY <1>0, Bounds DEF Counted
      <3> HIDE DEF L
      <3> QED
        BY <1>1, <1>3, <2>1, <2>2, <3>1
    <2>4. ASSUME NEW c \in Conns
          PROVE  /\ z.nconn[c] = Cardinality(OfConn(z, LiveSet(z), c))
                 /\ z.nconn[c] <= MaxFlows /\ z.nconn[c] \in Nat
      <3> DEFINE A == OfConn(x, L, c)
                 B == OfConn(x, S, c)
      <3>1. A \cap B = B /\ A \subseteq Streams /\ B \subseteq Streams
        BY <1>7
      <3>2. x.nconn[c] = Cardinality(A) /\ x.nconn[c] <= MaxFlows /\ MaxFlows \in Nat
        BY <1>0, Bounds DEF Counted
      <3>3. z.nconn[c] = x.nconn[c] - Cardinality(B)
        BY <1>1
      <3>4. OfConn(z, LiveSet(z), c) = A \ B
        BY <1>3, <1>7
      <3> HIDE DEF A, B
      <3>5. IsFiniteSet(A) /\ Cardinality(A) \in Nat /\ Cardinality(B) \in Nat
        BY <3>1, LiveFinite
      <3>6. Cardinality(A \ B) = Cardinality(A) - Cardinality(B)
        BY <3>1, <3>5, FS_Difference
      <3>7. Cardinality(A \ B) \in Nat
        BY <3>1, LiveFinite
      <3> QED
        BY <3>2, <3>3, <3>4, <3>5, <3>6, <3>7
    <2> QED
      BY <2>3, <2>4 DEF Counted
  <1>9. z \in World
    <2>1. z.stream \in [Streams -> Stream] /\ z.fails \in 0..MaxFail
      BY <1>0, <1>1 DEF World
    <2>2. z.flow \in [Streams -> Flow]
      BY <1>0, <1>1, NoFlowType DEF World
    <2>3. z.nconn \in [Conns -> Nat] /\ z.nglobal \in Nat
      BY <1>1, <1>8
    <2>4. z.fds \in SUBSET Fds /\ z.reg \in [Fds -> Streams \cup {0}]
      BY <1>0, <1>1 DEF World
    <2> QED
      BY <1>1, <2>1, <2>2, <2>3, <2>4 DEF World
  <1>10. FdIffLive(z)
    BY <1>0, <1>2, NoFlowType DEF FdIffLive
  <1>11. Owned(z)
    <2>1. \A s, t \in LiveSet(z) : z.flow[s].fd = z.flow[t].fd => s = t
      BY <1>0, <1>2, <1>3 DEF Owned
    <2>2. x.fds = {x.flow[s].fd : s \in L}
      BY <1>0 DEF Owned, Descriptors
    <2>3. \A s \in L \ S : z.flow[s].fd = x.flow[s].fd
      BY <1>0, <1>2
    <2> HIDE DEF L
    <2>4. ASSUME NEW fd \in z.fds PROVE \E s \in L \ S : fd = z.flow[s].fd
      <3>1. fd \in x.fds /\ fd \notin D
        BY <1>1
      <3>2. PICK s \in L : fd = x.flow[s].fd
        BY <2>2, <3>1
      <3>3. s \notin S
        BY <1>5, <3>1, <3>2
      <3> QED
        BY <2>3, <3>2, <3>3
    <2>5. \A s \in L \ S : z.flow[s].fd \in z.fds
      BY <1>1, <1>6, <2>2, <2>3
    <2>6. z.fds = {z.flow[s].fd : s \in L \ S}
      BY <2>4, <2>5
    <2> QED
      BY <1>3, <2>1, <2>6 DEF Owned, Descriptors
  <1>12. Fresh(z)
    <2> SUFFICES ASSUME NEW fd \in Fds, z.reg[fd] # 0
                 PROVE  z.flow[z.reg[fd]].fd = fd
      BY DEF Fresh
    <2>1. fd \notin D /\ z.reg[fd] = x.reg[fd]
      BY <1>1
    <2>2. x.reg[fd] \in L /\ x.flow[x.reg[fd]].fd = fd
      BY <1>0, <2>1, RegistryLive
    <2>3. x.reg[fd] \notin S
      BY <1>5, <2>1, <2>2
    <2> QED
      BY <1>0, <1>2, <2>1, <2>2, <2>3
  <1>13. Polled(z, N \ S)
    <2> SUFFICES ASSUME z.fails = 0, NEW s \in LiveSet(z) \ (N \ S)
                 PROVE  z.reg[z.flow[s].fd] = s
      BY DEF Polled
    <2>1. s \in L \ S /\ s \notin N /\ z.flow[s] = x.flow[s] /\ x.fails = 0
      BY <1>0, <1>1, <1>2, <1>3
    <2>2. x.reg[x.flow[s].fd] = s /\ x.flow[s].fd \in Fds
      BY <1>0, <2>1, LiveFd DEF Polled
    <2> QED
      BY <1>1, <1>6, <2>1, <2>2
  <1>14. Outlives(z)
    BY <1>0, <1>1, <1>3 DEF Outlives
  <1>15. SoundBut(z, N \ S)
    BY <1>8, <1>9, <1>10, <1>11, <1>12, <1>13, <1>14 DEF SoundBut
  <1> QED
    BY <1>1, <1>2, <1>3, <1>15 DEF z

-----------------------------------------------------------------------------
(* Streams and flows change their state *)

(* The streams change: those with a flow keep their connection. *)
LEMMA StreamsChanged ==
    ASSUME NEW x, NEW N, SoundBut(x, N), NEW f \in [Streams -> Stream],
           \A s \in LiveSet(x) : f[s].conn = x.stream[s].conn /\ f[s].st # "free",
           NEW z, z = [x EXCEPT !.stream = f]
    PROVE  SoundBut(z, N) /\ LiveSet(z) = LiveSet(x) /\ z.stream = f /\ z.flow = x.flow
           /\ z.fails = x.fails
  <1>0. /\ x \in World /\ FdIffLive(x) /\ Counted(x) /\ Owned(x) /\ Fresh(x)
        /\ Polled(x, N) /\ Outlives(x)
    BY DEF SoundBut
  <1>1. /\ z.stream = f /\ z.flow = x.flow /\ z.nconn = x.nconn /\ z.nglobal = x.nglobal
        /\ z.fds = x.fds /\ z.reg = x.reg /\ z.fails = x.fails
    BY <1>0 DEF World
  <1>2. z \in World
    BY <1>0 DEF World
  <1>3. LiveSet(z) = LiveSet(x)
    BY <1>1 DEF LiveSet, Live
  <1>4. \A c \in Conns : OfConn(z, LiveSet(z), c) = OfConn(x, LiveSet(x), c)
    BY <1>1, <1>3 DEF OfConn
  <1>5. Counted(z)
    BY <1>0, <1>1, <1>3, <1>4 DEF Counted
  <1>6. FdIffLive(z) /\ Fresh(z)
    BY <1>0, <1>1 DEF FdIffLive, Fresh
  <1>7. Owned(z) /\ Polled(z, N)
    BY <1>0, <1>1, <1>3 DEF Owned, Polled, Descriptors
  <1>8. Outlives(z)
    BY <1>1, <1>3 DEF Outlives
  <1> QED
    BY <1>1, <1>2, <1>3, <1>5, <1>6, <1>7, <1>8 DEF SoundBut

(* The flows change in their age, or go from connecting to active. *)
SameFlows(x, g) ==
    /\ g \in [Streams -> Flow]
    /\ \A s \in Streams : /\ g[s].fd = x.flow[s].fd
                          /\ g[s].st = "absent" <=> x.flow[s].st = "absent"

LEMMA FlowsChanged ==
    ASSUME NEW x, NEW N, SoundBut(x, N), NEW g, SameFlows(x, g),
           NEW z, z = [x EXCEPT !.flow = g]
    PROVE  SoundBut(z, N) /\ LiveSet(z) = LiveSet(x) /\ z.stream = x.stream /\ z.flow = g
           /\ z.fails = x.fails
  <1> USE DEF SameFlows
  <1>0. /\ x \in World /\ FdIffLive(x) /\ Counted(x) /\ Owned(x) /\ Fresh(x)
        /\ Polled(x, N) /\ Outlives(x)
    BY DEF SoundBut
  <1>1. /\ z.stream = x.stream /\ z.flow = g /\ z.nconn = x.nconn /\ z.nglobal = x.nglobal
        /\ z.fds = x.fds /\ z.reg = x.reg /\ z.fails = x.fails
    BY <1>0 DEF World
  <1>2. z \in World
    BY <1>0 DEF World
  <1>3. LiveSet(z) = LiveSet(x) /\ LiveSet(x) \subseteq Streams
    BY <1>1 DEF LiveSet, Live
  <1>4. \A c \in Conns : OfConn(z, LiveSet(z), c) = OfConn(x, LiveSet(x), c)
    BY <1>1, <1>3 DEF OfConn
  <1>5. Counted(z)
    BY <1>0, <1>1, <1>3, <1>4 DEF Counted
  <1>6. FdIffLive(z)
    BY <1>0, <1>1 DEF FdIffLive
  <1>7. Fresh(z)
    BY <1>0, <1>1 DEF Fresh, World
  <1>8. \A s \in LiveSet(x) : z.flow[s].fd = x.flow[s].fd
    BY <1>1, <1>3
  <1>9. Descriptors(z, LiveSet(z)) = Descriptors(x, LiveSet(x))
    BY <1>3, <1>8 DEF Descriptors
  <1>10. Owned(z)
    BY <1>0, <1>1, <1>3, <1>8, <1>9 DEF Owned
  <1>11. Polled(z, N)
    BY <1>0, <1>1, <1>3, <1>8 DEF Polled
  <1>12. Outlives(z)
    BY <1>0, <1>1, <1>3 DEF Outlives
  <1> QED
    BY <1>1, <1>2, <1>3, <1>5, <1>6, <1>7, <1>10, <1>11, <1>12 DEF SoundBut

(* svr_tcp_egress_respond *)
LEMMA RespondSound ==
    ASSUME NEW x, NEW N, SoundBut(x, N), NEW S, NEW status \in {"none", "200", "refused"}
    PROVE  LET z == Respond(x, S, status) IN
           /\ SoundBut(z, N) /\ LiveSet(z) = LiveSet(x) /\ z.flow = x.flow /\ z.fails = x.fails
           /\ \A s \in Streams : z.stream[s].st = x.stream[s].st
  <1> DEFINE f == [s \in Streams |-> IF s \in S THEN [x.stream[s] EXCEPT !.resp = status]
                                                ELSE x.stream[s]]
             z == Respond(x, S, status)
  <1>1. x.stream \in [Streams -> Stream] /\ Outlives(x) /\ LiveSet(x) \subseteq Streams
    BY DEF SoundBut, World, LiveSet
  <1>2. \A s \in Streams : /\ [x.stream[s] EXCEPT !.resp = status] \in Stream
                           /\ [x.stream[s] EXCEPT !.resp = status].st = x.stream[s].st
                           /\ [x.stream[s] EXCEPT !.resp = status].conn = x.stream[s].conn
    BY <1>1 DEF Stream
  <1>3. \A s \in Streams : f[s] \in Stream /\ f[s].st = x.stream[s].st /\ f[s].conn = x.stream[s].conn
    BY <1>1, <1>2
  <1>4. f \in [Streams -> Stream]
    BY <1>3
  <1>5. z = [x EXCEPT !.stream = f]
    BY DEF Respond
  <1> HIDE DEF f, z
  <1>6. \A s \in LiveSet(x) : f[s].conn = x.stream[s].conn /\ f[s].st # "free"
    BY <1>1, <1>3 DEF Outlives
  <1>7. /\ SoundBut(z, N) /\ LiveSet(z) = LiveSet(x) /\ z.stream = f /\ z.flow = x.flow
        /\ z.fails = x.fails
    BY <1>4, <1>5, <1>6, StreamsChanged
  <1> QED
    BY <1>3, <1>7 DEF z

(* svr_tcp_egress_fail_connect *)
LEMMA FailConnectSound ==
    ASSUME NEW x, NEW N, SoundBut(x, N), NEW S, S \subseteq LiveSet(x)
    PROVE  LET z == FailConnect(x, S) IN
           /\ SoundBut(z, N \ S) /\ LiveSet(z) = LiveSet(x) \ S
           /\ \A s \in Streams : z.stream[s].st = x.stream[s].st
  <1> DEFINE y == Respond(x, S, "refused")
  <1>1. /\ SoundBut(y, N) /\ LiveSet(y) = LiveSet(x)
        /\ \A s \in Streams : y.stream[s].st = x.stream[s].st
    BY RespondSound
  <1>2. FailConnect(x, S) = FlowDestroy(y, S)
    BY DEF FailConnect
  <1> HIDE DEF y
  <1>3. /\ SoundBut(FlowDestroy(y, S), N \ S) /\ LiveSet(FlowDestroy(y, S)) = LiveSet(y) \ S
        /\ FlowDestroy(y, S).stream = y.stream
    BY <1>1, FlowDestroySound
  <1> QED
    BY <1>1, <1>2, <1>3

(* cb_request_close *)
LEMMA RequestClosedSound ==
    ASSUME NEW x, SoundBut(x, {}), NEW S, S \subseteq Streams
    PROVE  LET z == RequestClosed(x, S) IN
           SoundBut(z, {}) /\ LiveSet(z) = LiveSet(x) \ S
  <1> DEFINE R == {s \in S : x.stream[s].st # "free"}
             K == {s \in R : Live(x, s)}
             y == FlowDestroy(x, K)
             f == [s \in Streams |-> IF s \in R THEN NoStream ELSE x.stream[s]]
             z == RequestClosed(x, S)
  <1>1. K \subseteq LiveSet(x) /\ x.stream \in [Streams -> Stream] /\ Outlives(x)
    BY DEF LiveSet, SoundBut, World
  <1>2. K = LiveSet(x) \cap S
    BY <1>1 DEF LiveSet, Outlives
  <1>3. z = [y EXCEPT !.stream = f]
    BY DEF RequestClosed
  <1>4. f \in [Streams -> Stream]
    BY <1>1, NoStreamType
  <1>5. \A s \in Streams \ R : f[s] = x.stream[s]
    OBVIOUS
  <1>6. \A s \in LiveSet(x) \ K : s \in Streams \ R
    BY DEF LiveSet
  <1> HIDE DEF K, f, z
  <1>7. /\ SoundBut(y, {} \ K) /\ LiveSet(y) = LiveSet(x) \ K /\ y.stream = x.stream
    BY <1>1, FlowDestroySound
  <1>8. SoundBut(y, {})
    <2>1. {} \ K = {}
      OBVIOUS
    <2> QED
      BY <1>7, <2>1
  <1> HIDE DEF y, R
  <1>9. \A s \in LiveSet(y) : f[s].conn = y.stream[s].conn /\ f[s].st # "free"
    BY <1>1, <1>5, <1>6, <1>7 DEF Outlives
  <1>10. SoundBut(z, {}) /\ LiveSet(z) = LiveSet(y)
    BY <1>3, <1>4, <1>8, <1>9, StreamsChanged
  <1> QED
    BY <1>2, <1>7, <1>10 DEF z

(* xqc_h3_request_close *)
LEMMA CloseRequestSound ==
    ASSUME NEW x, SoundBut(x, {}), NEW S, S \subseteq Streams, NEW sync
    PROVE  SoundBut(CloseRequest(x, S, sync), {})
  <1> DEFINE f == [s \in Streams |-> IF s \in S \ sync THEN [x.stream[s] EXCEPT !.st = "closing"]
                                                       ELSE x.stream[s]]
             y == [x EXCEPT !.stream = f]
  <1>1. x.stream \in [Streams -> Stream] /\ Outlives(x) /\ LiveSet(x) \subseteq Streams
    BY DEF SoundBut, World, LiveSet
  <1>2. \A s \in Streams : /\ [x.stream[s] EXCEPT !.st = "closing"] \in Stream
                           /\ [x.stream[s] EXCEPT !.st = "closing"].st = "closing"
                           /\ [x.stream[s] EXCEPT !.st = "closing"].conn = x.stream[s].conn
    BY <1>1 DEF Stream
  <1>3. f \in [Streams -> Stream]
    BY <1>1, <1>2
  <1>4. \A s \in LiveSet(x) : f[s].conn = x.stream[s].conn /\ f[s].st # "free"
    BY <1>1, <1>2 DEF Outlives
  <1>5. CloseRequest(x, S, sync) = RequestClosed(y, S \cap sync)
    BY DEF CloseRequest
  <1> HIDE DEF f
  <1>6. SoundBut(y, {})
    BY <1>3, <1>4, StreamsChanged
  <1> HIDE DEF y
  <1> QED
    BY <1>5, <1>6, RequestClosedSound

-----------------------------------------------------------------------------
(* The registry *)

(* A flow that is not in the registry finds room there: the registry holds *)
(* only flows the budget admitted.                                         *)
LEMMA RoomLeft ==
    ASSUME NEW x, NEW N, SoundBut(x, N), NEW s \in LiveSet(x), x.reg[x.flow[s].fd] = 0
    PROVE  ~ (Cardinality({f \in Fds : x.reg[f] # 0}) >= Budget)
  <1> DEFINE U == {f \in Fds : x.reg[f] # 0}
             T == LiveSet(x) \ {s}
             h == [f \in U |-> x.reg[f]]
  <1>0. x \in World /\ FdIffLive(x) /\ Counted(x) /\ Fresh(x) /\ LiveSet(x) \subseteq Streams
    BY DEF SoundBut, LiveSet
  <1>1. \A f \in U : x.reg[f] \in LiveSet(x) /\ x.flow[x.reg[f]].fd = f
    BY <1>0, RegistryLive
  <1>2. \A f \in U : x.reg[f] # s
    BY <1>1
  <1>3. \A f \in U : x.reg[f] \in T
    BY <1>1, <1>2
  <1>4. h \in [U -> T]
    BY <1>3
  <1>5. \A f, g \in U : h[f] = h[g] => f = g
    BY <1>1
  <1> HIDE DEF U
  <1>6. h \in Injection(U, T)
    BY <1>4, <1>5 DEF Injection, IsInjective
  <1>7. IsFiniteSet(T) /\ IsFiniteSet(LiveSet(x)) /\ Cardinality(LiveSet(x)) \in Nat
    BY <1>0, LiveFinite
  <1>8. Cardinality(T) = Cardinality(LiveSet(x)) - 1
    BY <1>7, FS_RemoveElement
  <1> HIDE DEF h, T
  <1>9. IsFiniteSet(U) /\ Cardinality(U) <= Cardinality(T)
    BY <1>6, <1>7, FS_Injection
  <1>10. Cardinality(U) \in Nat
    BY <1>9, FS_CardinalityType
  <1>11. Cardinality(LiveSet(x)) <= Budget /\ Budget \in Nat
    BY <1>0, Bounds DEF Counted
  <1>12. ~ (Cardinality(U) >= Budget)
    BY <1>7, <1>8, <1>9, <1>10, <1>11
  <1> QED
    BY <1>12 DEF U

(* What a registration that finds room does to the record: z is x after it. *)
Slot(x, s, z) ==
    /\ z = [x EXCEPT !.reg = z.reg, !.fails = z.fails]
    /\ z.fails \in 0..MaxFail /\ (z.fails = 0 => x.fails = 0)
    /\ \/ z.reg = [x.reg EXCEPT ![x.flow[s].fd] = 0] /\ z.fails # 0
       \/ z.reg = [x.reg EXCEPT ![x.flow[s].fd] = s]

LEMMA RegChanged ==
    ASSUME NEW x, NEW N, SoundBut(x, N), NEW s, s \in LiveSet(x), N \subseteq {s},
           NEW z, Slot(x, s, z)
    PROVE  SoundBut(z, {}) /\ LiveSet(z) = LiveSet(x) /\ z.stream = x.stream /\ z.flow = x.flow
  <1> DEFINE d == x.flow[s].fd
             n == z.fails
  <1> USE DEF Slot
  <1>a. PICK r \in {0, s} : z.reg = [x.reg EXCEPT ![d] = r] /\ (r = 0 => n # 0)
    <2>1. CASE z.reg = [x.reg EXCEPT ![d] = 0] /\ n # 0
      BY <2>1
    <2>2. CASE z.reg = [x.reg EXCEPT ![d] = s]
      <3>1. s # 0
        BY Bounds DEF LiveSet
      <3> QED
        BY <2>2, <3>1
    <2> QED
      BY <2>1, <2>2
  <1>0. /\ x \in World /\ FdIffLive(x) /\ Counted(x) /\ Owned(x) /\ Fresh(x)
        /\ Polled(x, N) /\ Outlives(x) /\ s \in Streams /\ d \in Fds
    BY LiveFd DEF SoundBut
  <1>1. /\ z.stream = x.stream /\ z.flow = x.flow /\ z.nconn = x.nconn /\ z.nglobal = x.nglobal
        /\ z.fds = x.fds /\ z.reg = [x.reg EXCEPT ![d] = r] /\ z.fails = n
    BY <1>0, <1>a DEF World
  <1>2. z.reg \in [Fds -> Streams \cup {0}] /\ n \in 0..MaxFail
    BY <1>0, <1>1, Bounds DEF World
  <1>3. z \in World
    BY <1>0, <1>2 DEF World
  <1>4. LiveSet(z) = LiveSet(x)
    BY <1>1 DEF LiveSet, Live
  <1>5. \A c \in Conns : OfConn(z, LiveSet(z), c) = OfConn(x, LiveSet(x), c)
    BY <1>1, <1>4 DEF OfConn
  <1>6. Counted(z)
    BY <1>0, <1>1, <1>4, <1>5 DEF Counted
  <1>7. FdIffLive(z)
    BY <1>0, <1>1 DEF FdIffLive
  <1>8. Owned(z)
    BY <1>0, <1>1, <1>4 DEF Owned, Descriptors
  <1>9. \A f \in Fds : z.reg[f] = IF f = d THEN r ELSE x.reg[f]
    BY <1>0, <1>1 DEF World
  <1>10. Fresh(z)
    BY <1>0, <1>1, <1>9 DEF Fresh
  <1>11. Polled(z, {})
    <2> SUFFICES ASSUME n = 0, NEW t \in LiveSet(x) PROVE z.reg[x.flow[t].fd] = t
      BY <1>1, <1>4 DEF Polled
    <2>1. r = s /\ x.fails = 0 /\ x.flow[t].fd \in Fds
      BY <1>0, <1>a, LiveFd
    <2>2. CASE t = s
      BY <1>9, <2>1, <2>2
    <2>3. CASE t # s
      BY <1>0, <1>9, <2>1, <2>3 DEF Owned, Polled
    <2> QED
      BY <2>2, <2>3
  <1>12. Outlives(z)
    BY <1>0, <1>1, <1>4 DEF Outlives
  <1> QED
    BY <1>1, <1>3, <1>4, <1>6, <1>7, <1>8, <1>10, <1>11, <1>12 DEF SoundBut

(* egress_fd_register *)
LEMMA RegisterSound ==
    ASSUME NEW x, NEW s \in LiveSet(x), NEW N, N \subseteq {s}, SoundBut(x, N),
           NEW fail \in BOOLEAN, fail => x.fails < MaxFail
    PROVE  LET z == Register(x, x.flow[s].fd, s, fail) IN
           SoundBut(z, {}) /\ LiveSet(z) = LiveSet(x) /\ z.stream = x.stream /\ z.flow = x.flow
  <1> DEFINE z == Register(x, x.flow[s].fd, s, fail)
             d == x.flow[s].fd
  <1>1. x \in World /\ x.fails \in 0..MaxFail /\ MaxFail \in Nat
    BY Bounds DEF SoundBut, World
  <1>2. ~ (x.reg[d] = 0 /\ Cardinality({f \in Fds : x.reg[f] # 0}) >= Budget)
    BY RoomLeft
  <1>3. CASE fail
    <2>0. z = [x EXCEPT !.reg[d] = 0, !.fails = x.fails + 1]
      BY <1>2, <1>3 DEF Register
    <2> HIDE DEF z
    <2>1. /\ z = [x EXCEPT !.reg = z.reg, !.fails = z.fails]
          /\ z.reg = [x.reg EXCEPT ![d] = 0] /\ z.fails = x.fails + 1
      BY <1>1, <2>0 DEF World
    <2>2. z.fails \in 0..MaxFail /\ z.fails # 0 /\ (z.fails = 0 => x.fails = 0)
      BY <1>1, <1>3, <2>1
    <2>3. SoundBut(z, {}) /\ LiveSet(z) = LiveSet(x) /\ z.stream = x.stream /\ z.flow = x.flow
      <3>1. Slot(x, s, z)
        BY <2>1, <2>2 DEF Slot
      <3> QED
        BY <3>1, RegChanged
    <2> QED
      BY <2>3 DEF z
  <1>4. CASE ~fail
    <2>1. z = [x EXCEPT !.reg[d] = s]
      BY <1>2, <1>4 DEF Register
    <2> HIDE DEF z
    <2>2. /\ z = [x EXCEPT !.reg = z.reg, !.fails = z.fails]
          /\ z.reg = [x.reg EXCEPT ![d] = s] /\ z.fails = x.fails
      BY <1>1, <2>1 DEF World
    <2>3. z.fails \in 0..MaxFail /\ (z.fails = 0 => x.fails = 0)
      BY <1>1, <2>2
    <2>4. SoundBut(z, {}) /\ LiveSet(z) = LiveSet(x) /\ z.stream = x.stream /\ z.flow = x.flow
      <3>1. Slot(x, s, z)
        BY <2>2, <2>3 DEF Slot
      <3> QED
        BY <3>1, RegChanged
    <2> QED
      BY <2>4 DEF z
  <1> QED
    BY <1>3, <1>4

-----------------------------------------------------------------------------
(* Requests *)

(* One flow changes. *)
LEMMA FlowTouched ==
    ASSUME NEW x, NEW N, SoundBut(x, N), NEW s \in LiveSet(x),
           NEW h \in Flow, h.fd = x.flow[s].fd, h.st # "absent"
    PROVE  SameFlows(x, [x.flow EXCEPT ![s] = h])
  <1>1. x.flow \in [Streams -> Flow] /\ s \in Streams /\ x.flow[s].st # "absent"
    BY DEF SoundBut, World, LiveSet, Live
  <1> QED
    BY <1>1 DEF SameFlows

(* svr_tcp_egress_on_connected *)
LEMMA OnConnectedSound ==
    ASSUME NEW x, NEW s \in LiveSet(x), NEW N, N \subseteq {s}, SoundBut(x, N),
           NEW fail \in BOOLEAN, fail => x.fails < MaxFail, NEW drained, NEW sync
    PROVE  SoundBut(OnConnected(x, s, fail, drained, sync), {})
  <1> DEFINE y == [x EXCEPT !.flow[s].st = "active", !.flow[s].age = 0]
             h == [x.flow[s] EXCEPT !.st = "active", !.age = 0]
             g == [x.flow EXCEPT ![s] = h]
             r == Register(y, y.flow[s].fd, s, fail)
             z == Respond(r, {s}, "200")
  <1>1. x \in World /\ x.flow[s] \in Flow /\ s \in Streams
    BY DEF SoundBut, World, LiveSet
  <1>2. y = [x EXCEPT !.flow = g]
    BY <1>1 DEF World, Flow
  <1>3. h \in Flow /\ h.fd = x.flow[s].fd /\ h.st # "absent"
    <2>1. 0 \in 0..Horizon
      BY Bounds
    <2> QED
      BY <1>1, <2>1 DEF Flow
  <1>4. OnConnected(x, s, fail, drained, sync) = IF drained THEN z ELSE CloseRequest(z, {s}, sync)
    BY DEF OnConnected
  <1> HIDE DEF y, h
  <1>a. SameFlows(x, g)
    BY <1>3, FlowTouched
  <1> HIDE DEF g
  <1>5. SoundBut(y, N) /\ LiveSet(y) = LiveSet(x) /\ y.fails = x.fails
    BY <1>2, <1>a, FlowsChanged
  <1>6. s \in LiveSet(y) /\ (fail => y.fails < MaxFail)
    BY <1>5
  <1>7. SoundBut(r, {}) /\ LiveSet(r) = LiveSet(y)
    BY <1>5, <1>6, RegisterSound
  <1> HIDE DEF r
  <1>8. SoundBut(z, {})
    BY <1>7, RespondSound
  <1> HIDE DEF z
  <1>9. SoundBut(CloseRequest(z, {s}, sync), {})
    BY <1>1, <1>8, CloseRequestSound
  <1> QED
    BY <1>4, <1>8, <1>9

(* A set of naturals that is not empty has a least element. *)
LEMMA LeastExists ==
    ASSUME NEW S, S \subseteq Nat, S # {}
    PROVE  \E i \in S : \A j \in S : i <= j
  <1> DEFINE R == OpToRel(<, Nat)
  <1>1. PICK i \in S : \A j \in S : ~ (<<j, i>> \in R)
    <2>1. IsWellFoundedOn(R, Nat)
      BY NatLessThanWellFounded
    <2> HIDE DEF R
    <2> QED
      BY <2>1, WFMin
  <1>2. \A j \in S : <<j, i>> \in R <=> j < i
    BY DEF OpToRel
  <1> HIDE DEF R
  <1>3. \A j \in S : ~ (j < i)
    BY <1>1, <1>2
  <1>4. \A j \in S : i <= j
    BY <1>3
  <1> QED
    BY <1>4

(* The descriptor socket() returns was not open. *)
LEMMA LeastFd ==
    ASSUME NEW F \in SUBSET Fds, F # Fds
    PROVE  (CHOOSE f \in Fds \ F : \A g \in Fds \ F : f <= g) \in Fds \ F
  <1>1. Fds \ F \subseteq Nat /\ Fds \ F # {}
    BY Bounds
  <1>2. \E f \in Fds \ F : \A g \in Fds \ F : f <= g
    BY <1>1, LeastExists
  <1> QED
    BY <1>2

(* A flow is made, with its descriptor and its place in both counters. *)
Made(x, s, fd) ==
    [x EXCEPT !.fds = x.fds \cup {fd}, !.flow = [x.flow EXCEPT ![s] = [st |-> "connecting", fd |-> fd, age |-> 0]],
              !.nconn = [x.nconn EXCEPT ![x.stream[s].conn] = x.nconn[x.stream[s].conn] + 1],
              !.nglobal = x.nglobal + 1]

LEMMA FlowMade ==
    ASSUME NEW x, SoundBut(x, {}), NEW s \in Streams \ LiveSet(x), x.stream[s].st # "free",
           NEW fd \in Fds \ x.fds, Admit(x, x.stream[s].conn)
    PROVE  LET y == Made(x, s, fd) IN
           /\ SoundBut(y, {s}) /\ LiveSet(y) = LiveSet(x) \cup {s} /\ y.stream = x.stream
           /\ y.fails = x.fails /\ y.flow[s].fd = fd
  <1> DEFINE y == Made(x, s, fd)
             c == x.stream[s].conn
             L == LiveSet(x)
             h == [st |-> "connecting", fd |-> fd, age |-> 0]
  <1>0. /\ x \in World /\ FdIffLive(x) /\ Counted(x) /\ Owned(x) /\ Fresh(x)
        /\ Polled(x, {}) /\ Outlives(x) /\ L \subseteq Streams /\ s \notin L
    BY DEF SoundBut, LiveSet
  <1>1. /\ y.stream = x.stream /\ y.flow = [x.flow EXCEPT ![s] = h]
        /\ y.nconn = [x.nconn EXCEPT ![c] = x.nconn[c] + 1] /\ y.nglobal = x.nglobal + 1
        /\ y.fds = x.fds \cup {fd} /\ y.reg = x.reg /\ y.fails = x.fails
        /\ y = [stream |-> y.stream, flow |-> y.flow, nconn |-> y.nconn, nglobal |-> y.nglobal,
                fds |-> y.fds, reg |-> y.reg, fails |-> y.fails]
    <2> DEFINE nf == [x.flow EXCEPT ![s] = h]
               nc == [x.nconn EXCEPT ![c] = x.nconn[c] + 1]
               ng == x.nglobal + 1
               no == x.fds \cup {fd}
    <2>1. y = [x EXCEPT !.fds = no, !.flow = nf, !.nconn = nc, !.nglobal = ng]
      BY DEF Made
    <2>2. x = [stream |-> x.stream, flow |-> x.flow, nconn |-> x.nconn, nglobal |-> x.nglobal,
               fds |-> x.fds, reg |-> x.reg, fails |-> x.fails]
      BY <1>0 DEF World
    <2> HIDE DEF nf, nc, ng, no, y
    <2>3. y = [stream |-> x.stream, flow |-> nf, nconn |-> nc, nglobal |-> ng,
               fds |-> no, reg |-> x.reg, fails |-> x.fails]
      BY <2>1, <2>2
    <2> QED
      BY <2>3 DEF nf, nc, ng, no
  <1> HIDE DEF y
  <1>2. c \in Conns /\ h \in Flow /\ h.st = "connecting" /\ h.fd = fd /\ fd \in Fds /\ fd # 0
    BY <1>0, Bounds DEF World, Stream, Flow
  <1> HIDE DEF h
  <1>3. y.flow[s] = h /\ \A t \in Streams : t # s => y.flow[t] = x.flow[t]
    BY <1>0, <1>1 DEF World
  <1>4. LiveSet(y) = L \cup {s}
    BY <1>0, <1>2, <1>3 DEF LiveSet, Live
  <1>5. y \in World
    <2>1. y.flow \in [Streams -> Flow]
      BY <1>0, <1>1, <1>2 DEF World
    <2>2. y.nconn \in [Conns -> Nat] /\ y.nglobal \in Nat
      BY <1>0, <1>1, <1>2 DEF World
    <2>3. y.fds \in SUBSET Fds /\ y.reg \in [Fds -> Streams \cup {0}] /\ y.stream \in [Streams -> Stream]
          /\ y.fails \in 0..MaxFail
      BY <1>0, <1>1, <1>2 DEF World
    <2> QED
      BY <1>1, <2>1, <2>2, <2>3 DEF World
  <1>6. FdIffLive(y)
    BY <1>0, <1>2, <1>3 DEF FdIffLive
  <1>7. Counted(y)
    <2>1. IsFiniteSet(L) /\ Cardinality(L) \in Nat
      BY <1>0, LiveFinite
    <2>2. Cardinality(L \cup {s}) = Cardinality(L) + 1
      BY <1>0, <2>1, FS_AddElement
    <2>3. y.nglobal = Cardinality(LiveSet(y)) /\ y.nglobal <= Budget
      <3>1. x.nglobal = Cardinality(L) /\ x.nglobal < Budget /\ Budget \in Nat
        BY <1>0, Bounds DEF Counted, Admit
      <3> HIDE DEF L
      <3> QED
        BY <1>1, <1>4, <2>1, <2>2, <3>1
    <2>4. ASSUME NEW e \in Conns
          PROVE  y.nconn[e] = Cardinality(OfConn(y, LiveSet(y), e)) /\ y.nconn[e] <= MaxFlows
      <3> DEFINE A == OfConn(x, L, e)
      <3>1. x.nconn[e] = Cardinality(A) /\ x.nconn[e] <= MaxFlows /\ x.nconn[e] \in Nat
            /\ MaxFlows \in Nat
        BY <1>0, Bounds DEF Counted, World
      <3>2. A \subseteq Streams /\ s \notin A
        BY <1>0 DEF OfConn
      <3>3. CASE e = c
        <4>1. OfConn(y, LiveSet(y), e) = A \cup {s}
          BY <1>1, <1>4, <3>3 DEF OfConn
        <4>2. x.nconn[e] < MaxFlows /\ y.nconn[e] = x.nconn[e] + 1
          BY <1>0, <1>1, <3>3 DEF Admit, World
        <4> HIDE DEF A
        <4>3. IsFiniteSet(A)
          BY <3>2, LiveFinite
        <4>4. Cardinality(A \cup {s}) = Cardinality(A) + 1
          BY <3>2, <4>3, FS_AddElement
        <4> QED
          BY <3>1, <4>1, <4>2, <4>4
      <3>4. CASE e # c
        <4>1. OfConn(y, LiveSet(y), e) = A
          BY <1>1, <1>4, <3>4 DEF OfConn
        <4>2. y.nconn[e] = x.nconn[e]
          BY <1>0, <1>1, <3>4 DEF World
        <4> QED
          BY <3>1, <4>1, <4>2
      <3> QED
        BY <3>3, <3>4
    <2> QED
      BY <2>3, <2>4 DEF Counted
  <1>8. \A t \in L : t \in Streams /\ t # s /\ y.flow[t] = x.flow[t] /\ x.flow[t].fd \in x.fds
    BY <1>0, <1>3 DEF Owned, Descriptors
  <1>9. Owned(y)
    <2>1. x.fds = {x.flow[t].fd : t \in L}
      BY <1>0 DEF Owned, Descriptors
    <2>2. \A t \in L \cup {s} : y.flow[t].fd \in y.fds
      BY <1>1, <1>2, <1>3, <1>8
    <2>3. ASSUME NEW d \in y.fds PROVE \E t \in L \cup {s} : d = y.flow[t].fd
      <3>1. CASE d = fd
        BY <1>2, <1>3, <3>1
      <3>2. CASE d \in x.fds
        BY <1>8, <2>1, <3>2
      <3> QED
        BY <1>1, <3>1, <3>2
    <2>4. y.fds = {y.flow[t].fd : t \in L \cup {s}}
      BY <2>2, <2>3
    <2>5. \A t \in L : y.flow[t].fd # y.flow[s].fd
      BY <1>2, <1>3, <1>8
    <2>6. \A t, u \in L : y.flow[t].fd = y.flow[u].fd => t = u
      BY <1>0, <1>8 DEF Owned
    <2>7. \A t, u \in L \cup {s} : y.flow[t].fd = y.flow[u].fd => t = u
      BY <2>5, <2>6
    <2> QED
      BY <1>4, <2>4, <2>7 DEF Owned, Descriptors
  <1>10. Fresh(y)
    <2> SUFFICES ASSUME NEW d \in Fds, y.reg[d] # 0 PROVE y.flow[y.reg[d]].fd = d
      BY DEF Fresh
    <2>1. x.reg[d] \in L /\ x.flow[x.reg[d]].fd = d
      BY <1>0, <1>1, RegistryLive
    <2> QED
      BY <1>1, <1>8, <2>1
  <1>11. Polled(y, {s})
    <2> SUFFICES ASSUME y.fails = 0, NEW t \in LiveSet(y) \ {s} PROVE y.reg[y.flow[t].fd] = t
      BY DEF Polled
    <2>1. t \in L
      BY <1>4
    <2> QED
      BY <1>0, <1>1, <1>8, <2>1 DEF Polled
  <1>12. Outlives(y)
    BY <1>0, <1>1, <1>4 DEF Outlives
  <1>13. SoundBut(y, {s})
    BY <1>5, <1>6, <1>7, <1>9, <1>10, <1>11, <1>12 DEF SoundBut
  <1> QED
    BY <1>1, <1>2, <1>3, <1>4, <1>13 DEF y

(* svr_tcp_egress_start_connect *)
LEMMA StartConnectSound ==
    ASSUME NEW x, SoundBut(x, {}), NEW s \in Streams \ LiveSet(x), x.stream[s].st # "free",
           NEW how \in {"none", "done", "error", "progress"},
           NEW fail \in BOOLEAN, fail => x.fails < MaxFail, NEW drained, NEW sync
    PROVE  SoundBut(StartConnect(x, s, how, fail, drained, sync), {})
  <1> DEFINE c == x.stream[s].conn
             fd == CHOOSE f \in Fds \ x.fds : \A g \in Fds \ x.fds : f <= g
             y == Made(x, s, fd)
             z == StartConnect(x, s, how, fail, drained, sync)
             over == how = "none" \/ ~Admit(x, c) \/ x.fds = Fds
  <1>1. x \in World /\ x.fds \in SUBSET Fds
    BY DEF SoundBut, World
  <1>2. y = [x EXCEPT !.fds = @ \cup {fd}, !.flow[s] = [st |-> "connecting", fd |-> fd, age |-> 0],
                      !.nconn[c] = @ + 1, !.nglobal = @ + 1]
    BY <1>1 DEF Made, World
  <1>3. /\ over => z = Respond(x, {s}, "refused")
        /\ ~over /\ how = "done" => z = OnConnected(y, s, fail, drained, sync)
        /\ ~over /\ how = "error" => z = FailConnect(y, {s})
        /\ ~over /\ how = "progress" => z = Register(y, fd, s, fail)
    <2> HIDE DEF y
    <2> QED
      BY <1>2 DEF StartConnect
  <1> HIDE DEF z
  <1>4. CASE over
    BY <1>3, <1>4, RespondSound DEF z
  <1>5. CASE ~over
    <2>1. fd \in Fds \ x.fds
      BY <1>1, <1>5, LeastFd
    <2> HIDE DEF fd
    <2>2. /\ SoundBut(y, {s}) /\ LiveSet(y) = LiveSet(x) \cup {s} /\ y.fails = x.fails
          /\ y.flow[s].fd = fd
      BY <1>5, <2>1, FlowMade
    <2> HIDE DEF y, over
    <2>3. s \in LiveSet(y) /\ {s} \subseteq LiveSet(y) /\ (fail => y.fails < MaxFail)
          /\ {s} \subseteq {s} /\ {s} \ {s} = {}
      BY <2>2
    <2>4. SoundBut(OnConnected(y, s, fail, drained, sync), {})
      BY <2>2, <2>3, OnConnectedSound
    <2>5. SoundBut(FailConnect(y, {s}), {})
      <3>1. SoundBut(FailConnect(y, {s}), {s} \ {s})
        BY <2>2, <2>3, FailConnectSound
      <3> QED
        BY <2>3, <3>1
    <2>6. SoundBut(Register(y, fd, s, fail), {})
      <3>1. SoundBut(Register(y, y.flow[s].fd, s, fail), {})
        BY <2>2, <2>3, RegisterSound
      <3> QED
        BY <2>2, <3>1
    <2>7. how \in {"done", "error", "progress"}
      BY <1>5 DEF over
    <2>8. SoundBut(z, {})
      BY <1>3, <1>5, <2>4, <2>5, <2>6, <2>7
    <2> QED
      BY <2>8 DEF z
  <1> QED
    BY <1>4, <1>5

(* svr_tcp_egress_tick, with which every handler ends. *)
LEMMA HandlerSound ==
    ASSUME NEW x, SoundBut(x, {}), Handler(x)
    PROVE  SoundBut(w', {}) /\ due' = FALSE /\ up' = up
  <1>1. PICK sync \in SUBSET IdleFlows(x) : w' = Tick(x, sync) /\ due' = FALSE /\ up' = up
    BY DEF Handler
  <1> DEFINE y == FailConnect(x, Late(x))
  <1>2. Late(x) \subseteq LiveSet(x) /\ IdleFlows(x) \subseteq Streams
    BY DEF Late, IdleFlows, LiveSet, Live
  <1>3. SoundBut(y, {})
    <2>1. SoundBut(y, {} \ Late(x)) /\ {} \ Late(x) = {}
      BY <1>2, FailConnectSound
    <2> QED
      BY <2>1
  <1>4. Tick(x, sync) = CloseRequest(y, IdleFlows(x), sync)
    BY DEF Tick
  <1> HIDE DEF y
  <1>5. SoundBut(Tick(x, sync), {})
    BY <1>2, <1>3, <1>4, CloseRequestSound
  <1> QED
    BY <1>1, <1>5

-----------------------------------------------------------------------------
(* The handlers *)

LEMMA InitSound == Init => EgressInv
  <1> SUFFICES ASSUME Init PROVE EgressInv
    OBVIOUS
  <1>1. /\ w.stream = [s \in Streams |-> NoStream] /\ w.flow = [s \in Streams |-> NoFlow]
        /\ w.nconn = [c \in Conns |-> 0] /\ w.nglobal = 0 /\ w.fds = {}
        /\ w.reg = [f \in Fds |-> 0] /\ w.fails = 0 /\ due = FALSE /\ up = TRUE
    BY DEF Init, Start
  <1>2. w \in World
    <2>1. w = [stream |-> w.stream, flow |-> w.flow, nconn |-> w.nconn, nglobal |-> w.nglobal,
               fds |-> w.fds, reg |-> w.reg, fails |-> w.fails]
      BY DEF Init, Start
    <2>2. /\ w.stream \in [Streams -> Stream] /\ w.flow \in [Streams -> Flow]
          /\ w.nconn \in [Conns -> Nat] /\ w.nglobal \in Nat /\ w.fds \in SUBSET Fds
          /\ w.reg \in [Fds -> Streams \cup {0}] /\ w.fails \in 0..MaxFail
      BY <1>1, NoStreamType, NoFlowType, Bounds
    <2> QED
      BY <2>1, <2>2 DEF World
  <1>3. LiveSet(w) = {}
    BY <1>1, NoFlowType DEF LiveSet, Live
  <1>4. \A c \in Conns : OfConn(w, LiveSet(w), c) = {}
    BY <1>3 DEF OfConn
  <1>5. Counted(w)
    BY <1>1, <1>3, <1>4, FS_EmptySet, Bounds DEF Counted
  <1>6. FdIffLive(w) /\ Fresh(w) /\ Polled(w, {}) /\ Outlives(w)
    BY <1>1, <1>3, NoFlowType DEF FdIffLive, Fresh, Polled, Outlives
  <1>7. Owned(w)
    BY <1>1, <1>3 DEF Owned, Descriptors
  <1> QED
    BY <1>1, <1>2, <1>5, <1>6, <1>7 DEF EgressInv, SoundBut

(* One stream changes that has no flow, or keeps its connection. *)
LEMMA StreamTouched ==
    ASSUME NEW x, NEW N, SoundBut(x, N), NEW s \in Streams, NEW r \in Stream,
           s \in LiveSet(x) => r.conn = x.stream[s].conn /\ r.st # "free",
           NEW z, z = [x EXCEPT !.stream[s] = r]
    PROVE  SoundBut(z, N) /\ LiveSet(z) = LiveSet(x) /\ z.stream[s] = r /\ z.fails = x.fails
  <1> DEFINE f == [x.stream EXCEPT ![s] = r]
  <1>1. x \in World /\ x.stream \in [Streams -> Stream] /\ Outlives(x) /\ LiveSet(x) \subseteq Streams
    BY DEF SoundBut, World, LiveSet
  <1>2. f \in [Streams -> Stream] /\ f[s] = r
    BY <1>1
  <1>3. \A t \in LiveSet(x) : f[t].conn = x.stream[t].conn /\ f[t].st # "free"
    BY <1>1 DEF Outlives
  <1>4. z = [x EXCEPT !.stream = f]
    BY <1>1 DEF World
  <1> HIDE DEF f
  <1> DEFINE v == z
  <1>5. SoundBut(v, N) /\ LiveSet(v) = LiveSet(x) /\ v.stream = f /\ v.fails = x.fails
    <2>1. v = [x EXCEPT !.stream = f]
      BY <1>4
    <2> HIDE DEF v
    <2> QED
      BY <1>2, <1>3, <2>1, StreamsChanged
  <1> QED
    BY <1>2, <1>5

(* A handler of a server that runs leaves a sound state. *)
LEMMA HandlerKeeps ==
    ASSUME EgressInv, up, NEW x, SoundBut(x, {}), Handler(x)
    PROVE  EgressInv'
  <1>1. SoundBut(w', {}) /\ due' = FALSE /\ up' = TRUE
    BY HandlerSound DEF EgressInv
  <1> QED
    BY <1>1 DEF EgressInv, SoundBut, World, FdIffLive, Counted, Owned, Fresh, Polled, Outlives,
                LiveSet, Live, OfConn, Descriptors

LEMMA FailsMeans ==
    ASSUME NEW fail \in Fails
    PROVE  fail \in BOOLEAN /\ (fail => w.fails < MaxFail)
  BY DEF Fails

LEMMA RequestKeeps ==
    ASSUME EgressInv, NEW c \in Conns, NEW s \in Streams, Request(c, s)
    PROVE  EgressInv'
  <1> DEFINE r == [st |-> "open", conn |-> c, resp |-> "none"]
             x == [w EXCEPT !.stream[s] = r]
  <1>1. SoundBut(w, {}) /\ up /\ w.stream[s].st = "free"
    BY DEF EgressInv, Request
  <1>2. s \notin LiveSet(w)
    BY <1>1 DEF SoundBut, Outlives
  <1>3. r \in Stream /\ r.st # "free"
    BY DEF Stream
  <1>4. \E allowed \in Admissions :
          IF ~allowed THEN Handler(Respond(x, {s}, "refused"))
          ELSE \E how \in {"none", "done", "error", "progress"}, fail \in Fails,
                  drained \in BOOLEAN, sync \in {{}, {s}} :
                    Handler(StartConnect(x, s, how, fail, drained, sync))
    BY DEF Request
  <1> HIDE DEF r
  <1>5. SoundBut(x, {}) /\ LiveSet(x) = LiveSet(w) /\ x.stream[s] = r /\ x.fails = w.fails
    <2> DEFINE v == x
    <2>1. v = [w EXCEPT !.stream[s] = r]
      OBVIOUS
    <2> HIDE DEF v, x
    <2>2. s \in LiveSet(w) => r.conn = w.stream[s].conn /\ r.st # "free"
      BY <1>2
    <2>3. SoundBut(v, {}) /\ LiveSet(v) = LiveSet(w) /\ v.stream[s] = r /\ v.fails = w.fails
      <3>1. SoundBut(v, {})
        BY <1>1, <1>3, <2>1, <2>2, StreamTouched
      <3>2. LiveSet(v) = LiveSet(w)
        BY <1>1, <1>3, <2>1, <2>2, StreamTouched
      <3>3. v.stream[s] = r /\ v.fails = w.fails
        BY <1>1, <2>1 DEF SoundBut, World
      <3> QED
        BY <3>1, <3>2, <3>3
    <2> QED
      BY <2>3 DEF v
  <1> HIDE DEF x
  <1>6. CASE Handler(Respond(x, {s}, "refused"))
    <2>1. SoundBut(Respond(x, {s}, "refused"), {})
      BY <1>5, RespondSound
    <2> QED
      BY <1>1, <1>6, <2>1, HandlerKeeps
  <1>7. ASSUME NEW how \in {"none", "done", "error", "progress"}, NEW fail \in Fails,
               NEW drained, NEW sync, Handler(StartConnect(x, s, how, fail, drained, sync))
        PROVE  EgressInv'
    <2>1. fail \in BOOLEAN /\ (fail => x.fails < MaxFail)
      BY <1>5, FailsMeans
    <2>2. s \in Streams \ LiveSet(x) /\ x.stream[s].st # "free"
      BY <1>2, <1>3, <1>5
    <2>3. SoundBut(StartConnect(x, s, how, fail, drained, sync), {})
      BY <1>5, <2>1, <2>2, StartConnectSound
    <2> QED
      BY <1>1, <1>7, <2>3, HandlerKeeps
  <1> QED
    BY <1>4, <1>6, <1>7

LEMMA ConnectEventKeeps ==
    ASSUME EgressInv, NEW fd \in Fds, ConnectEvent(fd)
    PROVE  EgressInv'
  <1> DEFINE s == w.reg[fd]
  <1>1. SoundBut(w, {}) /\ up /\ s # 0
    BY DEF EgressInv, ConnectEvent
  <1>2. s \in LiveSet(w)
    BY <1>1, RegistryLive DEF SoundBut
  <1>3. \/ Handler(FailConnect(w, {s}))
        \/ \E fail \in Fails, drained \in BOOLEAN, sync \in {{}, {s}} :
             Handler(OnConnected(w, s, fail, drained, sync))
    BY DEF ConnectEvent
  <1> HIDE DEF s
  <1>4. CASE Handler(FailConnect(w, {s}))
    <2>1. SoundBut(FailConnect(w, {s}), {} \ {s}) /\ {} \ {s} = {}
      BY <1>1, <1>2, FailConnectSound
    <2>2. SoundBut(FailConnect(w, {s}), {})
      BY <2>1
    <2> QED
      BY <1>1, <1>4, <2>2, HandlerKeeps
  <1>5. ASSUME NEW fail \in Fails, NEW drained, NEW sync,
               Handler(OnConnected(w, s, fail, drained, sync))
        PROVE  EgressInv'
    <2>1. fail \in BOOLEAN /\ (fail => w.fails < MaxFail) /\ {} \subseteq {s}
      BY FailsMeans
    <2>2. SoundBut(OnConnected(w, s, fail, drained, sync), {})
      BY <1>1, <1>2, <2>1, OnConnectedSound
    <2> QED
      BY <1>1, <1>5, <2>2, HandlerKeeps
  <1> QED
    BY <1>3, <1>4, <1>5

LEMMA RelayKeeps ==
    ASSUME EgressInv, NEW s \in Streams, Relay(s)
    PROVE  EgressInv'
  <1> DEFINE h == [w.flow[s] EXCEPT !.age = 0]
             g == [w.flow EXCEPT ![s] = h]
             y == [w EXCEPT !.flow[s].age = 0]
  <1>1. SoundBut(w, {}) /\ up /\ w.flow[s].st = "active" /\ w \in World /\ w.flow[s] \in Flow
    BY DEF EgressInv, Relay, SoundBut, World
  <1>2. s \in LiveSet(w)
    BY <1>1 DEF LiveSet, Live
  <1>3. \/ \E fail \in Fails : Handler(Register(y, w.flow[s].fd, s, fail))
        \/ \E sync \in {{}, {s}} : Handler(CloseRequest(w, {s}, sync))
    BY DEF Relay
  <1>4. ASSUME NEW sync, Handler(CloseRequest(w, {s}, sync)) PROVE EgressInv'
    <2>1. SoundBut(CloseRequest(w, {s}, sync), {})
      BY <1>1, CloseRequestSound
    <2> QED
      BY <1>1, <1>4, <2>1, HandlerKeeps
  <1>5. y = [w EXCEPT !.flow = g]
    BY <1>1 DEF World, Flow
  <1>6. h \in Flow /\ h.fd = w.flow[s].fd /\ h.st # "absent"
    <2>1. 0 \in 0..Horizon
      BY Bounds
    <2> QED
      BY <1>1, <2>1 DEF Flow
  <1>7. y.flow[s].fd = w.flow[s].fd
    BY <1>1 DEF World, Flow
  <1> HIDE DEF h, y
  <1>8. SameFlows(w, g)
    BY <1>1, <1>2, <1>6, FlowTouched
  <1> HIDE DEF g
  <1>9. SoundBut(y, {}) /\ LiveSet(y) = LiveSet(w) /\ y.fails = w.fails
    BY <1>1, <1>5, <1>8, FlowsChanged
  <1>10. ASSUME NEW fail \in Fails, Handler(Register(y, w.flow[s].fd, s, fail)) PROVE EgressInv'
    <2>1. /\ fail \in BOOLEAN /\ (fail => y.fails < MaxFail)
          /\ s \in LiveSet(y) /\ {} \subseteq {s}
      BY <1>2, <1>9, FailsMeans
    <2>2. SoundBut(Register(y, y.flow[s].fd, s, fail), {})
      BY <1>9, <2>1, RegisterSound
    <2>3. SoundBut(Register(y, w.flow[s].fd, s, fail), {})
      BY <1>7, <2>2
    <2> QED
      BY <1>1, <1>10, <2>3, HandlerKeeps
  <1> QED
    BY <1>3, <1>4, <1>10

LEMMA ClosingNotifyKeeps ==
    ASSUME EgressInv, NEW s \in Streams, ClosingNotify(s)
    PROVE  EgressInv'
  <1> DEFINE S == {t \in {s} : Live(w, t)}
             y == FlowDestroy(w, S)
             r == [y.stream[s] EXCEPT !.st = "closing"]
             z == [y EXCEPT !.stream[s].st = "closing"]
  <1>1. SoundBut(w, {}) /\ up /\ Handler(z)
    BY DEF EgressInv, ClosingNotify
  <1>2. S \subseteq LiveSet(w)
    BY DEF LiveSet
  <1> HIDE DEF S
  <1>3. SoundBut(y, {})
    <2>1. SoundBut(y, {} \ S) /\ {} \ S = {}
      BY <1>1, <1>2, FlowDestroySound
    <2> QED
      BY <2>1
  <1> HIDE DEF y
  <1>4. y \in World /\ y.stream[s] \in Stream
    BY <1>3 DEF SoundBut, World
  <1>5. z = [y EXCEPT !.stream[s] = r]
    BY <1>4 DEF World, Stream
  <1>6. r \in Stream /\ r.conn = y.stream[s].conn /\ r.st # "free"
    BY <1>4 DEF Stream
  <1> HIDE DEF z, r
  <1>7. SoundBut(z, {})
    BY <1>3, <1>5, <1>6, StreamTouched
  <1> QED
    BY <1>1, <1>7, HandlerKeeps

LEMMA ClosedKeeps ==
    ASSUME EgressInv, up, NEW S, S \subseteq Streams, Handler(RequestClosed(w, S))
    PROVE  EgressInv'
  <1>1. SoundBut(w, {})
    BY DEF EgressInv
  <1>2. SoundBut(RequestClosed(w, S), {})
    BY <1>1, RequestClosedSound
  <1> QED
    BY <1>2, HandlerKeeps

LEMMA SecondKeeps ==
    ASSUME EgressInv, Second
    PROVE  EgressInv'
  <1> DEFINE g == [s \in Streams |-> IF Live(w, s) /\ w.flow[s].age < Horizon
                                     THEN [w.flow[s] EXCEPT !.age = @ + 1] ELSE w.flow[s]]
  <1>1. SoundBut(w, {}) /\ up /\ w' = [w EXCEPT !.flow = g] /\ due' = TRUE /\ up' = up
    BY DEF EgressInv, Second
  <1>2. \A s \in Streams : w.flow[s] \in Flow
    BY <1>1 DEF SoundBut, World
  <1>3. ASSUME NEW s \in Streams
        PROVE  /\ g[s] \in Flow /\ g[s].fd = w.flow[s].fd
               /\ g[s].st = "absent" <=> w.flow[s].st = "absent"
    <2> DEFINE h == [w.flow[s] EXCEPT !.age = @ + 1]
    <2>1. h.fd = w.flow[s].fd /\ h.st = w.flow[s].st
      BY <1>2 DEF Flow
    <2>2. w.flow[s].age < Horizon => h \in Flow
      <3>1. w.flow[s].age \in 0..Horizon /\ Horizon \in Nat
        BY <1>2, Bounds DEF Flow
      <3>2. w.flow[s].age < Horizon => w.flow[s].age + 1 \in 0..Horizon
        BY <3>1
      <3> QED
        BY <1>2, <3>2 DEF Flow
    <2>3. g[s] = IF Live(w, s) /\ w.flow[s].age < Horizon THEN h ELSE w.flow[s]
      OBVIOUS
    <2> HIDE DEF h, g
    <2> QED
      BY <1>2, <2>1, <2>2, <2>3
  <1>4. SameFlows(w, g)
    <2>1. g \in [Streams -> Flow]
      BY <1>3
    <2> HIDE DEF g
    <2> QED
      BY <1>3, <2>1 DEF SameFlows
  <1> HIDE DEF g
  <1>5. SoundBut(w', {})
    BY <1>1, <1>4, FlowsChanged
  <1> QED
    BY <1>1, <1>5 DEF EgressInv, SoundBut, World, FdIffLive, Counted, Owned, Fresh, Polled, Outlives,
                LiveSet, Live, OfConn, Descriptors

LEMMA DestroyKeeps ==
    ASSUME EgressInv, Destroy
    PROVE  EgressInv'
  <1> DEFINE x == RequestClosed(w, Streams)
             S == {s \in Streams : Live(x, s)}
             z == FlowDestroy(x, S)
  <1>1. SoundBut(w, {}) /\ w' = z /\ up' = FALSE /\ due' = due /\ due \in BOOLEAN
    BY DEF EgressInv, Destroy
  <1>2. SoundBut(x, {}) /\ S = LiveSet(x)
    BY <1>1, RequestClosedSound DEF LiveSet
  <1> HIDE DEF x, S
  <1>3. SoundBut(z, {} \ S) /\ {} \ S = {} /\ LiveSet(z) = LiveSet(x) \ S
    BY <1>2, FlowDestroySound
  <1>4. SoundBut(z, {}) /\ LiveSet(z) = {}
    BY <1>2, <1>3
  <1> HIDE DEF z
  <1>5. z.fds = {}
    BY <1>4 DEF SoundBut, Owned, Descriptors
  <1>6. SoundBut(w', {}) /\ w'.fds = {}
    BY <1>1, <1>4, <1>5
  <1> QED
    BY <1>1, <1>6 DEF EgressInv, SoundBut, World, FdIffLive, Counted, Owned, Fresh, Polled, Outlives,
                LiveSet, Live, OfConn, Descriptors

LEMMA NextKeeps == EgressInv /\ [Next]_vars => EgressInv'
  <1> SUFFICES ASSUME EgressInv, [Next]_vars PROVE EgressInv'
    OBVIOUS
  <1>1. CASE \E c \in Conns : ConnClosed(c)
    <2>1. PICK c \in Conns : ConnClosed(c)
      BY <1>1
    <2> DEFINE mine == {s \in Streams : w.stream[s].st # "free" /\ w.stream[s].conn = c}
    <2>2. up /\ Handler(RequestClosed(w, mine))
      BY <2>1 DEF ConnClosed
    <2>3. mine \subseteq Streams
      OBVIOUS
    <2> HIDE DEF mine
    <2> QED
      BY <2>2, <2>3, ClosedKeeps
  <1>2. CASE \E c \in Conns, s \in Streams : Request(c, s)
    BY <1>2, RequestKeeps
  <1>3. CASE \E fd \in Fds : ConnectEvent(fd)
    BY <1>3, ConnectEventKeeps
  <1>4. CASE \E s \in Streams : Relay(s)
    BY <1>4, RelayKeeps
  <1>5. CASE \E s \in Streams : ClosingNotify(s)
    BY <1>5, ClosingNotifyKeeps
  <1>6. CASE \E s \in Streams : CloseNotify(s)
    <2>1. PICK s \in Streams : CloseNotify(s)
      BY <1>6
    <2>2. up /\ Handler(RequestClosed(w, {s})) /\ {s} \subseteq Streams
      BY <2>1 DEF CloseNotify
    <2> QED
      BY <2>2, ClosedKeeps
  <1>7. CASE Second
    BY <1>7, SecondKeeps
  <1>8. CASE OnTick
    <2>1. up /\ Handler(w) /\ SoundBut(w, {})
      BY <1>8 DEF OnTick, EgressInv
    <2> QED
      BY <2>1, HandlerKeeps
  <1>9. CASE Destroy
    BY <1>9, DestroyKeeps
  <1>10. CASE UNCHANGED vars
    BY <1>10 DEF vars, EgressInv, SoundBut, World, FdIffLive, Counted, Owned, Fresh, Polled,
                 Outlives, LiveSet, Live, OfConn, Descriptors
  <1>11. Next => \/ \E c \in Conns : ConnClosed(c)
                 \/ \E c \in Conns, s \in Streams : Request(c, s)
                 \/ \E fd \in Fds : ConnectEvent(fd)
                 \/ \E s \in Streams : Relay(s)
                 \/ \E s \in Streams : ClosingNotify(s)
                 \/ \E s \in Streams : CloseNotify(s)
                 \/ Second \/ OnTick \/ Destroy
    BY Zenon DEF Next
  <1> QED
    BY <1>1, <1>2, <1>3, <1>4, <1>5, <1>6, <1>7, <1>8, <1>9, <1>10, <1>11

(* Between two handlers the record of the egress is sound, whatever order  *)
(* requests, connect events, resets, sweeps and the shutdown came in.      *)
THEOREM EgressInvariant == Spec => []EgressInv
  <1>1. Init => EgressInv
    BY InitSound
  <1>2. EgressInv /\ [Next]_vars => EgressInv'
    BY NextKeeps
  <1> QED
    BY <1>1, <1>2, PTL DEF Spec

(* The counters are the flows they stand for and stay within both caps,    *)
(* every open descriptor belongs to one flow and none outlives the server, *)
(* an event reaches the flow that owns the descriptor now, the registry    *)
(* never refuses an admitted flow, and streams outlive their flows, on     *)
(* every path through tcp_egress.c: for any caps, budget and timeouts.     *)
THEOREM FlowsSoundHolds == Spec => []FlowsSound
  <1>1. ASSUME EgressInv PROVE FlowsSound
    <2>1. /\ w \in World /\ FdIffLive(w) /\ Counted(w) /\ Owned(w) /\ Fresh(w)
          /\ Polled(w, {}) /\ Outlives(w) /\ due \in BOOLEAN /\ up \in BOOLEAN
          /\ (~up => w.fds = {})
      BY <1>1 DEF EgressInv, SoundBut
    <2>2. TypeOK
      BY <2>1 DEF TypeOK, World, Stream, Flow
    <2>3. CountsExact
      <3>1. \A c \in Conns : OfConn(w, LiveSet(w), c)
                               = {s \in Streams : Live(w, s) /\ w.stream[s].conn = c}
        BY DEF OfConn, LiveSet
      <3>2. LiveSet(w) = {s \in Streams : Live(w, s)}
        BY DEF LiveSet
      <3> QED
        BY <2>1, <3>1, <3>2 DEF CountsExact, Counted
    <2>4. FdOwned
      BY <2>1 DEF FdOwned, Owned, Descriptors, LiveSet
    <2>5. RegistryFresh
      BY <2>1 DEF RegistryFresh, Fresh
    <2>6. AlwaysPolled
      BY <2>1 DEF AlwaysPolled, Polled, LiveSet
    <2>7. StreamOutlives
      BY <2>1 DEF StreamOutlives, Outlives, LiveSet
    <2> QED
      BY <2>2, <2>3, <2>4, <2>5, <2>6, <2>7 DEF FlowsSound
  <1> QED
    BY <1>1, EgressInvariant, PTL
=============================================================================
