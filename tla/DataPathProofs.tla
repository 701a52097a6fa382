--------------------------- MODULE DataPathProofs ---------------------------
(***************************************************************************)
(* What DataPath guarantees for every number of clients, connections,      *)
(* flows and packets, every table limit and every size.                    *)
(***************************************************************************)
EXTENDS DataPath, FiniteSetTheorems, TLAPS

-----------------------------------------------------------------------------
(* Types *)

FlowType == [live : BOOLEAN, seq : Nat, marks : 0..ResetMarks, idle : 0..IdleTicks + 1]

EndType == [up : BOOLEAN, eng : BOOLEAN, peer : BOOLEAN, mss : Nat, owed : BOOLEAN, tab : TableType]

ConType == [owner : Clients \cup {NoClient}, addr : Addrs \cup {0}, cli : EndType, svr : EndType]

PktType == [id : Nat, c : Conns, e : Ends, f : Flows, stamped : BOOLEAN, seq : Nat, reset : BOOLEAN, at : Nat,
            done : BOOLEAN, a : Addrs \cup {0}, ttl : Nat]

Live(t) == {f \in Flows : t[f].live}

(* A table within its limit. *)
Fits(t) == IsFiniteSet(Live(t)) /\ (MaxFlows # 0 => Cardinality(Live(t)) <= MaxFlows)

-----------------------------------------------------------------------------
(* The send-flow table *)

LEMMA FlowsTyped ==
  /\ NoSendFlow \in FlowType /\ NoSendFlow.live = FALSE
  /\ TableType = [Flows -> FlowType] /\ EmptyTable \in TableType
BY TxAssumption DEF NoSendFlow, FlowType, TableType, EmptyTable

LEMMA EmptyFits == Fits(EmptyTable)
<1>1. Live(EmptyTable) = {}
  BY DEF Live, EmptyTable, NoSendFlow
<1>2. IsFiniteSet({}) /\ Cardinality({}) = 0
  BY FS_EmptySet
<1> QED BY <1>1, <1>2, TxAssumption DEF Fits

LEMMA ConEnd ==
  ASSUME NEW c \in Conns, con \in [Conns -> ConType]
  PROVE  /\ con[c].cli = con[c]["cli"] /\ con[c].svr = con[c]["svr"]
         /\ \A e \in Ends : con[c][e] \in EndType
BY DEF ConType, Ends

LEMMA OneEnd ==
  ASSUME con \in [Conns -> ConType], NEW c \in Conns, NEW e \in Ends, NEW z \in EndType,
         con' = [con EXCEPT ![c][e] = z]
  PROVE  /\ con' \in [Conns -> ConType]
         /\ con'[c][e] = z /\ con'[c][Peer(e)] = con[c][Peer(e)]
         /\ con'[c].owner = con[c].owner /\ con'[c].addr = con[c].addr
         /\ \A d \in Conns \ {c} : con'[d] = con[d]
BY DEF ConType, Ends, Peer

LEMMA TabEnd ==
  ASSUME con \in [Conns -> ConType], NEW c \in Conns, NEW e \in Ends, NEW t \in TableType
  PROVE  [con EXCEPT ![c][e].tab = t] = [con EXCEPT ![c][e] = [con[c][e] EXCEPT !.tab = t]]
OBVIOUS

LEMMA CreateIs ==
  ASSUME NEW t \in TableType, NEW f \in Flows, ~t[f].live
  PROVE  /\ Create(t, f) \in TableType /\ Live(Create(t, f)) = Live(t) \cup {f}
         /\ Create(t, f)[f].live = TRUE /\ Create(t, f)[f].seq = 0 /\ Create(t, f)[f].marks = ResetMarks
         /\ Create(t, f)[f].idle = 0
         /\ \A g \in Flows \ {f} : Create(t, f)[g] = t[g]
<1> DEFINE z == [live |-> TRUE, seq |-> 0, marks |-> ResetMarks, idle |-> 0]
<1>1. z \in FlowType /\ z.live = TRUE /\ z.seq = 0 /\ z.marks = ResetMarks /\ z.idle = 0
  BY TxAssumption DEF FlowType
<1>2. Create(t, f) = [t EXCEPT ![f] = z]
  BY DEF Create
<1> HIDE DEF z
<1>3. Create(t, f) \in [Flows -> FlowType]
  BY <1>1, <1>2, FlowsTyped
<1> QED BY <1>1, <1>2, <1>3, FlowsTyped DEF Live

LEMMA EvictIs ==
  ASSUME NEW t \in TableType, NEW u \in EvictOneIdle(t)
  PROVE  /\ u \in TableType
         /\ \E g \in Flows : /\ t[g].live /\ t[g].idle > IdleTicks /\ u[g] = NoSendFlow /\ Live(u) = Live(t) \ {g}
                             /\ \A h \in Flows \ {g} : u[h] = t[h]
<1>1. PICK g \in Flows : t[g].live /\ t[g].idle > IdleTicks /\ u = [t EXCEPT ![g] = NoSendFlow]
  BY DEF EvictOneIdle
<1>2. u \in TableType /\ u[g] = NoSendFlow /\ \A h \in Flows \ {g} : u[h] = t[h]
  BY <1>1, FlowsTyped
<1>3. Live(u) = Live(t) \ {g}
  BY <1>2, FlowsTyped DEF Live
<1> QED BY <1>1, <1>2, <1>3

(* What one lookup does to the entry of a flow: nothing; it is evicted     *)
(* after its idle time; or, for the flow looked up, it begins.             *)
Moved(g, h) ==
    \/ h = g
    \/ g.live /\ g.idle > IdleTicks /\ h = NoSendFlow
    \/ ~g.live /\ h.live = TRUE /\ h.seq = 0 /\ h.marks = ResetMarks /\ h.idle = 0

LEMMA RoomIs ==
  ASSUME NEW t \in TableType, Fits(t), NEW f \in Flows, ~t[f].live,
         NEW v, v \in (IF MaxFlows # 0 /\ NFlows(t) >= MaxFlows THEN EvictOneIdle(t) ELSE {t})
  PROVE  /\ v \in TableType /\ v[f] = t[f] /\ IsFiniteSet(Live(v)) /\ Cardinality(Live(v)) \in Nat
         /\ MaxFlows # 0 => Cardinality(Live(v)) < MaxFlows
         /\ \A h \in Flows : v[h] = t[h] \/ (t[h].live /\ t[h].idle > IdleTicks /\ v[h] = NoSendFlow)
<1>0. /\ NFlows(t) = Cardinality(Live(t)) /\ IsFiniteSet(Live(t)) /\ Cardinality(Live(t)) \in Nat
      /\ MaxFlows \in Nat /\ (MaxFlows # 0 => Cardinality(Live(t)) <= MaxFlows)
  BY FS_CardinalityType, TxAssumption DEF Fits, NFlows, Live
<1>1. CASE MaxFlows # 0 /\ NFlows(t) >= MaxFlows
  <2>0. v \in EvictOneIdle(t)
    BY <1>1
  <2>1. v \in TableType
    BY <2>0, EvictIs
  <2>2. PICK g \in Flows : /\ t[g].live /\ t[g].idle > IdleTicks /\ v[g] = NoSendFlow /\ Live(v) = Live(t) \ {g}
                           /\ \A h \in Flows \ {g} : v[h] = t[h]
    BY <2>0, EvictIs
  <2>3. g # f /\ g \in Live(t)
    BY <2>2 DEF Live
  <2>4. IsFiniteSet(Live(v)) /\ Cardinality(Live(v)) = Cardinality(Live(t)) - 1
    BY <1>0, <2>2, <2>3, FS_RemoveElement
  <2>5. Cardinality(Live(v)) \in Nat
    BY <2>4, FS_CardinalityType
  <2> QED BY <1>0, <2>1, <2>2, <2>3, <2>4, <2>5
<1>2. CASE ~(MaxFlows # 0 /\ NFlows(t) >= MaxFlows)
  <2>1. v = t
    BY <1>2
  <2> QED BY <1>0, <1>2, <2>1
<1> QED BY <1>1, <1>2

LEMMA GetOrCreateIs ==
  ASSUME NEW t \in TableType, Fits(t), NEW f \in Flows, NEW u \in GetOrCreate(t, f)
  PROVE  u \in TableType /\ Fits(u) /\ \A g \in Flows : Moved(t[g], u[g])
<1> DEFINE room == IF MaxFlows # 0 /\ NFlows(t) >= MaxFlows THEN EvictOneIdle(t) ELSE {t}
<1>1. u = t \/ (~t[f].live /\ \E v \in room : u = v \/ u = Create(v, f))
  BY DEF GetOrCreate
<1>2. CASE u = t
  BY <1>2 DEF Moved
<1>3. CASE ~t[f].live /\ \E v \in room : u = v \/ u = Create(v, f)
  <2>1. PICK v \in room : u = v \/ u = Create(v, f)
    BY <1>3
  <2>2. /\ v \in TableType /\ v[f] = t[f] /\ IsFiniteSet(Live(v)) /\ Cardinality(Live(v)) \in Nat
        /\ MaxFlows # 0 => Cardinality(Live(v)) < MaxFlows
        /\ \A h \in Flows : v[h] = t[h] \/ (t[h].live /\ t[h].idle > IdleTicks /\ v[h] = NoSendFlow)
    BY <1>3, RoomIs
  <2> HIDE DEF room
  <2>3. CASE u = v
    BY <2>2, <2>3, TxAssumption DEF Fits, Moved
  <2>4. CASE u = Create(v, f)
    <3>1. /\ u \in TableType /\ Live(u) = Live(v) \cup {f}
          /\ u[f].live = TRUE /\ u[f].seq = 0 /\ u[f].marks = ResetMarks /\ u[f].idle = 0
          /\ \A h \in Flows \ {f} : u[h] = v[h]
      BY <1>3, <2>2, <2>4, CreateIs
    <3>2. f \notin Live(v)
      BY <1>3, <2>2 DEF Live
    <3>3. IsFiniteSet(Live(u)) /\ Cardinality(Live(u)) = Cardinality(Live(v)) + 1
      BY <2>2, <3>1, <3>2, FS_AddElement
    <3>4. MaxFlows # 0 => Cardinality(Live(u)) <= MaxFlows
      BY <2>2, <3>3, TxAssumption
    <3>5. \A h \in Flows : Moved(t[h], u[h])
      BY <1>3, <2>2, <3>1 DEF Moved
    <3> QED BY <3>1, <3>3, <3>4, <3>5 DEF Fits
  <2> QED BY <2>1, <2>3, <2>4
<1> QED BY <1>1, <1>2, <1>3

(* What Peek gives for a packet of flow f: the table holds its limit, and  *)
(* a packet is only stamped with the numbers of a live entry.              *)
Peeked(p, t, f) ==
    /\ p.tab \in TableType /\ Fits(p.tab) /\ \A g \in Flows : Moved(t[g], p.tab[g])
    /\ p.act \in {"raw", "drop_mtu", "stamp"}
    /\ p.act = "stamp" => /\ p.tab[f].live = TRUE /\ p.seq = p.tab[f].seq
                          /\ p.reset = (p.tab[f].marks > 0)

(* What is done with a packet when the lookup of its flow left table u.    *)
Verdict(u, f, len, mss) ==
    IF ~u[f].live \/ ~Eligible(f) THEN "raw" ELSE IF Hdr + len > mss THEN "drop_mtu" ELSE "stamp"

LEMMA PeekOn ==
  ASSUME NEW t, NEW f, NEW len, NEW mss, Mode # "off", f \notin Unparsed
  PROVE  Peek(t, f, len, mss) = {[tab |-> u, act |-> Verdict(u, f, len, mss), seq |-> u[f].seq, reset |-> u[f].marks > 0] :
                                   u \in GetOrCreate(t, f)}
BY DEF Peek, Verdict

LEMMA PeekIs ==
  ASSUME NEW t \in TableType, Fits(t), NEW f \in Flows, NEW len, NEW mss, NEW p \in Peek(t, f, len, mss)
  PROVE  Peeked(p, t, f)
<1>1. CASE p = [tab |-> t, act |-> "raw", seq |-> 0, reset |-> FALSE]
  BY <1>1 DEF Peeked, Moved
<1>2. CASE \E u \in GetOrCreate(t, f) :
             p = [tab |-> u, act |-> Verdict(u, f, len, mss), seq |-> u[f].seq, reset |-> u[f].marks > 0]
  <2>1. PICK u \in GetOrCreate(t, f) :
             p = [tab |-> u, act |-> Verdict(u, f, len, mss), seq |-> u[f].seq, reset |-> u[f].marks > 0]
    BY <1>2
  <2>2. p.tab = u /\ p.act = Verdict(u, f, len, mss) /\ p.seq = u[f].seq /\ p.reset = (u[f].marks > 0)
    BY <2>1
  <2>3. u \in TableType /\ Fits(u) /\ \A g \in Flows : Moved(t[g], u[g])
    BY GetOrCreateIs
  <2>4. u[f].live \in BOOLEAN
    BY <2>3, FlowsTyped DEF FlowType
  <2>5. /\ Verdict(u, f, len, mss) \in {"raw", "drop_mtu", "stamp"}
        /\ Verdict(u, f, len, mss) = "stamp" => u[f].live = TRUE
    BY <2>4 DEF Verdict
  <2> QED BY <2>2, <2>3, <2>5 DEF Peeked
<1>3. CASE Mode = "off" \/ f \in Unparsed
  BY <1>1, <1>3 DEF Peek
<1>4. CASE Mode # "off" /\ f \notin Unparsed
  BY <1>2, <1>4, PeekOn
<1> QED BY <1>3, <1>4

LEMMA CommitIs ==
  ASSUME NEW t \in TableType, Fits(t), NEW f \in Flows, t[f].live = TRUE
  PROVE  /\ Commit(t, f) \in TableType /\ Fits(Commit(t, f))
         /\ Commit(t, f)[f].live = TRUE /\ Commit(t, f)[f].seq = t[f].seq + 1 /\ Commit(t, f)[f].idle = 0
         /\ Commit(t, f)[f].marks = (IF t[f].marks > 0 THEN t[f].marks - 1 ELSE 0)
         /\ \A g \in Flows \ {f} : Commit(t, f)[g] = t[g]
<1> DEFINE m == IF t[f].marks > 0 THEN t[f].marks - 1 ELSE 0
           z == [t[f] EXCEPT !.seq = t[f].seq + 1, !.marks = m, !.idle = 0]
<1>1. t[f] \in FlowType
  BY FlowsTyped
<1>a. m \in 0..ResetMarks /\ t[f].seq + 1 \in Nat /\ 0 \in 0..IdleTicks + 1
  BY <1>1, TxAssumption DEF FlowType
<1>2. /\ z \in FlowType /\ z.live = TRUE /\ z.seq = t[f].seq + 1 /\ z.idle = 0
      /\ z.marks = m
  <2> HIDE DEF m
  <2> QED BY <1>1, <1>a DEF FlowType
<1>3. Commit(t, f) = [t EXCEPT ![f] = z]
  <2>1. [t[f] EXCEPT !.seq = @ + 1, !.marks = IF @ > 0 THEN @ - 1 ELSE 0, !.idle = 0] = z
    BY <1>1 DEF FlowType
  <2> QED BY <2>1 DEF Commit
<1> HIDE DEF z
<1>4. Commit(t, f) \in TableType /\ Commit(t, f)[f] = z /\ \A g \in Flows \ {f} : Commit(t, f)[g] = t[g]
  BY <1>2, <1>3, FlowsTyped
<1>5. Live(Commit(t, f)) = Live(t)
  BY <1>2, <1>4 DEF Live
<1> QED BY <1>2, <1>4, <1>5 DEF Fits

LEMMA AgedIs ==
  ASSUME NEW t \in TableType, Fits(t)
  PROVE  /\ Aged(t) \in TableType /\ Fits(Aged(t))
         /\ \A f \in Flows : /\ Aged(t)[f].live = t[f].live /\ Aged(t)[f].seq = t[f].seq
                             /\ Aged(t)[f].marks = t[f].marks
                             /\ Aged(t)[f].idle <= t[f].idle + 1 /\ Aged(t)[f].idle \in Nat
<1>1. ASSUME NEW f \in Flows
      PROVE  /\ Aged(t)[f] \in FlowType
             /\ Aged(t)[f].live = t[f].live /\ Aged(t)[f].seq = t[f].seq /\ Aged(t)[f].marks = t[f].marks
             /\ Aged(t)[f].idle <= t[f].idle + 1 /\ Aged(t)[f].idle \in Nat
  <2>1. t[f] \in FlowType
    BY FlowsTyped
  <2>2. Aged(t)[f] = IF t[f].live /\ t[f].idle <= IdleTicks THEN [t[f] EXCEPT !.idle = @ + 1] ELSE t[f]
    BY DEF Aged
  <2> QED BY <2>1, <2>2, TxAssumption DEF FlowType
<1>2. Aged(t) \in TableType
  BY <1>1, FlowsTyped DEF Aged
<1>3. Live(Aged(t)) = Live(t)
  BY <1>1 DEF Live
<1> QED BY <1>1, <1>2, <1>3 DEF Fits

-----------------------------------------------------------------------------
(* The inductive invariant *)

(* The numbered datagrams of one flow that one end of c sent. *)
SentOf(h, e, c, f) == {x \in h : x.stamped /\ x.c = c /\ x.e = e /\ x.f = f}

(* The entry g of a flow agrees with the datagrams S sent of it at time t: *)
(* a flow without an entry, or with one that begins, sent nothing for the  *)
(* idle time; else the entry counts on from the last one.                  *)
Agrees(g, S, t) ==
    /\ g.live => /\ g.marks = IF g.seq < ResetMarks THEN ResetMarks - g.seq ELSE 0
                 /\ \A z \in S : g.idle <= t - z.at
    /\ ~g.live \/ g.seq = 0 => \A z \in S : t - z.at > IdleTicks
    /\ g.live /\ g.seq # 0 => \E y \in S : y.seq = g.seq - 1 /\ \A z \in S : z.id <= y.id

(* NumberingSound for one datagram x of a history h. *)
Before(x, h) == {y \in h : y.stamped /\ y.c = x.c /\ y.e = x.e /\ y.f = x.f /\ y.id < x.id}

Counted(x, h) ==
    x.stamped =>
        /\ x.reset <=> x.seq < ResetMarks
        /\ \/ x.seq = 0 /\ \A y \in Before(x, h) : x.at - y.at > IdleTicks
           \/ \E y \in Before(x, h) :
                 /\ \A z \in Before(x, h) : z.id <= y.id
                 /\ x.seq = y.seq + 1

(* A datagram belongs to a connection that was established, is numbered    *)
(* only for a peer with an engine and, while it travels, has a hop limit   *)
(* that was read from a TUN and, if the server sent it, the address of its *)
(* connection.                                                             *)
Travels(x, cn, i, t) ==
    /\ x.id < i /\ x.at <= t /\ cn[x.c].owner # NoClient
    /\ x.stamped => cn[x.c][Peer(x.e)].eng
    /\ ~x.done => (x.e = "svr" => x.a = cn[x.c].addr) /\ \E m \in Ttls : x.ttl <= m

World ==
    /\ con \in [Conns -> ConType] /\ bp \in [Clients -> BOOLEAN] /\ paused \in BOOLEAN
    /\ mtu \in [Clients -> Nat] /\ tokens \in [Ends -> 0..PtbLimit]
    /\ hist \in SUBSET PktType /\ n \in Nat /\ now \in Nat
    /\ \A c \in Conns, e \in Ends : Fits(con[c][e].tab)

(* Both ends of a connection that numbers agreed on it. *)
Negotiated(cn) ==
    /\ \A c \in Conns, e \in Ends : cn[c][e].peer => cn[c][Peer(e)].eng
    /\ \A c \in Conns, e \in Ends : cn[c][e].up => cn[c].owner # NoClient

Numbered(cn, h, t) ==
    /\ \A x \in h : Counted(x, h)
    /\ \A c \in Conns, e \in Ends : cn[c][e].up => \A f \in Flows : Agrees(cn[c][e].tab[f], SentOf(h, e, c, f), t)

DataInv ==
    /\ World
    /\ Negotiated(con)
    /\ \A x \in hist : Travels(x, con, n, now)
    /\ \A x, y \in hist : x.id = y.id => x = y
    /\ Numbered(con, hist, now)

-----------------------------------------------------------------------------
(* Histories *)

Same(x, y) ==
    /\ y.id = x.id /\ y.c = x.c /\ y.e = x.e /\ y.f = x.f
    /\ y.stamped = x.stamped /\ y.seq = x.seq /\ y.reset = x.reset /\ y.at = x.at

(* Every numbered datagram of h is in k, but for what its delivery takes.  *)
Copied(h, k) == \A x \in h : x.stamped => \E y \in k : Same(x, y)

LEMMA CountedCopy ==
  ASSUME NEW h, NEW k, Copied(h, k), Copied(k, h), \A x \in h : Counted(x, h)
  PROVE  \A x \in k : Counted(x, k)
<1> SUFFICES ASSUME NEW x \in k, x.stamped
             PROVE  /\ x.reset <=> x.seq < ResetMarks
                    /\ \/ x.seq = 0 /\ \A y \in Before(x, k) : x.at - y.at > IdleTicks
                       \/ \E y \in Before(x, k) : (\A z \in Before(x, k) : z.id <= y.id) /\ x.seq = y.seq + 1
  BY DEF Counted
<1>1. PICK w \in h : Same(x, w)
  BY DEF Copied
<1>2. \A y \in Before(x, k) : \E v \in Before(w, h) : Same(y, v)
  BY <1>1 DEF Copied, Before, Same
<1>3. \A v \in Before(w, h) : \E y \in Before(x, k) : Same(v, y)
  BY <1>1 DEF Copied, Before, Same
<1>4. Counted(w, h) /\ w.stamped
  BY <1>1 DEF Same
<1>5. x.reset <=> x.seq < ResetMarks
  BY <1>1, <1>4 DEF Counted, Same
<1>6. CASE w.seq = 0 /\ \A v \in Before(w, h) : w.at - v.at > IdleTicks
  BY <1>1, <1>2, <1>5, <1>6 DEF Same
<1>7. CASE \E v \in Before(w, h) : (\A z \in Before(w, h) : z.id <= v.id) /\ w.seq = v.seq + 1
  <2>1. PICK v \in Before(w, h) : (\A z \in Before(w, h) : z.id <= v.id) /\ w.seq = v.seq + 1
    BY <1>7
  <2>2. PICK y \in Before(x, k) : Same(v, y)
    BY <1>3
  <2>3. \A z \in Before(x, k) : z.id <= y.id
    BY <1>2, <2>1, <2>2 DEF Same
  <2> QED BY <1>1, <1>5, <2>1, <2>2, <2>3 DEF Same
<1> QED BY <1>4, <1>6, <1>7 DEF Counted

LEMMA AgreesCopy ==
  ASSUME NEW h, NEW k, Copied(h, k), Copied(k, h), NEW g, NEW e, NEW c, NEW f, NEW t, Agrees(g, SentOf(h, e, c, f), t)
  PROVE  Agrees(g, SentOf(k, e, c, f), t)
<1> DEFINE S == SentOf(h, e, c, f)
           R == SentOf(k, e, c, f)
<1>1. \A y \in R : \E v \in S : Same(y, v)
  BY DEF Copied, SentOf, Same
<1>2. \A v \in S : \E y \in R : Same(v, y)
  BY DEF Copied, SentOf, Same
<1> HIDE DEF S, R
<1>3. Agrees(g, S, t)
  BY DEF S
<1>4. g.live => /\ g.marks = IF g.seq < ResetMarks THEN ResetMarks - g.seq ELSE 0
                /\ \A z \in R : g.idle <= t - z.at
  BY <1>1, <1>3 DEF Agrees, Same
<1>5. ~g.live \/ g.seq = 0 => \A z \in R : t - z.at > IdleTicks
  BY <1>1, <1>3 DEF Agrees, Same
<1>6. ASSUME g.live /\ g.seq # 0
      PROVE  \E y \in R : y.seq = g.seq - 1 /\ \A z \in R : z.id <= y.id
  <2>1. PICK v \in S : v.seq = g.seq - 1 /\ \A z \in S : z.id <= v.id
    BY <1>3, <1>6 DEF Agrees
  <2>2. PICK y \in R : Same(v, y)
    BY <1>2
  <2>3. \A z \in R : z.id <= y.id
    BY <1>1, <2>1, <2>2 DEF Same
  <2> QED BY <2>1, <2>2, <2>3 DEF Same
<1>7. Agrees(g, R, t)
  BY <1>4, <1>5, <1>6 DEF Agrees
<1> QED BY <1>7 DEF R

(* What is left of a numbered datagram after its delivery. *)
Done(x) == [x EXCEPT !.done = TRUE, !.a = 0, !.ttl = 0]

LEMMA DoneIs ==
  ASSUME NEW x \in PktType
  PROVE  Done(x) \in PktType /\ Same(x, Done(x)) /\ Same(Done(x), x) /\ Same(x, x) /\ Done(x).done = TRUE
BY DEF PktType, Same, Done

LEMMA DeliveredIs ==
  ASSUME NEW h, NEW xs, NEW y
  PROVE  y \in Delivered(h, xs) <=> (y \in h /\ y \notin xs) \/ \E x \in xs : x.stamped /\ y = Done(x)
BY DEF Delivered, Done

LEMMA DeliveredCopies ==
  ASSUME NEW h \in SUBSET PktType, NEW xs \in SUBSET h
  PROVE  /\ Delivered(h, xs) \in SUBSET PktType
         /\ Copied(h, Delivered(h, xs)) /\ Copied(Delivered(h, xs), h)
<1>1. \A x \in h : Done(x) \in PktType /\ Same(x, Done(x)) /\ Same(Done(x), x) /\ Same(x, x)
  BY DoneIs
<1>2. Delivered(h, xs) \in SUBSET PktType
  BY <1>1, DeliveredIs
<1>3. Copied(h, Delivered(h, xs))
  <2> SUFFICES ASSUME NEW x \in h, x.stamped PROVE \E y \in Delivered(h, xs) : Same(x, y)
    BY DEF Copied
  <2>1. CASE x \in xs
    BY <1>1, <2>1, DeliveredIs
  <2>2. CASE x \notin xs
    BY <1>1, <2>2, DeliveredIs
  <2> QED BY <2>1, <2>2
<1>4. Copied(Delivered(h, xs), h)
  <2> SUFFICES ASSUME NEW y \in Delivered(h, xs) PROVE \E x \in h : Same(y, x)
    BY DEF Copied
  <2> QED BY <1>1, DeliveredIs
<1> QED BY <1>2, <1>3, <1>4

-----------------------------------------------------------------------------
(* Steps that leave the connections as they are, but for one end's table,  *)
(* room and latch                                                          *)

Alike(cn, dn) ==
    /\ \A c \in Conns : dn[c].owner = cn[c].owner /\ dn[c].addr = cn[c].addr
    /\ \A c \in Conns, e \in Ends : /\ dn[c][e].up = cn[c][e].up /\ dn[c][e].eng = cn[c][e].eng
                                    /\ dn[c][e].peer = cn[c][e].peer

(* dn is cn but for the end e of c, which is z. *)
Replaced(cn, dn, c, e, z) ==
    /\ dn[c][e] = z
    /\ \A d \in Conns, x \in Ends : d # c \/ x # e => dn[d][x] = cn[d][x]

LEMMA PeerEnds == \A e \in Ends : Peer(e) \in Ends /\ Peer(e) # e /\ Peer(Peer(e)) = e
BY DEF Ends, Peer

LEMMA AlikeKeeps ==
  ASSUME NEW cn, NEW dn, Alike(cn, dn)
  PROVE  /\ Negotiated(cn) => Negotiated(dn)
         /\ \A x \in PktType, i \in Nat, t \in Nat : Travels(x, cn, i, t) => Travels(x, dn, i, t)
<1>1. ASSUME Negotiated(cn) PROVE Negotiated(dn)
  BY <1>1, PeerEnds DEF Negotiated, Alike, Ends
<1>2. ASSUME NEW x \in PktType, NEW i \in Nat, NEW t \in Nat, Travels(x, cn, i, t)
      PROVE  Travels(x, dn, i, t)
  <2>1. x.c \in Conns /\ x.e \in Ends
    BY DEF PktType
  <2> QED BY <1>2, <2>1, PeerEnds DEF Travels, Alike
<1> QED BY <1>1, <1>2

LEMMA TravelsOn ==
  ASSUME NEW x \in PktType, NEW cn, NEW i \in Nat, NEW t \in Nat, NEW j \in Nat, NEW u \in Nat, i <= j, t <= u, Travels(x, cn, i, t)
  PROVE  Travels(x, cn, j, u)
BY DEF Travels, PktType

LEMMA OneEndAlike ==
  ASSUME World, NEW c \in Conns, NEW e \in Ends, NEW z \in EndType, Fits(z.tab), con' = [con EXCEPT ![c][e] = z],
         z.up = con[c][e].up, z.eng = con[c][e].eng, z.peer = con[c][e].peer
  PROVE  /\ con' \in [Conns -> ConType] /\ Alike(con, con')
         /\ \A d \in Conns, x \in Ends : Fits(con'[d][x].tab)
         /\ Replaced(con, con', c, e, z)
<1>1. /\ con' \in [Conns -> ConType]
      /\ con'[c][e] = z /\ con'[c][Peer(e)] = con[c][Peer(e)]
      /\ con'[c].owner = con[c].owner /\ con'[c].addr = con[c].addr
      /\ \A d \in Conns \ {c} : con'[d] = con[d]
  BY OneEnd DEF World
<1>2. \A x \in Ends : x = e \/ x = Peer(e)
  BY DEF Ends, Peer
<1>3. Replaced(con, con', c, e, z)
  BY <1>1, <1>2, PeerEnds DEF Replaced
<1>4. Alike(con, con')
  BY <1>1, <1>3 DEF Alike, Replaced
<1>5. \A d \in Conns, x \in Ends : Fits(con'[d][x].tab)
  BY <1>3 DEF World, Replaced
<1> QED BY <1>1, <1>3, <1>4, <1>5

(* The types of what a step may change besides. *)
Others ==
    /\ bp' \in [Clients -> BOOLEAN] /\ paused' \in BOOLEAN /\ mtu' \in [Clients -> Nat]
    /\ tokens' \in [Ends -> 0..PtbLimit]

LEMMA EndMoves ==
  ASSUME DataInv, NEW c \in Conns, NEW e \in Ends, NEW z \in EndType, Fits(z.tab), con' = [con EXCEPT ![c][e] = z],
         z.up = con[c][e].up, z.eng = con[c][e].eng, z.peer = con[c][e].peer,
         z.up => \A f \in Flows : Agrees(z.tab[f], SentOf(hist, e, c, f), now),
         Others, n' \in Nat, n <= n', now' = now, hist' = hist
  PROVE  DataInv'
<1>1. World
  BY DEF DataInv
<1>2. /\ con' \in [Conns -> ConType] /\ Alike(con, con')
      /\ \A d \in Conns, x \in Ends : Fits(con'[d][x].tab)
      /\ Replaced(con, con', c, e, z)
  BY <1>1, OneEndAlike
<1>3. World'
  BY <1>1, <1>2 DEF World, Others
<1>4. Negotiated(con')
  BY <1>2, AlikeKeeps DEF DataInv
<1>5. \A x \in hist' : Travels(x, con', n', now')
  <2> SUFFICES ASSUME NEW x \in hist PROVE Travels(x, con', n', now')
    OBVIOUS
  <2>1. x \in PktType /\ Travels(x, con, n, now) /\ n \in Nat /\ now \in Nat
    BY <1>1 DEF DataInv, World
  <2>2. Travels(x, con', n, now)
    BY <1>2, <2>1, AlikeKeeps
  <2> QED BY <2>1, <2>2, TravelsOn
<1>6. Numbered(con', hist', now')
  <2>1. \A d \in Conns, x \in Ends : con'[d][x].up => \A f \in Flows : Agrees(con'[d][x].tab[f], SentOf(hist, x, d, f), now)
    BY <1>2 DEF DataInv, Numbered, Replaced
  <2> QED BY <2>1 DEF DataInv, Numbered
<1> QED BY <1>3, <1>4, <1>5, <1>6 DEF DataInv

(* A datagram x is accepted: the youngest of its end. *)
LEMMA Appended ==
  ASSUME DataInv, NEW c \in Conns, NEW e \in Ends, NEW z \in EndType, Fits(z.tab), con' = [con EXCEPT ![c][e] = z],
         z.up = con[c][e].up, z.eng = con[c][e].eng, z.peer = con[c][e].peer,
         NEW x \in PktType, x.id = n, x.c = c, x.e = e, x.at = now, Travels(x, con, n + 1, now),
         Counted(x, hist), hist' = hist \cup {x},
         z.up => \A f \in Flows : Agrees(z.tab[f], SentOf(hist', e, c, f), now),
         Others, n' = n + 1, now' = now
  PROVE  DataInv'
<1>1. World
  BY DEF DataInv
<1>2. /\ con' \in [Conns -> ConType] /\ Alike(con, con')
      /\ \A d \in Conns, y \in Ends : Fits(con'[d][y].tab)
      /\ Replaced(con, con', c, e, z)
  BY <1>1, OneEndAlike
<1>a. n \in Nat /\ n' \in Nat /\ now \in Nat
  BY <1>1 DEF World
<1>3. World'
  BY <1>1, <1>2, <1>a DEF World, Others
<1>4. Negotiated(con')
  BY <1>2, AlikeKeeps DEF DataInv
<1>5. \A y \in hist' : Travels(y, con', n', now')
  <2> SUFFICES ASSUME NEW y \in hist' PROVE Travels(y, con', n', now')
    OBVIOUS
  <2>1. y \in PktType /\ Travels(y, con, n', now)
    <3>1. CASE y = x
      BY <3>1
    <3>2. CASE y \in hist
      BY <1>1, <1>a, <3>2, TravelsOn DEF DataInv, World
    <3> QED BY <3>1, <3>2
  <2> QED BY <1>2, <1>a, <2>1, AlikeKeeps
<1>6. \A y \in hist : y.id < n
  BY DEF DataInv, Travels
<1>7. \A y, w \in hist' : y.id = w.id => y = w
  BY <1>6, <1>a DEF DataInv, World, PktType
<1>8. \A y \in hist' : Before(y, hist') = Before(y, hist)
  BY <1>1, <1>6, <1>a DEF Before, World, PktType
<1>9. \A y \in hist' : Counted(y, hist')
  BY <1>8 DEF Counted, DataInv, Numbered
<1>10. \A d \in Conns, y \in Ends, f \in Flows : ~(d = c /\ y = e) => SentOf(hist', y, d, f) = SentOf(hist, y, d, f)
  BY DEF SentOf
<1>11. ASSUME NEW d \in Conns, NEW y \in Ends, con'[d][y].up, NEW f \in Flows
       PROVE  Agrees(con'[d][y].tab[f], SentOf(hist', y, d, f), now)
  <2>1. CASE d = c /\ y = e
    <3>1. con'[d][y] = z
      BY <1>2, <2>1 DEF Replaced
    <3> QED BY <1>11, <2>1, <3>1
  <2>2. CASE ~(d = c /\ y = e)
    <3>1. con'[d][y] = con[d][y]
      BY <1>2, <2>2 DEF Replaced
    <3> QED BY <1>10, <1>11, <2>2, <3>1 DEF DataInv, Numbered
  <2> QED BY <2>1, <2>2
<1>12. Numbered(con', hist', now')
  BY <1>9, <1>11 DEF Numbered
<1> QED BY <1>3, <1>4, <1>5, <1>7, <1>12 DEF DataInv

-----------------------------------------------------------------------------
(* A packet read from a TUN *)

LEMMA GateIs ==
  ASSUME DataInv, NEW c \in Conns, NEW e \in Ends, NEW f \in Flows, NEW len, NEW p \in Gate(e, c, f, len)
  PROVE  Peeked(p, con[c][e].tab, f) /\ (p.act = "stamp" => con[c][e].eng /\ con[c][e].peer)
<1> DEFINE end == con[c][e]
<1>1. end \in EndType /\ end.tab \in TableType /\ Fits(end.tab)
  BY ConEnd DEF DataInv, World, EndType
<1>2. CASE end.eng /\ end.peer /\ Mode # "off" /\ end.mss > 0
  <2>1. p \in Peek(end.tab, f, len, end.mss)
    BY <1>2 DEF Gate
  <2> QED BY <1>1, <1>2, <2>1, PeekIs
<1>3. CASE ~(end.eng /\ end.peer /\ Mode # "off" /\ end.mss > 0)
  <2>1. p = [tab |-> end.tab, act |-> "raw", seq |-> 0, reset |-> FALSE]
    BY <1>3 DEF Gate
  <2>2. p.tab = end.tab /\ p.act = "raw"
    BY <2>1
  <2> HIDE DEF end
  <2>3. Peeked(p, end.tab, f)
    BY <1>1, <2>2 DEF Peeked, Moved
  <2> QED BY <2>2, <2>3 DEF end
<1> QED BY <1>2, <1>3

LEMMA MovedAgrees ==
  ASSUME NEW g \in FlowType, NEW h, Moved(g, h), NEW t \in Nat, NEW S \in SUBSET PktType, Agrees(g, S, t)
  PROVE  Agrees(h, S, t)
<1>1. CASE h = g
  BY <1>1
<1>2. CASE g.live /\ g.idle > IdleTicks /\ h = NoSendFlow
  <2>1. \A z \in S : t - z.at > IdleTicks
    BY <1>2, TxAssumption DEF Agrees, FlowType, PktType
  <2> QED BY <1>2, <2>1, FlowsTyped DEF Agrees
<1>3. CASE ~g.live /\ h.live = TRUE /\ h.seq = 0 /\ h.marks = ResetMarks /\ h.idle = 0
  <2>1. \A z \in S : t - z.at > IdleTicks /\ 0 <= t - z.at
    BY <1>3, TxAssumption DEF Agrees, FlowType, PktType
  <2> QED BY <1>3, <2>1, TxAssumption DEF Agrees
<1> QED BY <1>1, <1>2, <1>3 DEF Moved

LEMMA CommitAgrees ==
  ASSUME NEW g \in FlowType, g.live, NEW t \in Nat, NEW S \in SUBSET PktType, Agrees(g, S, t),
         NEW x \in PktType, x.seq = g.seq, x.at = t, \A z \in S : z.id < x.id /\ z.at <= t,
         NEW h \in FlowType, h.live = TRUE, h.seq = g.seq + 1, h.idle = 0, h.marks = IF g.marks > 0 THEN g.marks - 1 ELSE 0
  PROVE  Agrees(h, S \cup {x}, t)
<1>1. h.marks = IF h.seq < ResetMarks THEN ResetMarks - h.seq ELSE 0
  BY TxAssumption DEF Agrees, FlowType
<1>2. \A z \in S \cup {x} : h.idle <= t - z.at
  BY DEF PktType
<1>3. h.seq # 0 /\ x.seq = h.seq - 1 /\ \A z \in S \cup {x} : z.id <= x.id
  BY DEF PktType, FlowType
<1> QED BY <1>1, <1>2, <1>3 DEF Agrees

(* The tables a lookup leaves agree with the history. *)
LEMMA LookedUp ==
  ASSUME DataInv, NEW c \in Conns, NEW e \in Ends, con[c][e].up, NEW f \in Flows, NEW p, Peeked(p, con[c][e].tab, f)
  PROVE  \A g \in Flows : Agrees(p.tab[g], SentOf(hist, e, c, g), now)
<1> SUFFICES ASSUME NEW g \in Flows PROVE Agrees(p.tab[g], SentOf(hist, e, c, g), now)
  OBVIOUS
<1>1. con[c][e] \in EndType
  BY ConEnd DEF DataInv, World
<1>2. con[c][e].tab[g] \in FlowType
  BY <1>1, FlowsTyped DEF EndType
<1>3. Agrees(con[c][e].tab[g], SentOf(hist, e, c, g), now)
  BY DEF DataInv, Numbered
<1>4. SentOf(hist, e, c, g) \in SUBSET PktType /\ now \in Nat
  BY DEF SentOf, DataInv, World
<1> QED BY <1>2, <1>3, <1>4, MovedAgrees DEF Peeked

(* The packet is not sent: dropped, answered or refused (owed = TRUE). *)
LEMMA NotSent ==
  ASSUME DataInv, NEW c \in Conns, NEW e \in Ends, con[c][e].up, NEW f \in Flows, NEW p, Peeked(p, con[c][e].tab, f),
         NEW z \in EndType, z.tab = p.tab, z.up = con[c][e].up, z.eng = con[c][e].eng, z.peer = con[c][e].peer,
         con' = [con EXCEPT ![c][e] = z], Others, n' = n + 1, now' = now, hist' = hist
  PROVE  DataInv'
<1>1. Fits(z.tab)
  BY DEF Peeked
<1>2. \A g \in Flows : Agrees(z.tab[g], SentOf(hist, e, c, g), now)
  BY LookedUp
<1>3. n' \in Nat /\ n <= n'
  BY DEF DataInv, World
<1> QED BY <1>1, <1>2, <1>3, EndMoves

LEMMA KeepTableNotSent ==
  ASSUME DataInv, NEW c \in Conns, NEW e \in Ends, con[c][e].up, NEW f \in Flows, NEW p, Peeked(p, con[c][e].tab, f),
         KeepTable(e, c, p), Others, n' = n + 1, now' = now, hist' = hist
  PROVE  DataInv'
<1> DEFINE z == [con[c][e] EXCEPT !.tab = p.tab]
<1>1. con[c][e] \in EndType
  BY ConEnd DEF DataInv, World
<1>2. p.tab \in TableType
  BY DEF Peeked
<1>3. z \in EndType /\ z.tab = p.tab /\ z.up = con[c][e].up /\ z.eng = con[c][e].eng /\ z.peer = con[c][e].peer
  BY <1>1, <1>2 DEF EndType
<1>4. con' = [con EXCEPT ![c][e] = z]
  BY <1>2, TabEnd DEF KeepTable, DataInv, World
<1> HIDE DEF z
<1> QED BY <1>3, <1>4, NotSent

LEMMA RefusedNotSent ==
  ASSUME DataInv, NEW c \in Conns, NEW e \in Ends, con[c][e].up, NEW f \in Flows, NEW p, Peeked(p, con[c][e].tab, f),
         Refused(e, c, p, f), Others, n' = n + 1, now' = now
  PROVE  DataInv'
<1> DEFINE z == [con[c][e] EXCEPT !.tab = p.tab, !.owed = TRUE]
<1>1. con[c][e] \in EndType
  BY ConEnd DEF DataInv, World
<1>2. p.tab \in TableType
  BY DEF Peeked
<1>3. z \in EndType /\ z.tab = p.tab /\ z.up = con[c][e].up /\ z.eng = con[c][e].eng /\ z.peer = con[c][e].peer
  BY <1>1, <1>2 DEF EndType
<1>4. con' = [con EXCEPT ![c][e] = z] /\ hist' = hist
  BY DEF Refused
<1> HIDE DEF z
<1> QED BY <1>3, <1>4, NotSent

LEMMA DatagramIs ==
  ASSUME DataInv, NEW c \in Conns, NEW e \in Ends, con[c][e].up, NEW f \in Flows, NEW p, Peeked(p, con[c][e].tab, f),
         p.act = "stamp" => con[c][e].eng /\ con[c][e].peer,
         NEW a \in Addrs, e = "svr" => a = con[c].addr, NEW ttl \in Nat, \E m \in Ttls : ttl <= m
  PROVE  LET x == Datagram(e, c, p, f, a, ttl) IN
         /\ x \in PktType /\ x.id = n /\ x.c = c /\ x.e = e /\ x.f = f /\ x.at = now /\ Travels(x, con, n + 1, now)
         /\ x.stamped = (p.act = "stamp") /\ (p.act = "stamp" => x.seq = p.seq) /\ Counted(x, hist)
<1> DEFINE x == Datagram(e, c, p, f, a, ttl)
           g == p.tab[f]
<1>0. n \in Nat /\ now \in Nat
  BY DEF DataInv, World
<1>1. g \in FlowType
  BY FlowsTyped DEF Peeked
<1>2. /\ x.id = n /\ x.c = c /\ x.e = e /\ x.f = f /\ x.at = now /\ x.stamped = (p.act = "stamp") /\ x.done = FALSE
      /\ x.a = a /\ x.ttl = ttl /\ x.seq = (IF p.act = "stamp" THEN p.seq ELSE 0)
      /\ x.reset = (p.act = "stamp" /\ p.reset)
  BY DEF Datagram
<1>3. p.act = "stamp" => p.seq = g.seq /\ p.reset = (g.marks > 0) /\ g.live = TRUE
  BY DEF Peeked
<1>4. x \in PktType
  <2>1. (IF p.act = "stamp" THEN p.seq ELSE 0) \in Nat /\ (p.act = "stamp") \in BOOLEAN /\ (p.act = "stamp" /\ p.reset) \in BOOLEAN
    BY <1>1, <1>3 DEF FlowType
  <2> QED BY <1>0, <2>1 DEF Datagram, PktType
<1> HIDE DEF x
<1>5. Travels(x, con, n + 1, now)
  <2>1. con[c].owner # NoClient /\ (con[c][e].peer => con[c][Peer(e)].eng)
    BY DEF DataInv, Negotiated
  <2>2. x.id < n + 1 /\ x.at <= now /\ con[x.c].owner # NoClient
    BY <1>0, <1>2, <2>1
  <2>3. x.stamped => con[x.c][Peer(x.e)].eng
    BY <1>2, <2>1
  <2>4. (x.e = "svr" => x.a = con[x.c].addr) /\ \E m \in Ttls : x.ttl <= m
    BY <1>2
  <2> QED BY <2>2, <2>3, <2>4 DEF Travels
<1>6. ASSUME p.act = "stamp" PROVE Counted(x, hist)
  <2> DEFINE S == SentOf(hist, e, c, f)
  <2>1. Agrees(g, S, now)
    BY LookedUp
  <2>2. \A y \in hist : y.id < n /\ y.id \in Nat /\ y.seq \in Nat
    BY DEF DataInv, Travels, World, PktType
  <2>3. Before(x, hist) = S
    BY <1>2, <2>2 DEF Before, SentOf
  <2>4. x.reset <=> x.seq < ResetMarks
    <3>1. g.marks > 0 <=> g.seq < ResetMarks
      BY <1>1, <1>3, <1>6, <2>1, TxAssumption DEF Agrees, FlowType
    <3>2. x.seq = g.seq
      BY <1>2, <1>3, <1>6
    <3>3. x.reset <=> g.marks > 0
      BY <1>2, <1>3, <1>6
    <3> QED BY <3>1, <3>2, <3>3
  <2> HIDE DEF g
  <2>5. CASE g.seq = 0
    BY <1>2, <1>3, <1>6, <2>1, <2>3, <2>4, <2>5 DEF Agrees, Counted
  <2>6. CASE g.seq # 0
    <3>1. PICK y \in S : y.seq = g.seq - 1 /\ \A z \in S : z.id <= y.id
      BY <1>3, <1>6, <2>1, <2>6 DEF Agrees
    <3>2. x.seq = y.seq + 1
      BY <1>1, <1>2, <1>3, <1>6, <2>2, <3>1 DEF SentOf, FlowType
    <3> QED BY <2>3, <2>4, <3>1, <3>2 DEF Counted
  <2> QED BY <2>5, <2>6
<1>7. ASSUME p.act # "stamp" PROVE Counted(x, hist)
  BY <1>2, <1>7 DEF Counted
<1> QED BY <1>2, <1>4, <1>5, <1>6, <1>7 DEF x

LEMMA Sent ==
  ASSUME DataInv, NEW c \in Conns, NEW e \in Ends, con[c][e].up, NEW f \in Flows, NEW p, Peeked(p, con[c][e].tab, f),
         p.act = "stamp" => con[c][e].eng /\ con[c][e].peer,
         NEW a \in Addrs, e = "svr" => a = con[c].addr, NEW ttl \in Nat, \E m \in Ttls : ttl <= m,
         Send(e, c, p, f, Datagram(e, c, p, f, a, ttl)), Others, n' = n + 1, now' = now
  PROVE  DataInv'
<1> DEFINE x == Datagram(e, c, p, f, a, ttl)
           t == IF p.act = "stamp" THEN Commit(p.tab, f) ELSE p.tab
           z == [con[c][e] EXCEPT !.tab = t]
<1>1. /\ x \in PktType /\ x.id = n /\ x.c = c /\ x.e = e /\ x.f = f /\ x.at = now /\ Travels(x, con, n + 1, now)
      /\ x.stamped = (p.act = "stamp") /\ (p.act = "stamp" => x.seq = p.seq) /\ Counted(x, hist)
  BY DatagramIs
<1>2. hist' = hist \cup {x} /\ con' = [con EXCEPT ![c][e].tab = t]
  BY DEF Send
<1> HIDE DEF x
<1>3. p.tab \in TableType /\ Fits(p.tab) /\ (p.act = "stamp" => p.tab[f].live = TRUE /\ p.seq = p.tab[f].seq)
  BY DEF Peeked
<1>4. t \in TableType /\ Fits(t)
  BY <1>3, CommitIs
<1>5. con[c][e] \in EndType
  BY ConEnd DEF DataInv, World
<1>6. \A g \in Flows : Agrees(p.tab[g], SentOf(hist, e, c, g), now)
  BY LookedUp
<1>7. \A y \in hist : y.id < n /\ y.at <= now
  BY DEF DataInv, Travels
<1>8. ASSUME NEW g \in Flows
      PROVE  Agrees(t[g], SentOf(hist', e, c, g), now)
  <2>1. CASE p.act = "stamp" /\ g = f
    <3>1. SentOf(hist', e, c, f) = SentOf(hist, e, c, f) \cup {x}
      BY <1>1, <1>2, <2>1 DEF SentOf
    <3>2. /\ Commit(p.tab, f)[f].live = TRUE /\ Commit(p.tab, f)[f].seq = p.tab[f].seq + 1 /\ Commit(p.tab, f)[f].idle = 0
          /\ Commit(p.tab, f)[f].marks = (IF p.tab[f].marks > 0 THEN p.tab[f].marks - 1 ELSE 0)
          /\ Commit(p.tab, f) \in TableType
      BY <1>3, <2>1, CommitIs
    <3>3. Commit(p.tab, f)[f] \in FlowType /\ p.tab[f] \in FlowType
      BY <1>3, <3>2, FlowsTyped
    <3>4. t[f] = Commit(p.tab, f)[f]
      BY <2>1
    <3>5. SentOf(hist, e, c, f) \in SUBSET PktType /\ \A y \in SentOf(hist, e, c, f) : y.id < x.id /\ y.at <= now
      BY <1>1, <1>7 DEF SentOf, DataInv, World
    <3>6. now \in Nat /\ p.tab[f].live /\ x.seq = p.tab[f].seq /\ Agrees(p.tab[f], SentOf(hist, e, c, f), now)
      BY <1>1, <1>3, <1>6, <2>1 DEF DataInv, World
    <3> HIDE DEF t
    <3>7. Agrees(Commit(p.tab, f)[f], SentOf(hist, e, c, f) \cup {x}, now)
      BY <1>1, <3>2, <3>3, <3>5, <3>6, CommitAgrees
    <3> QED BY <2>1, <3>1, <3>4, <3>7
  <2>2. CASE ~(p.act = "stamp" /\ g = f)
    <3>1. SentOf(hist', e, c, g) = SentOf(hist, e, c, g)
      BY <1>1, <1>2, <2>2 DEF SentOf
    <3>2. t[g] = p.tab[g]
      BY <1>3, <2>2, CommitIs
    <3> QED BY <1>6, <3>1, <3>2
  <2> QED BY <2>1, <2>2
<1> HIDE DEF t
<1>9. /\ z \in EndType /\ z.tab = t /\ z.up = con[c][e].up /\ z.eng = con[c][e].eng /\ z.peer = con[c][e].peer
  BY <1>4, <1>5 DEF EndType
<1>10. con' = [con EXCEPT ![c][e] = z]
  BY <1>2, <1>4, TabEnd DEF DataInv, World
<1> HIDE DEF z
<1> QED BY <1>1, <1>2, <1>4, <1>8, <1>9, <1>10, Appended

LEMMA ConnOfIs ==
  ASSUME NEW k, ConnOf(k) # NoConn
  PROVE  ConnOf(k) \in Conns /\ con[ConnOf(k)].owner = k /\ con[ConnOf(k)]["cli"].up
<1> DEFINE cs == {c \in Conns : con[c].owner = k /\ con[c]["cli"].up}
<1>1. ConnOf(k) = IF cs = {} THEN NoConn ELSE CHOOSE c \in cs : TRUE
  BY DEF ConnOf
<1>2. ConnOf(k) \in cs
  <2> HIDE DEF cs
  <2> QED BY <1>1
<1> QED BY <1>2

(* An entry of the session table is an established connection with that    *)
(* address.  Connections are used in order, and the last one that was      *)
(* given an address has its entry while it is established.                 *)
SessInv ==
    /\ sessions \in [Addrs -> Conns \cup {NoConn}] /\ nSessions \in Int
    /\ \A a \in Addrs : sessions[a] # NoConn => con[sessions[a]].addr = a /\ con[sessions[a]]["svr"].up
    /\ \A c, d \in Conns : d < c /\ con[c].owner # NoClient => con[d].owner # NoClient
    /\ \A c \in Conns : con[c].addr \in IF con[c].owner = NoClient THEN {0} ELSE Addrs
    /\ \A c \in Conns : con[c]["svr"].up =>
          \/ sessions[con[c].addr] = c
          \/ \E d \in Conns : d > c /\ con[d].addr = con[c].addr

LEMMA Addressed ==
  ASSUME DataInv, SessInv, NEW c \in Conns, con[c]["svr"].up
  PROVE  con[c].addr \in Addrs /\ con[c].addr # 0
<1>1. con[c].owner # NoClient
  BY DEF DataInv, Negotiated, Ends
<1>2. con[c].addr \in Addrs
  BY <1>1 DEF SessInv
<1> QED BY <1>2, PathAssumption

LEMMA SessionIs ==
  ASSUME SessInv, NEW a \in Addrs, sessions[a] # NoConn
  PROVE  /\ sessions[a] \in Conns /\ con[sessions[a]].addr = a /\ con[sessions[a]]["svr"].up
BY DEF SessInv

LEMMA IcmpTokens ==
  ASSUME World, NEW e \in Ends, NEW answer, Icmp(e, answer)
  PROVE  tokens' \in [Ends -> 0..PtbLimit]
<1>1. PtbLimit \in Nat /\ tokens[e] \in 0..PtbLimit
  BY PathAssumption DEF World
<1> QED BY <1>1 DEF Icmp, World

LEMMA SendDatagramKeeps ==
  ASSUME DataInv, NEW c \in Conns, NEW e \in Ends, con[c][e].up, NEW f \in Flows, NEW p, Peeked(p, con[c][e].tab, f),
         p.act = "stamp" => con[c][e].eng /\ con[c][e].peer,
         NEW a \in Addrs, e = "svr" => a = con[c].addr, NEW ttl \in Nat, \E m \in Ttls : ttl <= m,
         SendDatagram(e, c, p, f, Datagram(e, c, p, f, a, ttl)), n' = n + 1, UNCHANGED <<mtu, now>>
  PROVE  DataInv'
<1>1. tokens' = tokens /\ World
  BY DEF SendDatagram, DataInv
<1>2. CASE Send(e, c, p, f, Datagram(e, c, p, f, a, ttl))
  <2>1. Others
    BY <1>1, <1>2 DEF Send, Others, World
  <2> QED BY <1>2, <2>1, Sent
<1>3. CASE Refused(e, c, p, f)
  <2>1. Others
    BY <1>1, <1>3 DEF Refused, Others, World
  <2> QED BY <1>3, <2>1, RefusedNotSent
<1>4. CASE KeepTable(e, c, p) /\ UNCHANGED <<bp, paused, hist>>
  <2>1. Others
    BY <1>1, <1>4 DEF Others, World
  <2> QED BY <1>4, <2>1, KeepTableNotSent
<1> QED BY <1>2, <1>3, <1>4 DEF SendDatagram

LEMMA AnsweredKeeps ==
  ASSUME DataInv, NEW c \in Conns, NEW e \in Ends, con[c][e].up, NEW f \in Flows, NEW p, Peeked(p, con[c][e].tab, f),
         KeepTable(e, c, p), NEW answer, Icmp(e, answer), UNCHANGED <<bp, paused, hist, mtu, now>>, n' = n + 1
  PROVE  DataInv'
<1>1. Others
  BY IcmpTokens DEF Others, DataInv, World
<1> QED BY <1>1, KeepTableNotSent

(* Nothing but the allowance and the count of packets changes. *)
LEMMA OnlyCounted ==
  ASSUME DataInv, UNCHANGED <<con, hist, now>>, Others, n' \in Nat, n <= n'
  PROVE  DataInv'
<1>1. World'
  BY DEF DataInv, World, Others
<1>2. \A x \in hist' : Travels(x, con', n', now')
  BY TravelsOn DEF DataInv, World
<1> QED BY <1>1, <1>2 DEF DataInv

LEMMA ClientTunPacketInv ==
  ASSUME DataInv, NEW k \in Clients, NEW f \in Flows, NEW len \in Lens, NEW a \in Addrs, NEW ttl \in Ttls,
         ClientTunPacket(k, f, len, a, ttl)
  PROVE  DataInv'
<1> DEFINE c == ConnOf(k)
<1>1. ClientReads(k) /\ n' = n + 1 /\ UNCHANGED <<mtu, now>> /\ World
  BY DEF ClientTunPacket, Offered, DataInv
<1>2. c \in Conns /\ con[c]["cli"].up
  BY <1>1, ConnOfIs DEF ClientReads
<1>3. "cli" \in Ends /\ ttl \in Nat /\ ttl <= ttl
  BY PathAssumption DEF Ends
<1>4. CASE a # con[c].addr /\ c \notin Unchecked
  <2>1. UNCHANGED <<con, bp, paused, tokens, hist>>
    BY <1>4 DEF ClientTunPacket
  <2>2. Others /\ n' \in Nat /\ n <= n'
    BY <1>1, <2>1 DEF Others, World
  <2> QED BY <1>1, <2>1, <2>2, OnlyCounted
<1>5. CASE ~(a # con[c].addr /\ c \notin Unchecked)
  <2>1. PICK p \in Gate("cli", c, f, len) :
              IF TooBig(p, len, con[c]["cli"].mss)
              THEN AnswerTooBig("cli", c, p, f, len)
              ELSE SendDatagram("cli", c, p, f, Datagram("cli", c, p, f, a, ttl))
    BY <1>5 DEF ClientTunPacket
  <2> HIDE DEF c
  <2>2. Peeked(p, con[c]["cli"].tab, f) /\ (p.act = "stamp" => con[c]["cli"].eng /\ con[c]["cli"].peer)
    BY <1>2, <1>3, GateIs
  <2>3. CASE AnswerTooBig("cli", c, p, f, len)
    <3>1. KeepTable("cli", c, p) /\ UNCHANGED <<bp, paused, hist>>
      BY <2>3 DEF AnswerTooBig
    <3>2. \E answer : Icmp("cli", answer)
      BY <2>3 DEF AnswerTooBig
    <3> QED BY <1>1, <1>2, <1>3, <2>2, <3>1, <3>2, AnsweredKeeps
  <2>4. CASE SendDatagram("cli", c, p, f, Datagram("cli", c, p, f, a, ttl))
    BY <1>1, <1>2, <1>3, <2>2, <2>4, SendDatagramKeeps
  <2> QED BY <2>1, <2>3, <2>4
<1> QED BY <1>4, <1>5

LEMMA ServerTunPacketInv ==
  ASSUME DataInv, SessInv, NEW f \in Flows, NEW len \in Lens, NEW a \in Addrs, NEW ttl \in Ttls, ServerTunPacket(f, len, a, ttl)
  PROVE  DataInv'
<1> DEFINE c == sessions[a]
<1>1. n' = n + 1 /\ UNCHANGED <<mtu, now>> /\ World
  BY DEF ServerTunPacket, Offered, DataInv
<1>2. "svr" \in Ends /\ ttl \in Nat
  BY PathAssumption DEF Ends
<1>3. CASE c = NoConn
  <2>1. UNCHANGED <<con, bp, paused, hist>> /\ \E answer : Icmp("svr", answer)
    BY <1>3 DEF ServerTunPacket
  <2>2. Others /\ n' \in Nat /\ n <= n'
    BY <1>1, <1>2, <2>1, IcmpTokens DEF Others, World
  <2> QED BY <1>1, <2>1, <2>2, OnlyCounted
<1>4. CASE c # NoConn
  <2>1. c \in Conns /\ con[c].addr = a /\ con[c]["svr"].up
    BY <1>4, SessionIs
  <2>2. PICK p \in Gate("svr", c, f, len) :
              IF TooBig(p, len, con[c]["svr"].mss)
              THEN AnswerTooBig("svr", c, p, f, len)
              ELSE IF ttl <= 1
                   THEN /\ KeepTable("svr", c, p)
                        /\ Icmp("svr", [kind |-> "expired"])
                        /\ UNCHANGED <<bp, paused, hist>>
                   ELSE SendDatagram("svr", c, p, f, Datagram("svr", c, p, f, a, ttl - 1))
    BY <1>4 DEF ServerTunPacket
  <2> HIDE DEF c
  <2>3. Peeked(p, con[c]["svr"].tab, f) /\ (p.act = "stamp" => con[c]["svr"].eng /\ con[c]["svr"].peer)
    BY <1>2, <2>1, GateIs
  <2>4. CASE AnswerTooBig("svr", c, p, f, len)
    <3>1. KeepTable("svr", c, p) /\ UNCHANGED <<bp, paused, hist>>
      BY <2>4 DEF AnswerTooBig
    <3>2. \E answer : Icmp("svr", answer)
      BY <2>4 DEF AnswerTooBig
    <3> QED BY <1>1, <1>2, <2>1, <2>3, <3>1, <3>2, AnsweredKeeps
  <2>5. CASE KeepTable("svr", c, p) /\ Icmp("svr", [kind |-> "expired"]) /\ UNCHANGED <<bp, paused, hist>>
    BY <1>1, <1>2, <2>1, <2>3, <2>5, AnsweredKeeps
  <2>6. CASE ttl > 1 /\ SendDatagram("svr", c, p, f, Datagram("svr", c, p, f, a, ttl - 1))
    <3>1. ttl - 1 \in Nat /\ \E m \in Ttls : ttl - 1 <= m
      BY <1>2, <2>6
    <3> QED BY <1>1, <1>2, <2>1, <2>3, <2>6, <3>1, SendDatagramKeeps
  <2> QED BY <1>2, <2>2, <2>4, <2>5, <2>6
<1> QED BY <1>3, <1>4

-----------------------------------------------------------------------------
(* Deliveries, room, the end of a connection, time *)

LEMMA DeliveredInv ==
  ASSUME DataInv, NEW xs \in SUBSET hist
  PROVE  LET k == Delivered(hist, xs) IN
         /\ k \in SUBSET PktType /\ \A y \in k : Travels(y, con, n, now)
         /\ \A y, w \in k : y.id = w.id => y = w
         /\ Numbered(con, k, now)
<1> DEFINE k == Delivered(hist, xs)
<1>1. hist \in SUBSET PktType
  BY DEF DataInv, World
<1>2. k \in SUBSET PktType /\ Copied(hist, k) /\ Copied(k, hist)
  BY <1>1, DeliveredCopies
<1>3. \A x \in hist : Same(x, Done(x)) /\ Done(x).done = TRUE /\ Same(x, x)
  BY <1>1, DoneIs
<1>a. \A y \in k : \E x \in hist : Same(x, y) /\ (IF x \in xs THEN y = Done(x) ELSE y = x)
  BY <1>3, DeliveredIs
<1> HIDE DEF k
<1>4. ASSUME NEW y \in k
      PROVE  Travels(y, con, n, now)
  <2>1. PICK x \in hist : Same(x, y) /\ (IF x \in xs THEN y = Done(x) ELSE y = x)
    BY <1>a
  <2>2. Travels(x, con, n, now)
    BY DEF DataInv
  <2> QED BY <1>3, <2>1, <2>2 DEF Same, Travels
<1>5. \A y, w \in k : y.id = w.id => y = w
  <2> SUFFICES ASSUME NEW y \in k, NEW w \in k, y.id = w.id PROVE y = w
    OBVIOUS
  <2>1. PICK x \in hist : Same(x, y) /\ (IF x \in xs THEN y = Done(x) ELSE y = x)
    BY <1>a
  <2>2. PICK v \in hist : Same(v, w) /\ (IF v \in xs THEN w = Done(v) ELSE w = v)
    BY <1>a
  <2>3. x = v
    BY <2>1, <2>2 DEF Same, DataInv
  <2> QED BY <2>1, <2>2, <2>3
<1>6. \A x \in k : Counted(x, k)
  BY <1>2, CountedCopy DEF DataInv, Numbered
<1>7. ASSUME NEW c \in Conns, NEW e \in Ends, con[c][e].up, NEW f \in Flows
      PROVE  Agrees(con[c][e].tab[f], SentOf(k, e, c, f), now)
  <2>1. Agrees(con[c][e].tab[f], SentOf(hist, e, c, f), now)
    BY <1>7 DEF DataInv, Numbered
  <2> QED BY <1>2, <2>1, AgreesCopy
<1>8. Numbered(con, k, now)
  BY <1>6, <1>7 DEF Numbered
<1> QED BY <1>2, <1>4, <1>5, <1>8 DEF k

LEMMA DgramReadInv == ASSUME DataInv, NEW x \in hist, DgramRead(x) PROVE DataInv'
<1>1. hist' = Delivered(hist, {x}) /\ UNCHANGED <<con, bp, paused, mtu, n, now>>
  BY DEF DgramRead
<1>a. tokens' = tokens \/ \E answer : Icmp("svr", answer)
  BY DEF DgramRead, ForwardInner
<1>b. tokens' \in [Ends -> 0..PtbLimit]
  BY <1>a, IcmpTokens DEF DataInv, World, Ends
<1>2. /\ hist' \in SUBSET PktType /\ \A y \in hist' : Travels(y, con, n, now)
      /\ \A y, w \in hist' : y.id = w.id => y = w
      /\ Numbered(con, hist', now)
  BY <1>1, DeliveredInv
<1>3. World'
  BY <1>1, <1>2, <1>b DEF DataInv, World
<1> QED BY <1>1, <1>2, <1>3 DEF DataInv

LEMMA DgramWriteInv == ASSUME DataInv, NEW e \in Ends, NEW c \in Conns, DgramWrite(e, c) PROVE DataInv'
<1> DEFINE z == [con[c][e] EXCEPT !.owed = FALSE]
<1>1. con' = [con EXCEPT ![c][e] = z]
  BY DEF DgramWrite
<1>2. con[c][e] \in EndType /\ Fits(con[c][e].tab)
  BY ConEnd DEF DataInv, World
<1>3. z \in EndType /\ z.tab = con[c][e].tab /\ z.up = con[c][e].up /\ z.eng = con[c][e].eng /\ z.peer = con[c][e].peer
  BY <1>2 DEF EndType
<1> HIDE DEF z
<1>a. n' = n /\ now' = now /\ hist' = hist /\ n \in Nat /\ n <= n
  BY DEF DgramWrite, DataInv, World
<1>b. bp' \in [Clients -> BOOLEAN] /\ paused' \in BOOLEAN
  BY DEF DgramWrite, DataInv, World
<1>4. Others
  BY <1>b DEF DgramWrite, Others, DataInv, World
<1>5. z.up => \A f \in Flows : Agrees(z.tab[f], SentOf(hist, e, c, f), now)
  BY <1>3 DEF DataInv, Numbered
<1> QED BY <1>1, <1>2, <1>3, <1>4, <1>5, <1>a, EndMoves

(* The sizes the code allows keep the MTU of the TUN a natural number. *)
LEMMA MtuTyped ==
  ASSUME NEW k, NEW m \in Nat
  PROVE  FirstMtu(k, m) \in Nat /\ (m >= MinMtu => Capped(Floor6(k, m)) \in Nat)
<1>1. Hdr \in Nat /\ MinMtu \in Nat /\ MinV6 \in Nat /\ MtuCap \in Nat /\ Hdr <= MinMtu /\ MinMtu <= MinV6
      /\ (MtuCap = 0 \/ MinMtu <= MtuCap)
  BY PathAssumption, TxAssumption
<1>2. \A i \in Nat : i >= MinMtu => Floor6(k, i) \in Nat /\ Floor6(k, i) >= MinMtu
  BY <1>1 DEF Floor6
<1>3. \A i \in Nat : i >= MinMtu => Capped(i) \in Nat /\ Capped(i) >= MinMtu
  BY <1>1 DEF Capped, Least
<1> DEFINE i == IF m >= MinMtu THEN m ELSE MinV6
           room == Capped(Floor6(k, i))
<1>4. i \in Nat /\ i >= MinMtu
  BY <1>1
<1>5. room \in Nat /\ room >= MinMtu
  BY <1>2, <1>3, <1>4
<1>6. FirstMtu(k, m) = IF Mode # "off" THEN Floor6(k, room - Hdr) ELSE room
  BY DEF FirstMtu
<1> HIDE DEF room
<1>7. FirstMtu(k, m) \in Nat
  BY <1>1, <1>5, <1>6 DEF Floor6
<1> QED BY <1>2, <1>3, <1>7

LEMMA MssUpdatedInv == ASSUME DataInv, NEW e \in Ends, NEW c \in Conns, NEW m \in MssVals, MssUpdated(e, c, m) PROVE DataInv'
<1> DEFINE z == [con[c][e] EXCEPT !.mss = m]
<1>0. m \in Nat
  BY PathAssumption
<1>1. con' = [con EXCEPT ![c][e] = z]
  BY DEF MssUpdated
<1>2. con[c][e] \in EndType /\ Fits(con[c][e].tab)
  BY ConEnd DEF DataInv, World
<1>3. z \in EndType /\ z.tab = con[c][e].tab /\ z.up = con[c][e].up /\ z.eng = con[c][e].eng /\ z.peer = con[c][e].peer
  BY <1>0, <1>2 DEF EndType
<1> HIDE DEF z
<1>4. n' = n /\ now' = now /\ hist' = hist /\ n \in Nat /\ n <= n
  BY DEF MssUpdated, DataInv, World
<1>5. mtu' \in [Clients -> Nat]
  BY <1>0, MtuTyped DEF MssUpdated, DataInv, World
<1>6. Others
  BY <1>5 DEF MssUpdated, Others, DataInv, World
<1>7. z.up => \A f \in Flows : Agrees(z.tab[f], SentOf(hist, e, c, f), now)
  BY <1>3 DEF DataInv, Numbered
<1> QED BY <1>1, <1>2, <1>3, <1>4, <1>6, <1>7, EndMoves

LEMMA NewEndIs ==
  /\ NewEnd \in EndType /\ NewEnd.up = FALSE /\ NewEnd.eng = FALSE /\ NewEnd.peer = FALSE /\ NewEnd.tab = EmptyTable
BY FlowsTyped DEF NewEnd, EndType

(* The history without the connection c, of which both ends are gone. *)
LEMMA DroppedInv ==
  ASSUME DataInv, NEW c \in Conns, NEW k, k = {x \in hist : x.c # c}
  PROVE  /\ \A x \in k : Counted(x, k)
         /\ \A d \in Conns \ {c}, e \in Ends, f \in Flows : SentOf(k, e, d, f) = SentOf(hist, e, d, f)
<1>1. \A x \in k : Before(x, k) = Before(x, hist) /\ Counted(x, hist)
  BY DEF Before, DataInv, Numbered
<1>2. \A x \in k : Counted(x, k)
  BY <1>1 DEF Counted
<1> QED BY <1>2 DEF SentOf

LEMMA ClosedInv == ASSUME DataInv, NEW e \in Ends, NEW c \in Conns, Closed(e, c) PROVE DataInv'
<1> DEFINE z == [NewEnd EXCEPT !.eng = con[c][e].eng, !.owed = con[c][e].owed]
<1>0. con' = [con EXCEPT ![c][e] = z] /\ UNCHANGED <<bp, paused, mtu, tokens, n, now>> /\ World
  BY DEF Closed, DataInv
<1>1. con[c][e] \in EndType /\ con[c][e].eng \in BOOLEAN /\ con[c][e].owed \in BOOLEAN
  BY <1>0, ConEnd DEF World, EndType
<1>2. z \in EndType /\ z.tab = EmptyTable /\ z.up = FALSE /\ z.eng = con[c][e].eng /\ z.peer = FALSE
  BY <1>1, NewEndIs DEF EndType
<1> HIDE DEF z
<1>3. /\ con' \in [Conns -> ConType]
      /\ con'[c][e] = z /\ con'[c][Peer(e)] = con[c][Peer(e)]
      /\ con'[c].owner = con[c].owner /\ con'[c].addr = con[c].addr
      /\ \A d \in Conns \ {c} : con'[d] = con[d]
  BY <1>0, <1>2, OneEnd DEF World
<1>4. \A x \in Ends : x = e \/ x = Peer(e)
  BY DEF Ends, Peer
<1>5. \A d \in Conns, x \in Ends : /\ con'[d].owner = con[d].owner /\ con'[d].addr = con[d].addr
                                   /\ con'[d][x].eng = con[d][x].eng
                                   /\ con'[d][x].up => con[d][x].up /\ con'[d][x] = con[d][x]
                                   /\ con'[d][x].peer => con[d][x].peer
                                   /\ Fits(con'[d][x].tab)
  BY <1>0, <1>2, <1>3, <1>4, EmptyFits DEF World
<1>6. Negotiated(con')
  BY <1>5, PeerEnds DEF DataInv, Negotiated, Ends
<1>7. ASSUME NEW x \in PktType, Travels(x, con, n, now)
      PROVE  Travels(x, con', n', now')
  <2>1. x.c \in Conns /\ x.e \in Ends /\ Peer(x.e) \in Ends
    BY PeerEnds DEF PktType
  <2> QED BY <1>0, <1>5, <1>7, <2>1 DEF Travels
<1>8. CASE con[c][Peer(e)].up
  <2>1. hist' = Delivered(hist, {x \in hist : x.c = c /\ x.e = Peer(e)})
    BY <1>8 DEF Closed
  <2>2. /\ hist' \in SUBSET PktType /\ \A y \in hist' : Travels(y, con, n, now)
        /\ \A y, w \in hist' : y.id = w.id => y = w
        /\ Numbered(con, hist', now)
    BY <2>1, DeliveredInv
  <2>3. World'
    BY <1>0, <1>3, <1>5, <2>2 DEF World
  <2>4. Numbered(con', hist', now')
    BY <1>0, <1>5, <2>2 DEF Numbered
  <2>5. \A y \in hist' : Travels(y, con', n', now')
    BY <1>7, <2>2
  <2> QED BY <1>6, <2>2, <2>3, <2>4, <2>5 DEF DataInv
<1>9. CASE ~con[c][Peer(e)].up
  <2>1. hist' = {x \in hist : x.c # c}
    BY <1>9 DEF Closed
  <2>2. /\ \A x \in hist' : Counted(x, hist')
        /\ \A d \in Conns \ {c}, x \in Ends, f \in Flows : SentOf(hist', x, d, f) = SentOf(hist, x, d, f)
    BY <2>1, DroppedInv
  <2>3. World'
    BY <1>0, <1>3, <1>5, <2>1 DEF World
  <2>4. \A x \in Ends : ~con'[c][x].up
    BY <1>2, <1>3, <1>4, <1>9
  <2>5. \A d \in Conns, x \in Ends : con'[d][x].up => \A f \in Flows : Agrees(con'[d][x].tab[f], SentOf(hist', x, d, f), now)
    BY <1>5, <2>2, <2>4 DEF DataInv, Numbered
  <2>6. Numbered(con', hist', now')
    BY <1>0, <2>2, <2>5 DEF Numbered
  <2>7. \A y \in hist' : Travels(y, con', n', now')
    BY <1>0, <1>7, <2>1 DEF DataInv, World
  <2> QED BY <1>6, <2>1, <2>3, <2>6, <2>7 DEF DataInv
<1> QED BY <1>8, <1>9

LEMMA ElapseInv == ASSUME DataInv, Elapse PROVE DataInv'
<1>0. World /\ UNCHANGED <<bp, paused, mtu, hist, n>> /\ now' = now + 1 /\ tokens' = [e \in Ends |-> PtbLimit]
  BY DEF Elapse, DataInv
<1>1. n \in Nat /\ now \in Nat /\ now' \in Nat /\ now <= now' /\ PtbLimit \in Nat
  BY <1>0, PathAssumption DEF World
<1>2. ASSUME NEW c \in Conns
      PROVE  /\ con'[c] \in ConType /\ con'[c].owner = con[c].owner /\ con'[c].addr = con[c].addr
             /\ \A e \in Ends : /\ con'[c][e].up = con[c][e].up /\ con'[c][e].eng = con[c][e].eng
                                /\ con'[c][e].peer = con[c][e].peer /\ con'[c][e].tab = Aged(con[c][e].tab)
  <2>1. con[c] \in ConType /\ con[c].cli \in EndType /\ con[c].svr \in EndType
    BY <1>0 DEF World, ConType
  <2>2. Aged(con[c].cli.tab) \in TableType /\ Aged(con[c].svr.tab) \in TableType
    <3>1. Fits(con[c]["cli"].tab) /\ Fits(con[c]["svr"].tab)
      BY <1>0 DEF World, Ends
    <3> QED BY <2>1, <3>1, AgedIs DEF EndType
  <2>3. con'[c] = [con[c] EXCEPT !.cli.tab = Aged(@), !.svr.tab = Aged(@)]
    BY DEF Elapse
  <2>4. /\ con'[c].owner = con[c].owner /\ con'[c].addr = con[c].addr
        /\ con'[c].cli = [con[c].cli EXCEPT !.tab = Aged(con[c].cli.tab)]
        /\ con'[c].svr = [con[c].svr EXCEPT !.tab = Aged(con[c].svr.tab)]
    BY <2>1, <2>3 DEF ConType
  <2>5. [con[c].cli EXCEPT !.tab = Aged(con[c].cli.tab)] \in EndType /\ [con[c].svr EXCEPT !.tab = Aged(con[c].svr.tab)] \in EndType
    BY <2>1, <2>2 DEF EndType
  <2>6. con'[c] \in ConType
    <3> DEFINE y == [con[c].cli EXCEPT !.tab = Aged(con[c].cli.tab)]
               z == [con[c].svr EXCEPT !.tab = Aged(con[c].svr.tab)]
    <3>1. con'[c] = [con[c] EXCEPT !.cli = y, !.svr = z]
      BY <2>1, <2>3 DEF ConType
    <3>2. y \in EndType /\ z \in EndType
      BY <2>5
    <3> HIDE DEF y, z
    <3> QED BY <2>1, <3>1, <3>2 DEF ConType
  <2>7. \A e \in Ends : con'[c][e] = [con[c][e] EXCEPT !.tab = Aged(con[c][e].tab)]
    BY <2>4 DEF Ends
  <2>8. \A e \in Ends : con[c][e] \in EndType
    BY <2>1 DEF Ends
  <2> QED BY <2>4, <2>6, <2>7, <2>8 DEF EndType
<1>3. con' \in [Conns -> ConType] /\ Alike(con, con')
  <2>1. con' \in [Conns -> ConType]
    BY <1>2 DEF Elapse
  <2> QED BY <1>2, <2>1 DEF Alike
<1>4. \A c \in Conns, e \in Ends :
        /\ Fits(con'[c][e].tab)
        /\ \A f \in Flows : LET g == con[c][e].tab[f]
                                h == con'[c][e].tab[f]
                            IN  h.live = g.live /\ h.seq = g.seq /\ h.marks = g.marks /\ h.idle <= g.idle + 1 /\ h.idle \in Nat
  <2> SUFFICES ASSUME NEW c \in Conns, NEW e \in Ends
               PROVE  /\ Fits(Aged(con[c][e].tab))
                      /\ \A f \in Flows : LET g == con[c][e].tab[f]
                                              h == Aged(con[c][e].tab)[f]
                                          IN  h.live = g.live /\ h.seq = g.seq /\ h.marks = g.marks /\ h.idle <= g.idle + 1 /\ h.idle \in Nat
    BY <1>2
  <2>1. con[c][e].tab \in TableType /\ Fits(con[c][e].tab)
    BY <1>0, ConEnd DEF World, EndType
  <2> QED BY <2>1, AgedIs
<1>5. World'
  <2>1. tokens' \in [Ends -> 0..PtbLimit]
    BY <1>0, <1>1
  <2> QED BY <1>0, <1>1, <1>3, <1>4, <2>1 DEF World
<1>6. Negotiated(con')
  BY <1>3, AlikeKeeps DEF DataInv
<1>7. \A x \in hist' : Travels(x, con', n', now')
  <2> SUFFICES ASSUME NEW x \in hist PROVE Travels(x, con', n, now')
    BY <1>0
  <2>1. x \in PktType /\ Travels(x, con, n, now)
    BY <1>0 DEF DataInv, World
  <2>2. Travels(x, con', n, now)
    BY <1>1, <1>3, <2>1, AlikeKeeps
  <2> QED BY <1>1, <2>1, <2>2, TravelsOn
<1>8. ASSUME NEW c \in Conns, NEW e \in Ends, con'[c][e].up, NEW f \in Flows
      PROVE  Agrees(con'[c][e].tab[f], SentOf(hist', e, c, f), now')
  <2> DEFINE g == con[c][e].tab[f]
             h == con'[c][e].tab[f]
             S == SentOf(hist, e, c, f)
  <2>1. Agrees(g, S, now)
    BY <1>2, <1>8 DEF DataInv, Numbered
  <2>2. h.live = g.live /\ h.seq = g.seq /\ h.marks = g.marks /\ h.idle <= g.idle + 1 /\ h.idle \in Nat
    BY <1>4
  <2>3. g \in FlowType
    BY <1>0, ConEnd, FlowsTyped DEF World, EndType
  <2>4. \A z \in S : z.at \in Nat
    BY <1>0 DEF World, PktType, SentOf
  <2> HIDE DEF g, h, S
  <2>5. h.live => /\ h.marks = IF h.seq < ResetMarks THEN ResetMarks - h.seq ELSE 0
                  /\ \A z \in S : h.idle <= now' - z.at
    BY <1>0, <1>1, <2>1, <2>2, <2>3, <2>4 DEF Agrees, FlowType
  <2>6. ~h.live \/ h.seq = 0 => \A z \in S : now' - z.at > IdleTicks
    BY <1>0, <1>1, <2>1, <2>2, <2>4, TxAssumption DEF Agrees
  <2>7. h.live /\ h.seq # 0 => \E y \in S : y.seq = h.seq - 1 /\ \A z \in S : z.id <= y.id
    BY <2>1, <2>2 DEF Agrees
  <2>8. Agrees(h, S, now')
    BY <2>5, <2>6, <2>7 DEF Agrees
  <2> QED BY <1>0, <2>8 DEF h, S
<1>9. Numbered(con', hist', now')
  BY <1>0, <1>8 DEF DataInv, Numbered
<1> QED BY <1>0, <1>5, <1>6, <1>7, <1>9 DEF DataInv

LEMMA ConnectInv ==
  ASSUME DataInv, NEW k \in Clients, NEW c \in Conns, NEW a \in Addrs, NEW ce \in BOOLEAN, NEW se \in BOOLEAN,
         NEW m \in MssVals, Connect(k, c, a, ce, se, m)
  PROVE  DataInv'
<1> DEFINE oc == Mode # "off" /\ ce
           os == Mode # "off" /\ se
           y == [NewEnd EXCEPT !.up = TRUE, !.eng = oc, !.peer = (os /\ oc), !.mss = m]
           z == [NewEnd EXCEPT !.up = TRUE, !.eng = os, !.peer = oc, !.mss = m]
           r == [owner |-> k, addr |-> a, cli |-> y, svr |-> z]
<1>0. /\ World /\ con[c].owner = NoClient /\ mtu' = [mtu EXCEPT ![k] = FirstMtu(k, m)]
      /\ UNCHANGED <<bp, paused, tokens, hist, n, now>>
  BY DEF Connect, DataInv
<1>1. con' = [con EXCEPT ![c] = r]
  BY DEF Connect, ShouldAdvertise
<1>2. m \in Nat /\ oc \in BOOLEAN /\ os \in BOOLEAN
  BY PathAssumption
<1> HIDE DEF oc, os
<1>3. /\ y \in EndType /\ y.up = TRUE /\ y.eng = oc /\ y.peer = (os /\ oc) /\ y.tab = EmptyTable
      /\ z \in EndType /\ z.up = TRUE /\ z.eng = os /\ z.peer = oc /\ z.tab = EmptyTable
  BY <1>2, NewEndIs DEF EndType
<1> HIDE DEF y, z
<1>4. r \in ConType /\ r.owner = k /\ r.addr = a /\ r.cli = y /\ r.svr = z
  BY <1>3 DEF ConType
<1>5. /\ con' \in [Conns -> ConType] /\ con'[c] = r /\ \A d \in Conns \ {c} : con'[d] = con[d]
  BY <1>0, <1>1, <1>4 DEF World
<1> HIDE DEF r
<1>6. \A d \in Conns, e \in Ends : Fits(con'[d][e].tab)
  BY <1>0, <1>3, <1>4, <1>5, EmptyFits DEF World, Ends
<1>7. World'
  <2>1. mtu' \in [Clients -> Nat]
    BY <1>0, <1>2, MtuTyped DEF World
  <2> QED BY <1>0, <1>5, <1>6, <2>1 DEF World
<1>8. k # NoClient
  BY PathAssumption
<1>9. Negotiated(con')
  <2>1. \A d \in Conns, e \in Ends : con'[d][e].peer => con'[d][Peer(e)].eng
    <3> SUFFICES ASSUME NEW d \in Conns, NEW e \in Ends, con'[d][e].peer PROVE con'[d][Peer(e)].eng
      OBVIOUS
    <3>1. CASE d = c
      BY <1>3, <1>4, <1>5, <3>1 DEF Ends, Peer
    <3>2. CASE d # c
      BY <1>5, <3>2 DEF DataInv, Negotiated
    <3> QED BY <3>1, <3>2
  <2>2. \A d \in Conns, e \in Ends : con'[d][e].up => con'[d].owner # NoClient
    BY <1>4, <1>5, <1>8 DEF DataInv, Negotiated
  <2> QED BY <2>1, <2>2 DEF Negotiated
<1>10. \A x \in hist : x.c # c /\ x.c \in Conns /\ x.e \in Ends /\ Travels(x, con, n, now)
  BY <1>0 DEF DataInv, Travels, World, PktType
<1>11. \A x \in hist' : Travels(x, con', n', now')
  BY <1>0, <1>5, <1>10 DEF Travels
<1>12. ASSUME NEW d \in Conns, NEW e \in Ends, con'[d][e].up, NEW f \in Flows
       PROVE  Agrees(con'[d][e].tab[f], SentOf(hist, e, d, f), now)
  <2>1. CASE d = c
    <3>1. SentOf(hist, e, d, f) = {}
      BY <1>10, <2>1 DEF SentOf
    <3>2. con'[d][e].tab[f] = NoSendFlow
      BY <1>3, <1>4, <1>5, <2>1 DEF Ends, EmptyTable
    <3> QED BY <3>1, <3>2, FlowsTyped DEF Agrees
  <2>2. CASE d # c
    BY <1>5, <1>12, <2>2 DEF DataInv, Numbered
  <2> QED BY <2>1, <2>2
<1>13. Numbered(con', hist', now')
  BY <1>0, <1>12 DEF DataInv, Numbered
<1> QED BY <1>0, <1>7, <1>9, <1>11, <1>13 DEF DataInv

LEMMA InitInv == Init => DataInv
<1> SUFFICES ASSUME Init PROVE DataInv
  OBVIOUS
<1> DEFINE r == [owner |-> NoClient, addr |-> 0, cli |-> NewEnd, svr |-> NewEnd]
<1>1. r \in ConType /\ r["cli"] = NewEnd /\ r["svr"] = NewEnd
  BY NewEndIs DEF ConType
<1>2. con = [c \in Conns |-> r]
  BY DEF Init
<1> HIDE DEF r
<1>3. con \in [Conns -> ConType] /\ \A c \in Conns, e \in Ends : con[c][e] = NewEnd
  BY <1>1, <1>2 DEF Ends
<1>4. World
  <2>1. tokens \in [Ends -> 0..PtbLimit]
    BY PathAssumption DEF Init
  <2>2. \A c \in Conns, e \in Ends : Fits(con[c][e].tab)
    BY <1>3, NewEndIs, EmptyFits
  <2> QED BY <1>3, <2>1, <2>2 DEF Init, World
<1>5. Negotiated(con)
  BY <1>3, NewEndIs DEF Negotiated, Ends
<1>6. Numbered(con, hist, now)
  BY <1>3, NewEndIs DEF Init, Numbered
<1> QED BY <1>4, <1>5, <1>6 DEF Init, DataInv

-----------------------------------------------------------------------------
(* The session table and the latches *)

(* Owner, address and liveness of the connections are the same in dn.      *)
SameCon(cn, dn) ==
    \A c \in Conns : /\ dn[c].owner = cn[c].owner /\ dn[c].addr = cn[c].addr
                     /\ \A e \in Ends : dn[c][e].up = cn[c][e].up

SameOwed(cn, dn) == \A c \in Conns, e \in Ends : dn[c][e].owed = cn[c][e].owed

(* End e of c alone changes whether it owes a notification: to b. *)
Owes(cn, dn, e, c, b) ==
    /\ dn[c][e].owed = b
    /\ \A d \in Conns, x \in Ends : d # c \/ x # e => dn[d][x].owed = cn[d][x].owed

(* The latch of the connection's end is set or released. *)
Latched(e, c, b) ==
    IF e = "cli" THEN bp' = [bp EXCEPT ![con[c].owner] = b] /\ paused' = paused
                 ELSE paused' = b /\ bp' = bp

(* At most one connection behind a latch owes a notification. *)
StopInv ==
    /\ StopOwed
    /\ \A c \in Conns, e \in Ends : con[c][e].owed => con[c].owner \in Clients
    /\ \A c, d \in Conns : con[c]["svr"].owed /\ con[d]["svr"].owed => c = d
    /\ \A c, d \in Conns : con[c]["cli"].owed /\ con[d]["cli"].owed /\ con[c].owner = con[d].owner => c = d

LEMMA SessKept ==
  ASSUME SessInv, SameCon(con, con'), UNCHANGED <<sessions, nSessions>>
  PROVE  SessInv'
BY DEF SessInv, SameCon, Ends

LEMMA StopKept ==
  ASSUME StopInv, SameCon(con, con'), SameOwed(con, con'), UNCHANGED <<bp, paused>>
  PROVE  StopInv'
BY DEF StopInv, StopOwed, SameCon, SameOwed, Ends

LEMMA EndSet ==
  ASSUME con \in [Conns -> ConType], NEW c \in Conns, NEW e \in Ends, NEW z, con' = [con EXCEPT ![c][e] = z]
  PROVE  /\ con'[c][e] = z
         /\ \A d \in Conns, x \in Ends : d # c \/ x # e => con'[d][x] = con[d][x]
         /\ \A d \in Conns : con'[d].owner = con[d].owner /\ con'[d].addr = con[d].addr
<1>1. CASE e = "cli"
  BY <1>1 DEF ConType, Ends
<1>2. CASE e = "svr"
  BY <1>2 DEF ConType, Ends
<1> QED BY <1>1, <1>2 DEF Ends

LEMMA EndSame ==
  ASSUME con \in [Conns -> ConType], NEW c \in Conns, NEW e \in Ends, NEW z, con' = [con EXCEPT ![c][e] = z], z.up = con[c][e].up
  PROVE  /\ SameCon(con, con') /\ (z.owed = con[c][e].owed => SameOwed(con, con'))
         /\ \A b : z.owed = b => Owes(con, con', e, c, b)
<1>1. /\ con'[c][e] = z
      /\ \A d \in Conns, x \in Ends : d # c \/ x # e => con'[d][x] = con[d][x]
      /\ \A d \in Conns : con'[d].owner = con[d].owner /\ con'[d].addr = con[d].addr
  BY EndSet, Zenon
<1> QED BY <1>1 DEF SameCon, SameOwed, Owes

LEMMA TabSame ==
  ASSUME con \in [Conns -> ConType], NEW c \in Conns, NEW e \in Ends, NEW t, con' = [con EXCEPT ![c][e].tab = t]
  PROVE  SameCon(con, con') /\ SameOwed(con, con')
<1> DEFINE z == [con[c][e] EXCEPT !.tab = t]
<1>1. con' = [con EXCEPT ![c][e] = z]
  OBVIOUS
<1>2. con[c][e] \in EndType
  BY ConEnd
<1>3. z.up = con[c][e].up /\ z.owed = con[c][e].owed
  BY <1>2 DEF EndType
<1> HIDE DEF z
<1> QED BY <1>1, <1>3, EndSame

(* A packet read from a TUN leaves the connections as they are, or is      *)
(* refused, which stops the reader.                                        *)
LEMMA TunSteps ==
  ASSUME DataInv, SessInv, NEW f \in Flows, NEW len \in Lens, NEW a \in Addrs, NEW ttl \in Ttls,
         ServerTunPacket(f, len, a, ttl) \/ \E k \in Clients : ClientTunPacket(k, f, len, a, ttl)
  PROVE  /\ SameCon(con, con') /\ UNCHANGED <<sessions, nSessions>>
         /\ \/ SameOwed(con, con') /\ UNCHANGED <<bp, paused>>
            \/ \E c \in Conns, e \in Ends :
                  /\ con[c][e].up /\ Owes(con, con', e, c, TRUE) /\ Latched(e, c, TRUE)
                  /\ IF e = "cli" THEN con[c].owner \in Clients /\ ~bp[con[c].owner] ELSE ~paused
<1> DEFINE Goal == /\ SameCon(con, con')
                   /\ \/ SameOwed(con, con') /\ UNCHANGED <<bp, paused>>
                      \/ \E c \in Conns, e \in Ends :
                            /\ con[c][e].up /\ Owes(con, con', e, c, TRUE) /\ Latched(e, c, TRUE)
                            /\ IF e = "cli" THEN con[c].owner \in Clients /\ ~bp[con[c].owner] ELSE ~paused
<1>0. con \in [Conns -> ConType]
  BY DEF DataInv, World
<1>a. "cli" \in Ends /\ "svr" \in Ends
  BY DEF Ends
<1>1. ASSUME NEW c \in Conns, NEW e \in Ends, NEW p, KeepTable(e, c, p), UNCHANGED <<bp, paused>>
      PROVE  Goal
  BY <1>0, <1>1, TabSame DEF KeepTable
<1>2. ASSUME NEW c \in Conns, NEW e \in Ends, con[c][e].up, NEW p, NEW x, SendDatagram(e, c, p, f, x),
             IF e = "cli" THEN con[c].owner \in Clients /\ ~bp[con[c].owner] ELSE ~paused
      PROVE  Goal
  <2>1. CASE Send(e, c, p, f, x)
    <3>1. SameCon(con, con') /\ SameOwed(con, con')
      BY <1>0, <2>1, TabSame DEF Send
    <3> QED BY <2>1, <3>1 DEF Send
  <2>2. CASE KeepTable(e, c, p) /\ UNCHANGED <<bp, paused, hist>>
    BY <1>1, <2>2
  <2>3. CASE Refused(e, c, p, f)
    <3> DEFINE z == [con[c][e] EXCEPT !.tab = p.tab, !.owed = TRUE]
    <3>1. con' = [con EXCEPT ![c][e] = z] /\ Latched(e, c, TRUE)
      BY <2>3 DEF Refused, Latched
    <3>2. con[c][e] \in EndType
      BY <1>0, ConEnd
    <3>3. z.up = con[c][e].up /\ z.owed = TRUE
      BY <3>2 DEF EndType
    <3> HIDE DEF z
    <3>4. SameCon(con, con') /\ Owes(con, con', e, c, TRUE)
      BY <1>0, <3>1, <3>3, EndSame
    <3> QED BY <1>2, <3>1, <3>4
  <2> QED BY <1>2, <2>1, <2>2, <2>3 DEF SendDatagram
<1>3. ASSUME con' = con, UNCHANGED <<bp, paused>>
      PROVE  Goal
  BY <1>3 DEF SameCon, SameOwed
<1>4. ASSUME NEW k \in Clients, ClientTunPacket(k, f, len, a, ttl)
      PROVE  Goal
  <2> DEFINE c == ConnOf(k)
  <2>1. ClientReads(k)
    BY <1>4 DEF ClientTunPacket
  <2>2. c \in Conns /\ con[c]["cli"].up /\ con[c].owner = k /\ ~bp[k]
    BY <2>1, ConnOfIs DEF ClientReads
  <2>3. \/ con' = con /\ UNCHANGED <<bp, paused>>
        \/ \E p : KeepTable("cli", c, p) /\ UNCHANGED <<bp, paused>>
        \/ \E p, x : SendDatagram("cli", c, p, f, x)
    BY <1>4 DEF ClientTunPacket, AnswerTooBig
  <2> HIDE DEF c, Goal
  <2> QED BY <1>1, <1>2, <1>3, <1>a, <2>2, <2>3
<1>5. ASSUME ServerTunPacket(f, len, a, ttl)
      PROVE  Goal
  <2> DEFINE c == sessions[a]
  <2>1. ~paused
    BY <1>5 DEF ServerTunPacket, ServerReads
  <2>2. CASE c = NoConn
    <3>1. con' = con /\ UNCHANGED <<bp, paused>>
      BY <1>5, <2>2 DEF ServerTunPacket
    <3> HIDE DEF Goal
    <3> QED BY <1>3, <3>1
  <2>3. CASE c # NoConn
    <3>1. c \in Conns /\ con[c]["svr"].up
      BY <2>3, SessionIs
    <3>2. \/ \E p : KeepTable("svr", c, p) /\ UNCHANGED <<bp, paused>>
          \/ \E p, x : SendDatagram("svr", c, p, f, x)
      BY <1>5, <2>3 DEF ServerTunPacket, AnswerTooBig
    <3> HIDE DEF c, Goal
    <3> QED BY <1>1, <1>2, <1>a, <2>1, <3>1, <3>2
  <2> QED BY <2>2, <2>3
<1>6. UNCHANGED <<sessions, nSessions>>
  BY DEF ClientTunPacket, ServerTunPacket
<1>7. Goal
  BY <1>4, <1>5
<1> QED BY <1>6, <1>7

LEMMA StopSet ==
  ASSUME DataInv, StopInv, SameCon(con, con'), NEW c \in Conns, NEW e \in Ends, con[c][e].up,
         Owes(con, con', e, c, TRUE), Latched(e, c, TRUE),
         IF e = "cli" THEN con[c].owner \in Clients /\ ~bp[con[c].owner] ELSE ~paused
  PROVE  StopInv'
<1>0. con[c].owner \in Clients \cup {NoClient} /\ con[c].owner # NoClient /\ bp \in [Clients -> BOOLEAN] /\ paused \in BOOLEAN
  BY DEF DataInv, World, ConType, Negotiated
<1>1. CASE e = "cli"
  <2>1. \A d \in Conns : con'[d]["svr"].owed = con[d]["svr"].owed /\ con'[d].owner = con[d].owner
    BY <1>1 DEF Owes, SameCon, Ends
  <2>2. con'[c]["cli"].owed = TRUE /\ \A d \in Conns \ {c} : con'[d]["cli"].owed = con[d]["cli"].owed
    BY <1>1 DEF Owes, Ends
  <2>3. \A d \in Conns : con[d].owner = con[c].owner => ~con[d]["cli"].owed
    BY <1>1 DEF StopInv, StopOwed
  <2>4. bp' = [bp EXCEPT ![con[c].owner] = TRUE] /\ paused' = paused
    BY <1>1 DEF Latched
  <2>5. \A k \in Clients : bp'[k] <=> \E d \in Conns : con'[d].owner = k /\ con'[d]["cli"].owed
    <3> SUFFICES ASSUME NEW k \in Clients
                 PROVE  bp'[k] <=> \E d \in Conns : con'[d].owner = k /\ con'[d]["cli"].owed
      OBVIOUS
    <3>1. CASE k = con[c].owner
      BY <1>0, <2>1, <2>2, <2>4, <3>1
    <3>2. CASE k # con[c].owner
      BY <1>0, <2>1, <2>2, <2>4, <3>2 DEF StopInv, StopOwed
    <3> QED BY <3>1, <3>2
  <2>6. StopOwed'
    BY <2>1, <2>4, <2>5 DEF StopInv, StopOwed
  <2>7. \A d \in Conns, x \in Ends : con'[d][x].owed => con'[d].owner \in Clients
    BY <1>0, <1>1, <2>1, <2>2 DEF StopInv, Ends
  <2>8. \A b, d \in Conns : con'[b]["cli"].owed /\ con'[d]["cli"].owed /\ con'[b].owner = con'[d].owner => b = d
    BY <2>1, <2>2, <2>3 DEF StopInv
  <2> QED BY <2>1, <2>6, <2>7, <2>8 DEF StopInv
<1>2. CASE e = "svr"
  <2>1. \A d \in Conns : con'[d]["cli"].owed = con[d]["cli"].owed /\ con'[d].owner = con[d].owner
    BY <1>2 DEF Owes, SameCon, Ends
  <2>2. con'[c]["svr"].owed = TRUE /\ \A d \in Conns \ {c} : con'[d]["svr"].owed = con[d]["svr"].owed
    BY <1>2 DEF Owes, Ends
  <2>3. \A d \in Conns : ~con[d]["svr"].owed
    BY <1>2 DEF StopInv, StopOwed
  <2>4. paused' = TRUE /\ bp' = bp
    BY <1>2 DEF Latched
  <2>6. StopOwed'
    BY <2>1, <2>2, <2>4 DEF StopInv, StopOwed
  <2>7. \A d \in Conns, x \in Ends : con'[d][x].owed => con'[d].owner \in Clients
    BY <1>0, <1>2, <2>1, <2>2 DEF StopInv, Ends
  <2>8. \A b, d \in Conns : con'[b]["svr"].owed /\ con'[d]["svr"].owed => b = d
    BY <2>2, <2>3
  <2> QED BY <2>1, <2>6, <2>7, <2>8 DEF StopInv
<1> QED BY <1>1, <1>2 DEF Ends

LEMMA StopReleased ==
  ASSUME DataInv, StopInv, SameCon(con, con'), NEW c \in Conns, NEW e \in Ends, con[c][e].owed,
         Owes(con, con', e, c, FALSE), Latched(e, c, FALSE)
  PROVE  StopInv'
<1>0. con[c].owner \in Clients /\ bp \in [Clients -> BOOLEAN]
  BY DEF DataInv, World, StopInv
<1>1. CASE e = "cli"
  <2>1. \A d \in Conns : con'[d]["svr"].owed = con[d]["svr"].owed /\ con'[d].owner = con[d].owner
    BY <1>1 DEF Owes, SameCon, Ends
  <2>2. con'[c]["cli"].owed = FALSE /\ \A d \in Conns \ {c} : con'[d]["cli"].owed = con[d]["cli"].owed
    BY <1>1 DEF Owes, Ends
  <2>3. \A d \in Conns \ {c} : con[d].owner = con[c].owner => ~con[d]["cli"].owed
    BY <1>1 DEF StopInv
  <2>4. bp' = [bp EXCEPT ![con[c].owner] = FALSE] /\ paused' = paused
    BY <1>1 DEF Latched
  <2>5. \A k \in Clients : bp'[k] <=> \E d \in Conns : con'[d].owner = k /\ con'[d]["cli"].owed
    <3> SUFFICES ASSUME NEW k \in Clients
                 PROVE  bp'[k] <=> \E d \in Conns : con'[d].owner = k /\ con'[d]["cli"].owed
      OBVIOUS
    <3>1. CASE k = con[c].owner
      <4>1. bp'[k] = FALSE
        BY <1>0, <2>4, <3>1
      <4> QED BY <2>1, <2>2, <2>3, <3>1, <4>1
    <3>2. CASE k # con[c].owner
      <4>1. bp'[k] = bp[k]
        BY <1>0, <2>4, <3>2
      <4> QED BY <2>1, <2>2, <3>2, <4>1 DEF StopInv, StopOwed
    <3> QED BY <3>1, <3>2
  <2>6. StopOwed'
    BY <2>1, <2>4, <2>5 DEF StopInv, StopOwed
  <2>7. \A d \in Conns, x \in Ends : con'[d][x].owed => con'[d].owner \in Clients
    BY <1>1, <2>1, <2>2 DEF StopInv, Ends
  <2>8. \A b, d \in Conns : con'[b]["cli"].owed /\ con'[d]["cli"].owed /\ con'[b].owner = con'[d].owner => b = d
    BY <2>1, <2>2 DEF StopInv
  <2> QED BY <2>1, <2>6, <2>7, <2>8 DEF StopInv
<1>2. CASE e = "svr"
  <2>1. \A d \in Conns : con'[d]["cli"].owed = con[d]["cli"].owed /\ con'[d].owner = con[d].owner
    BY <1>2 DEF Owes, SameCon, Ends
  <2>2. con'[c]["svr"].owed = FALSE /\ \A d \in Conns \ {c} : con'[d]["svr"].owed = con[d]["svr"].owed
    BY <1>2 DEF Owes, Ends
  <2>3. \A d \in Conns \ {c} : ~con[d]["svr"].owed
    BY <1>2 DEF StopInv
  <2>4. paused' = FALSE /\ bp' = bp
    BY <1>2 DEF Latched
  <2>6. StopOwed'
    BY <2>1, <2>2, <2>3, <2>4 DEF StopInv, StopOwed
  <2>7. \A d \in Conns, x \in Ends : con'[d][x].owed => con'[d].owner \in Clients
    BY <1>2, <2>1, <2>2 DEF StopInv, Ends
  <2>8. \A b, d \in Conns : con'[b]["svr"].owed /\ con'[d]["svr"].owed => b = d
    BY <2>2, <2>3
  <2> QED BY <2>1, <2>6, <2>7, <2>8 DEF StopInv
<1> QED BY <1>1, <1>2 DEF Ends

LEMMA SettledSteps ==
  ASSUME DataInv, NEW e \in Ends, NEW c \in Conns
  PROVE  /\ DgramWrite(e, c) => /\ SameCon(con, con') /\ UNCHANGED <<sessions, nSessions>>
                               /\ con[c][e].owed /\ Owes(con, con', e, c, FALSE) /\ Latched(e, c, FALSE)
         /\ \A m : MssUpdated(e, c, m) => /\ SameCon(con, con') /\ SameOwed(con, con')
                                          /\ UNCHANGED <<sessions, nSessions, bp, paused>>
<1>0. con \in [Conns -> ConType] /\ con[c][e] \in EndType
  BY ConEnd DEF DataInv, World
<1>1. ASSUME DgramWrite(e, c)
      PROVE  /\ SameCon(con, con') /\ UNCHANGED <<sessions, nSessions>>
             /\ con[c][e].owed /\ Owes(con, con', e, c, FALSE) /\ Latched(e, c, FALSE)
  <2> DEFINE z == [con[c][e] EXCEPT !.owed = FALSE]
  <2>1. con' = [con EXCEPT ![c][e] = z]
    BY <1>1 DEF DgramWrite
  <2>2. z.up = con[c][e].up /\ z.owed = FALSE
    BY <1>0 DEF EndType
  <2> HIDE DEF z
  <2>3. SameCon(con, con') /\ Owes(con, con', e, c, FALSE)
    BY <1>0, <2>1, <2>2, EndSame
  <2> QED BY <1>1, <2>3 DEF DgramWrite, Latched
<1>2. ASSUME NEW m, MssUpdated(e, c, m)
      PROVE  SameCon(con, con') /\ SameOwed(con, con') /\ UNCHANGED <<sessions, nSessions, bp, paused>>
  <2> DEFINE z == [con[c][e] EXCEPT !.mss = m]
  <2>1. con' = [con EXCEPT ![c][e] = z]
    BY <1>2 DEF MssUpdated
  <2>2. z.up = con[c][e].up /\ z.owed = con[c][e].owed
    BY <1>0 DEF EndType
  <2> HIDE DEF z
  <2>3. SameCon(con, con') /\ SameOwed(con, con')
    BY <1>0, <2>1, <2>2, EndSame
  <2> QED BY <1>2, <2>3 DEF MssUpdated
<1> QED BY <1>1, <1>2

LEMMA ElapseSame == ASSUME DataInv, Elapse PROVE SameCon(con, con') /\ SameOwed(con, con') /\ UNCHANGED <<sessions, nSessions, bp, paused>>
<1>1. ASSUME NEW c \in Conns
      PROVE  /\ con'[c].owner = con[c].owner /\ con'[c].addr = con[c].addr
             /\ \A e \in Ends : con'[c][e].up = con[c][e].up /\ con'[c][e].owed = con[c][e].owed
  <2>1. con[c] \in ConType /\ con[c].cli \in EndType /\ con[c].svr \in EndType
    BY DEF DataInv, World, ConType
  <2>2. con'[c] = [con[c] EXCEPT !.cli.tab = Aged(@), !.svr.tab = Aged(@)]
    BY DEF Elapse
  <2>3. /\ con'[c].owner = con[c].owner /\ con'[c].addr = con[c].addr
        /\ con'[c].cli = [con[c].cli EXCEPT !.tab = Aged(con[c].cli.tab)]
        /\ con'[c].svr = [con[c].svr EXCEPT !.tab = Aged(con[c].svr.tab)]
    BY <2>1, <2>2 DEF ConType
  <2>4. /\ con'[c].cli.up = con[c].cli.up /\ con'[c].cli.owed = con[c].cli.owed
        /\ con'[c].svr.up = con[c].svr.up /\ con'[c].svr.owed = con[c].svr.owed
    BY <2>1, <2>3 DEF EndType
  <2> QED BY <2>3, <2>4 DEF Ends
<1> QED BY <1>1 DEF Elapse, SameCon, SameOwed

LEMMA ClosedSessions ==
  ASSUME DataInv, SessInv, StopInv, NEW e \in Ends, NEW c \in Conns, Closed(e, c)
  PROVE  SessInv' /\ StopInv'
<1> DEFINE z == [NewEnd EXCEPT !.eng = con[c][e].eng, !.owed = con[c][e].owed]
<1>0. con \in [Conns -> ConType] /\ con' = [con EXCEPT ![c][e] = z] /\ con[c][e].up /\ UNCHANGED <<bp, paused>>
  BY DEF DataInv, World, Closed
<1>1. z.up = FALSE /\ z.owed = con[c][e].owed
  BY NewEndIs DEF EndType
<1> HIDE DEF z
<1>2. /\ con'[c][e] = z
      /\ \A d \in Conns, x \in Ends : d # c \/ x # e => con'[d][x] = con[d][x]
      /\ \A d \in Conns : con'[d].owner = con[d].owner /\ con'[d].addr = con[d].addr
  BY <1>0, EndSet
<1>3. SameOwed(con, con')
  BY <1>1, <1>2 DEF SameOwed
<1>4. StopInv'
  BY <1>0, <1>2, <1>3 DEF StopInv, StopOwed, SameOwed, Ends
<1>5. CASE e = "cli"
  <2>1. \A d \in Conns : con'[d]["svr"] = con[d]["svr"]
    BY <1>2, <1>5 DEF Ends
  <2>2. UNCHANGED <<sessions, nSessions>>
    BY <1>5 DEF Closed
  <2>3. SessInv'
    BY <1>2, <2>1, <2>2 DEF SessInv
  <2> QED BY <1>4, <2>3
<1>6. CASE e = "svr"
  <2>1. /\ con'[c]["svr"].up = FALSE /\ \A d \in Conns \ {c} : con'[d]["svr"] = con[d]["svr"]
    BY <1>1, <1>2, <1>6 DEF Ends
  <2>2. con[c].addr \in Addrs \cup {0} /\ RemoveSession(c)
    BY <1>0, <1>6 DEF ConType, Closed
  <2> DEFINE a == con[c].addr
  <2>3. CASE sessions[a] = c /\ a \in Addrs
    <3>1. sessions' = [sessions EXCEPT ![a] = NoConn] /\ nSessions' \in Int
      BY <2>2, <2>3 DEF RemoveSession, SessInv
    <3> HIDE DEF a
    <3>2. /\ sessions' \in [Addrs -> Conns \cup {NoConn}] /\ sessions'[a] = NoConn
          /\ \A b \in Addrs \ {a} : sessions'[b] = sessions[b]
      BY <2>3, <3>1 DEF SessInv
    <3>3. \A b \in Addrs : sessions'[b] # NoConn => con'[sessions'[b]].addr = b /\ con'[sessions'[b]]["svr"].up
      <4> SUFFICES ASSUME NEW b \in Addrs, sessions'[b] # NoConn
                   PROVE  con'[sessions'[b]].addr = b /\ con'[sessions'[b]]["svr"].up
        OBVIOUS
      <4>1. b # a /\ sessions'[b] = sessions[b]
        BY <3>2
      <4>2. sessions[b] \in Conns /\ con[sessions[b]].addr = b /\ con[sessions[b]]["svr"].up
        BY <4>1, SessionIs
      <4>3. sessions[b] # c
        BY <4>1, <4>2 DEF a
      <4> QED BY <1>2, <2>1, <4>1, <4>2, <4>3
    <3>4. ASSUME NEW d \in Conns, con'[d]["svr"].up
          PROVE  sessions'[con'[d].addr] = d \/ \E g \in Conns : g > d /\ con'[g].addr = con'[d].addr
      <4>1. d # c /\ con[d]["svr"].up
        BY <2>1, <3>4
      <4>2. CASE \E g \in Conns : g > d /\ con[g].addr = con[d].addr
        BY <1>2, <4>2
      <4>3. CASE sessions[con[d].addr] = d
        <5>1. con[d].addr # a
          BY <2>3, <4>1, <4>3
        <5>2. con[d].addr \in Addrs
          <6>1. con[d].addr \in Addrs \cup {0}
            BY <1>0 DEF ConType
          <6>2. con[d].addr # 0
            BY <4>1, Addressed
          <6> QED BY <6>1, <6>2
        <5> QED BY <1>2, <3>2, <4>3, <5>1, <5>2
      <4> QED BY <4>1, <4>2, <4>3 DEF SessInv
    <3>5. SessInv'
      BY <1>2, <3>1, <3>2, <3>3, <3>4 DEF SessInv
    <3> QED BY <1>4, <3>5
  <2>4. CASE sessions[a] # c
    <3>1. UNCHANGED <<sessions, nSessions>>
      BY <2>2, <2>4 DEF RemoveSession
    <3>2. \A b \in Addrs : sessions[b] # NoConn => con'[sessions[b]].addr = b /\ con'[sessions[b]]["svr"].up
      <4> SUFFICES ASSUME NEW b \in Addrs, sessions[b] # NoConn
                   PROVE  con'[sessions[b]].addr = b /\ con'[sessions[b]]["svr"].up
        OBVIOUS
      <4>2. sessions[b] \in Conns /\ con[sessions[b]].addr = b /\ con[sessions[b]]["svr"].up
        BY SessionIs
      <4>3. sessions[b] # c
        BY <2>4, <4>2
      <4> QED BY <1>2, <2>1, <4>2, <4>3
    <3> HIDE DEF a
    <3>3. \A d \in Conns : con'[d]["svr"].up => con[d]["svr"].up
      BY <2>1
    <3>4. SessInv'
      BY <1>2, <3>1, <3>2, <3>3 DEF SessInv
    <3> QED BY <1>4, <3>4
  <2>5. a \in Addrs
    BY <1>0, <1>6, <2>2, Addressed
  <2> QED BY <2>3, <2>4, <2>5
<1> QED BY <1>5, <1>6 DEF Ends

LEMMA ConnectSessions ==
  ASSUME DataInv, SessInv, StopInv, NEW k \in Clients, NEW c \in Conns, NEW a \in Addrs, NEW ce \in BOOLEAN, NEW se \in BOOLEAN,
         NEW m \in MssVals, Connect(k, c, a, ce, se, m)
  PROVE  SessInv' /\ StopInv'
<1>0. con \in [Conns -> ConType] /\ con[c].owner = NoClient /\ (\A d \in Conns : d < c => con[d].owner # NoClient)
  BY DEF DataInv, World, Connect
<1>a. sessions' = [sessions EXCEPT ![a] = c] /\ nSessions' = nSessions + 1 /\ UNCHANGED <<bp, paused>>
  BY DEF Connect
<1>1. PICK y, z : /\ con' = [con EXCEPT ![c] = [owner |-> k, addr |-> a, cli |-> y, svr |-> z]]
                  /\ y.owed = FALSE /\ z.owed = FALSE /\ z.up = TRUE
  <2> DEFINE alloc(x) == Mode # "off" /\ x
             asked == ShouldAdvertise(alloc(ce))
             echoed == ShouldAdvertise(alloc(se)) /\ asked
             y == [NewEnd EXCEPT !.up = TRUE, !.eng = alloc(ce), !.peer = echoed, !.mss = m]
             z == [NewEnd EXCEPT !.up = TRUE, !.eng = alloc(se), !.peer = asked, !.mss = m]
  <2>1. con' = [con EXCEPT ![c] = [owner |-> k, addr |-> a, cli |-> y, svr |-> z]]
    BY DEF Connect
  <2>2. y.owed = FALSE /\ z.owed = FALSE /\ z.up = TRUE
    BY DEF NewEnd
  <2> HIDE DEF y, z
  <2> QED BY <2>1, <2>2
<1>2. /\ con'[c].owner = k /\ con'[c].addr = a /\ con'[c]["svr"].up = TRUE
      /\ con'[c]["cli"].owed = FALSE /\ con'[c]["svr"].owed = FALSE
      /\ \A d \in Conns \ {c} : con'[d] = con[d]
  BY <1>0, <1>1
<1>3. k # NoClient /\ a # 0
  BY PathAssumption
<1>4. ~con[c]["cli"].owed /\ ~con[c]["svr"].owed /\ ~con[c]["svr"].up
  BY <1>0, PathAssumption DEF StopInv, DataInv, Negotiated, Ends
<1>5. StopInv'
  <2>1. \A d \in Conns : con'[d]["cli"].owed <=> con[d]["cli"].owed
    BY <1>2, <1>4
  <2>2. \A d \in Conns : con'[d]["svr"].owed <=> con[d]["svr"].owed
    BY <1>2, <1>4
  <2>3. \A d \in Conns : con[d]["cli"].owed \/ con[d]["svr"].owed => con'[d].owner = con[d].owner
    BY <1>2, <1>4
  <2>4. \A j \in Clients : bp'[j] <=> \E d \in Conns : con'[d].owner = j /\ con'[d]["cli"].owed
    BY <1>a, <2>1, <2>3 DEF StopInv, StopOwed
  <2>5. paused' <=> \E d \in Conns : con'[d]["svr"].owed
    BY <1>a, <2>2 DEF StopInv, StopOwed
  <2>6. \A d \in Conns, x \in Ends : con'[d][x].owed => con'[d].owner \in Clients
    BY <2>1, <2>2, <2>3 DEF StopInv, Ends
  <2>7. /\ \A b, d \in Conns : con'[b]["svr"].owed /\ con'[d]["svr"].owed => b = d
        /\ \A b, d \in Conns : con'[b]["cli"].owed /\ con'[d]["cli"].owed /\ con'[b].owner = con'[d].owner => b = d
    BY <2>1, <2>2, <2>3 DEF StopInv
  <2> QED BY <2>4, <2>5, <2>6, <2>7 DEF StopInv, StopOwed
<1>6. /\ sessions' \in [Addrs -> Conns \cup {NoConn}] /\ nSessions' \in Int /\ sessions'[a] = c
      /\ \A b \in Addrs \ {a} : sessions'[b] = sessions[b]
  BY <1>a DEF SessInv
<1>7. \A b \in Addrs : sessions'[b] # NoConn => con'[sessions'[b]].addr = b /\ con'[sessions'[b]]["svr"].up
  <2> SUFFICES ASSUME NEW b \in Addrs, sessions'[b] # NoConn
               PROVE  con'[sessions'[b]].addr = b /\ con'[sessions'[b]]["svr"].up
    OBVIOUS
  <2>1. CASE b = a
    BY <1>2, <1>6, <2>1
  <2>2. CASE b # a
    <3>1. sessions'[b] = sessions[b]
      BY <1>6, <2>2
    <3>2. sessions[b] \in Conns /\ con[sessions[b]].addr = b /\ con[sessions[b]]["svr"].up
      BY <3>1, SessionIs
    <3>3. sessions[b] # c
      BY <1>4, <3>2
    <3> QED BY <1>2, <3>1, <3>2, <3>3
  <2> QED BY <2>1, <2>2
<1>8. \A d, g \in Conns : g < d /\ con'[d].owner # NoClient => con'[g].owner # NoClient
  BY <1>0, <1>2, <1>3 DEF SessInv
<1>9. \A d \in Conns : con'[d].addr \in IF con'[d].owner = NoClient THEN {0} ELSE Addrs
  BY <1>2, <1>3 DEF SessInv
<1>10. ASSUME NEW d \in Conns, con'[d]["svr"].up
       PROVE  sessions'[con'[d].addr] = d \/ \E g \in Conns : g > d /\ con'[g].addr = con'[d].addr
  <2>1. CASE d = c
    BY <1>2, <1>6, <2>1
  <2>2. CASE d # c
    <3>1. con'[d] = con[d] /\ con[d]["svr"].up
      BY <1>2, <1>10, <2>2
    <3>2. d < c
      <4>1. con[d].owner # NoClient
        BY <3>1 DEF DataInv, Negotiated, Ends
      <4>2. ~(c < d)
        BY <1>0, <4>1 DEF SessInv
      <4> QED BY <2>2, <4>2, PathAssumption
    <3>3. con[d].addr \in Addrs
      <4>1. con[d].addr \in Addrs \cup {0}
        BY <1>0 DEF ConType
      <4>2. con[d].addr # 0
        BY <3>1, Addressed
      <4> QED BY <4>1, <4>2
    <3>4. CASE con[d].addr = a
      BY <1>2, <3>1, <3>2, <3>4, PathAssumption
    <3>5. CASE con[d].addr # a /\ sessions[con[d].addr] = d
      BY <1>6, <3>1, <3>3, <3>5
    <3>6. CASE con[d].addr # a /\ \E g \in Conns : g > d /\ con[g].addr = con[d].addr
      <4>1. PICK g \in Conns : g > d /\ con[g].addr = con[d].addr
        BY <3>6
      <4>2. g # c
        BY <1>0, <3>3, <4>1, PathAssumption DEF SessInv
      <4> QED BY <1>2, <3>1, <4>1, <4>2
    <3> QED BY <3>1, <3>4, <3>5, <3>6 DEF SessInv
  <2> QED BY <2>1, <2>2
<1>11. SessInv'
  BY <1>6, <1>7, <1>8, <1>9, <1>10 DEF SessInv
<1> QED BY <1>5, <1>11

(* Everything together *)
PathInv == DataInv /\ SessInv /\ StopInv

LEMMA InitPath == Init => PathInv
<1> SUFFICES ASSUME Init PROVE SessInv /\ StopInv
  BY InitInv DEF PathInv
<1>1. \A c \in Conns : /\ con[c].owner = NoClient /\ con[c].addr = 0
                       /\ con[c]["cli"].up = FALSE /\ con[c]["svr"].up = FALSE
                       /\ con[c]["cli"].owed = FALSE /\ con[c]["svr"].owed = FALSE
  BY DEF Init, NewEnd
<1>2. sessions = [a \in Addrs |-> NoConn] /\ nSessions = 0 /\ bp = [k \in Clients |-> FALSE] /\ paused = FALSE
  BY DEF Init
<1>3. SessInv
  BY <1>1, <1>2 DEF SessInv
<1>4. StopInv
  BY <1>1, <1>2 DEF StopInv, StopOwed, Ends
<1> QED BY <1>3, <1>4

LEMMA NextPath == PathInv /\ [Next]_vars => PathInv'
<1> SUFFICES ASSUME PathInv, [Next]_vars PROVE PathInv'
  OBVIOUS
<1>0. DataInv /\ SessInv /\ StopInv
  BY DEF PathInv
<1>1. CASE UNCHANGED vars
  <2>1. DataInv'
    BY <1>0, <1>1 DEF vars, DataInv, World
  <2>2. SessInv' /\ StopInv'
    BY <1>0, <1>1 DEF vars, SessInv, StopInv, StopOwed
  <2> QED BY <2>1, <2>2 DEF PathInv
<1>2. ASSUME NEW k \in Clients, NEW c \in Conns, NEW a \in Addrs, NEW ce \in BOOLEAN, NEW se \in BOOLEAN, NEW m \in MssVals,
             Connect(k, c, a, ce, se, m)
      PROVE  PathInv'
  BY <1>0, <1>2, ConnectInv, ConnectSessions DEF PathInv
<1>3. ASSUME NEW f \in Flows, NEW len \in Lens, NEW a \in Addrs, NEW ttl \in Ttls,
             ServerTunPacket(f, len, a, ttl) \/ \E k \in Clients : ClientTunPacket(k, f, len, a, ttl)
      PROVE  PathInv'
  <2>1. DataInv'
    BY <1>0, <1>3, ServerTunPacketInv, ClientTunPacketInv
  <2>2. /\ SameCon(con, con') /\ UNCHANGED <<sessions, nSessions>>
        /\ \/ SameOwed(con, con') /\ UNCHANGED <<bp, paused>>
           \/ \E c \in Conns, e \in Ends :
                 /\ con[c][e].up /\ Owes(con, con', e, c, TRUE) /\ Latched(e, c, TRUE)
                 /\ IF e = "cli" THEN con[c].owner \in Clients /\ ~bp[con[c].owner] ELSE ~paused
    BY <1>0, <1>3, TunSteps
  <2>3. SessInv'
    BY <1>0, <2>2, SessKept
  <2>4. StopInv'
    BY <1>0, <2>2, StopKept, StopSet
  <2> QED BY <2>1, <2>3, <2>4 DEF PathInv
<1>4. ASSUME NEW x \in hist, DgramRead(x)
      PROVE  PathInv'
  <2>1. con' = con /\ UNCHANGED <<sessions, nSessions, bp, paused>>
    BY <1>4 DEF DgramRead
  <2>2. SameCon(con, con') /\ SameOwed(con, con')
    BY <2>1 DEF SameCon, SameOwed
  <2> QED BY <1>0, <1>4, <2>1, <2>2, DgramReadInv, SessKept, StopKept DEF PathInv
<1>5. ASSUME NEW e \in Ends, NEW c \in Conns, DgramWrite(e, c)
      PROVE  PathInv'
  BY <1>0, <1>5, SettledSteps, DgramWriteInv, SessKept, StopReleased DEF PathInv
<1>6. ASSUME NEW e \in Ends, NEW c \in Conns, Closed(e, c)
      PROVE  PathInv'
  BY <1>0, <1>6, ClosedInv, ClosedSessions DEF PathInv
<1>7. ASSUME NEW e \in Ends, NEW c \in Conns, NEW m \in MssVals, MssUpdated(e, c, m)
      PROVE  PathInv'
  BY <1>0, <1>7, SettledSteps, MssUpdatedInv, SessKept, StopKept DEF PathInv
<1>8. CASE Elapse
  BY <1>0, <1>8, ElapseSame, ElapseInv, SessKept, StopKept DEF PathInv
<1> QED BY <1>1, <1>2, <1>3, <1>4, <1>5, <1>6, <1>7, <1>8 DEF Next

(* The tables of the two ends, what was negotiated between them, the       *)
(* datagrams on their way, the session table and the latches agree at      *)
(* every moment, through lookups, evictions, refusals, take-overs, closes  *)
(* and allocations that fail.                                              *)
THEOREM DataInvariant == Spec => []PathInv
BY InitPath, NextPath, PTL DEF Spec

(* Both ends' readers are stopped exactly while a connection that refused  *)
(* a datagram has not said that it has room (tun_send_datagram, its server *)
(* counterpart and cb_dgram_write), for every number of clients and        *)
(* successive or overlapping connections.                                  *)
THEOREM StopOwedHolds == Spec => []StopOwed
<1>1. PathInv => StopOwed
  BY DEF PathInv, StopInv
<1> QED BY <1>1, DataInvariant, PTL

(* The numbers the receiver goes by are 0, 1, 2, ... over the datagrams    *)
(* the transport accepted, and a flow starts again only after the idle     *)
(* time, whatever mqvpn_reorder_tx_peek creates and evicts; a table never  *)
(* exceeds its limit.                                                      *)
THEOREM NumbersTrustedHolds == Spec => []NumbersTrusted
<1>1. PathInv => NumbersTrusted
  <2> SUFFICES ASSUME DataInv, SessInv PROVE NumbersTrusted
    BY DEF PathInv
  <2>1. \A c \in Conns, e \in Ends : con[c][e].tab \in TableType /\ (MaxFlows # 0 => NFlows(con[c][e].tab) <= MaxFlows)
    <3> SUFFICES ASSUME NEW c \in Conns, NEW e \in Ends
                 PROVE  con[c][e].tab \in TableType /\ (MaxFlows # 0 => NFlows(con[c][e].tab) <= MaxFlows)
      OBVIOUS
    <3>1. con[c][e].tab \in TableType /\ Fits(con[c][e].tab)
      BY ConEnd DEF DataInv, World, EndType
    <3>2. NFlows(con[c][e].tab) = Cardinality(Live(con[c][e].tab))
      BY DEF NFlows, Live
    <3> QED BY <3>1, <3>2 DEF Fits
  <2>2. TypeOK
    BY <2>1 DEF DataInv, World, SessInv, TypeOK
  <2>3. \A x \in hist : Earlier(x) = Before(x, hist) /\ Counted(x, hist)
    BY DEF Earlier, Before, DataInv, Numbered
  <2>4. NumberingSound
    BY <2>3 DEF NumberingSound, Counted
  <2> QED BY <2>2, <2>4 DEF NumbersTrusted
<1> QED BY <1>1, DataInvariant, PTL

(* An end stamps only for a peer that has a receive engine, however the    *)
(* allocations of the engines fail: the offer in the request and its echo  *)
(* in the answer depend on them.                                           *)
THEOREM NoBlackholeHolds == Spec => []NoBlackhole
<1>1. PathInv => NoBlackhole
  BY DEF PathInv, DataInv, Travels, NoBlackhole
<1> QED BY <1>1, DataInvariant, PTL

-----------------------------------------------------------------------------
(* What a step writes *)

(* Gate for the state an end is in, and the case in which it looks a flow  *)
(* up.                                                                     *)
GateOf(end, f, len) ==
    IF end.eng /\ end.peer /\ Mode # "off" /\ end.mss > 0
    THEN Peek(end.tab, f, len, end.mss)
    ELSE {[tab |-> end.tab, act |-> "raw", seq |-> 0, reset |-> FALSE]}

Stamping(end, f) == end.eng /\ end.peer /\ Mode # "off" /\ end.mss > 0 /\ f \notin Unparsed

(* A flow with an entry keeps it, so the next packet meets the same rule.  *)
LEMMA GateActs ==
  ASSUME NEW z, NEW f, NEW len, NEW q \in GateOf(z, f, len)
  PROVE  /\ Stamping(z, f) => q.act = Verdict(q.tab, f, len, z.mss) /\ (z.tab[f].live => q.tab = z.tab)
         /\ ~Stamping(z, f) => q.act = "raw"
<1>1. CASE Stamping(z, f)
  <2>1. PICK u \in GetOrCreate(z.tab, f) :
          q = [tab |-> u, act |-> Verdict(u, f, len, z.mss), seq |-> u[f].seq, reset |-> u[f].marks > 0]
    BY <1>1, PeekOn DEF GateOf, Stamping
  <2>2. q.tab = u /\ q.act = Verdict(u, f, len, z.mss)
    BY <2>1
  <2>3. z.tab[f].live => u = z.tab
    BY DEF GetOrCreate
  <2> QED BY <1>1, <2>2, <2>3
<1>2. CASE ~Stamping(z, f)
  <2>1. q = [tab |-> z.tab, act |-> "raw", seq |-> 0, reset |-> FALSE]
    BY <1>2 DEF GateOf, Stamping, Peek
  <2> QED BY <1>2, <2>1
<1> QED BY <1>1, <1>2

(* The MTU told for a packet that was too big, after its lookup: end z.    *)
LEMMA MtuToldIsRight ==
  ASSUME NEW y \in EndType, NEW f \in Flows, NEW len \in Nat \ {0}, NEW p \in GateOf(y, f, len), TooBig(p, len, y.mss),
         NEW z \in EndType, z.tab = p.tab, z.eng = y.eng, z.peer = y.peer, z.mss = y.mss
  PROVE  LET m == EffMtu(p.act, y.mss) IN
         /\ m < len
         /\ m > 0 => \A q \in GateOf(z, f, m) : TooBig(q, m, z.mss) => q.tab # z.tab
         /\ \A q \in GateOf(z, f, m + 1) : TooBig(q, m + 1, z.mss)
<1> DEFINE m == EffMtu(p.act, y.mss)
<1>0. y.mss \in Nat /\ Hdr \in Nat
  BY TxAssumption DEF EndType
<1>a. Stamping(z, f) <=> Stamping(y, f)
  BY DEF Stamping
<1>1. CASE p.act = "raw"
  <2>1. y.mss > 0 /\ len > y.mss /\ m = y.mss
    BY <1>1 DEF TooBig, EffMtu
  <2> HIDE DEF m
  <2>2. Stamping(z, f) => ~z.tab[f].live \/ ~Eligible(f)
    BY <1>1, <1>a, GateActs DEF Verdict
  <2>3. ASSUME NEW q \in GateOf(z, f, m), TooBig(q, m, z.mss)
        PROVE  q.tab # z.tab
    <3>1. q.act # "raw"
      BY <1>0, <2>1, <2>3 DEF TooBig
    <3>2. Stamping(z, f) /\ q.tab[f].live /\ Eligible(f)
      BY <2>3, <3>1, GateActs DEF Verdict
    <3> QED BY <2>2, <3>2
  <2>4. ASSUME NEW q \in GateOf(z, f, m + 1)
        PROVE  TooBig(q, m + 1, z.mss)
    <3>1. m + 1 \in Nat /\ m + 1 > z.mss /\ z.mss > 0 /\ Hdr + (m + 1) > z.mss
      BY <1>0, <2>1
    <3>2. q.act \in {"raw", "drop_mtu"}
      BY <2>4, <3>1, GateActs DEF Verdict
    <3> QED BY <3>1, <3>2 DEF TooBig
  <2>5. m < len
    BY <1>0, <2>1
  <2> QED BY <2>3, <2>4, <2>5 DEF m
<1>2. CASE p.act = "drop_mtu"
  <2>1. Stamping(y, f) /\ p.act = Verdict(p.tab, f, len, y.mss)
    BY <1>2, GateActs
  <2>2. Stamping(z, f) /\ z.tab[f].live /\ Eligible(f) /\ Hdr + len > y.mss
    BY <1>2, <1>a, <2>1 DEF Verdict
  <2>3. m = IF Hdr < y.mss THEN y.mss - Hdr ELSE 0
    BY <1>0, <1>2 DEF EffMtu, Least
  <2> HIDE DEF m
  <2>4. m \in Nat /\ m < len /\ Hdr + (m + 1) > y.mss /\ (m > 0 => ~(Hdr + m > y.mss))
    BY <1>0, <2>2, <2>3
  <2>5. ASSUME m > 0, NEW q \in GateOf(z, f, m)
        PROVE  ~TooBig(q, m, z.mss)
    <3>1. q.act = Verdict(z.tab, f, m, z.mss)
      BY <2>2, <2>5, GateActs
    <3>2. q.act = "stamp"
      BY <2>2, <2>4, <2>5, <3>1 DEF Verdict
    <3> QED BY <3>2 DEF TooBig
  <2>6. ASSUME NEW q \in GateOf(z, f, m + 1)
        PROVE  TooBig(q, m + 1, z.mss)
    <3>1. q.act = Verdict(z.tab, f, m + 1, z.mss)
      BY <2>2, <2>6, GateActs
    <3>2. q.act = "drop_mtu"
      BY <2>2, <2>4, <3>1 DEF Verdict
    <3> QED BY <3>2 DEF TooBig
  <2> QED BY <2>4, <2>5, <2>6 DEF m
<1> QED BY <1>1, <1>2 DEF TooBig

LEMMA PtbAnswer ==
  ASSUME DataInv, NEW c \in Conns, NEW e \in Ends, NEW f \in Flows, NEW len \in Lens,
         NEW p \in Gate(e, c, f, len), TooBig(p, len, con[c][e].mss), AnswerTooBig(e, c, p, f, len)
  PROVE  PtbHonest' /\ out'.kind # "pkt"
<1> DEFINE y == con[c][e]
           z == [con[c][e] EXCEPT !.tab = p.tab]
           m == EffMtu(p.act, con[c][e].mss)
           answer == [kind |-> "ptb", e |-> e, c |-> c, f |-> f, len |-> len, mtu |-> m]
<1>1. con \in [Conns -> ConType] /\ y \in EndType /\ Fits(y.tab) /\ len \in Nat \ {0}
  BY ConEnd, PathAssumption DEF DataInv, World
<1>2. p.tab \in TableType /\ Fits(p.tab) /\ p \in GateOf(y, f, len)
  BY GateIs DEF Peeked, Gate, GateOf
<1>3. z \in EndType /\ z.tab = p.tab /\ z.eng = y.eng /\ z.peer = y.peer /\ z.mss = y.mss
  BY <1>1, <1>2 DEF EndType
<1>4. con' = [con EXCEPT ![c][e] = z]
  BY <1>1, <1>2, TabEnd DEF AnswerTooBig, KeepTable
<1>5. out' = answer \/ out' = Nothing
  BY DEF AnswerTooBig, Icmp
<1> HIDE DEF z
<1>6. con'[c][e] = z
  <2>1. con \in [Conns -> ConType]
    BY <1>1
  <2> HIDE DEF y, m, answer
  <2>2. DOMAIN con = Conns /\ e \in DOMAIN con[c]
    BY <2>1 DEF ConType, Ends
  <2> QED BY <1>4, <2>2
<1>7. /\ m < len
      /\ m > 0 => \A q \in GateOf(z, f, m) : TooBig(q, m, z.mss) => q.tab # z.tab
      /\ \A q \in GateOf(z, f, m + 1) : TooBig(q, m + 1, z.mss)
  BY <1>1, <1>2, <1>3, MtuToldIsRight
<1> HIDE DEF m
<1>8. \A l : Gate(e, c, f, l)' = GateOf(z, f, l)
  BY <1>6 DEF Gate, GateOf
<1>9. CASE out' = answer
  <2>1. out'.kind = "ptb" /\ out'.e = e /\ out'.c = c /\ out'.f = f /\ out'.len = len /\ out'.mtu = m
    BY <1>9
  <2>2. Gate(out.e, out.c, out.f, out.mtu)' = GateOf(z, f, m) /\ Gate(out.e, out.c, out.f, out.mtu + 1)' = GateOf(z, f, m + 1)
    BY <1>6, <2>1 DEF Gate, GateOf
  <2>3. PtbHonest'
    BY <1>6, <1>7, <2>1, <2>2 DEF PtbHonest, TooBig
  <2> QED BY <2>1, <2>3
<1>10. CASE out' = Nothing
  BY <1>10 DEF Nothing, PtbHonest
<1> QED BY <1>5, <1>9, <1>10

(* Every other answer is neither. *)
Silent(o) == o.kind \notin {"ptb", "pkt"}

LEMMA SilentIs ==
  /\ Silent(Nothing) /\ Silent([kind |-> "unreachable"]) /\ Silent([kind |-> "expired"])
  /\ Silent(out') => PtbHonest' /\ RightAddress'
BY DEF Silent, Nothing, PtbHonest, RightAddress

LEMMA ForwardedRight == ASSUME DataInv, SessInv, NEW x \in hist, DgramRead(x) PROVE PtbHonest' /\ RightAddress'
<1> DEFINE o == [kind |-> "pkt", e |-> Peer(x.e), c |-> x.c, a |-> x.a, ttl |-> x.ttl - 1]
<1>1. /\ ~x.done /\ con[x.c][Peer(x.e)].up /\ con' = con /\ sessions' = sessions
      /\ out' = Nothing \/ ForwardInner(x)
  BY DEF DgramRead
<1>2. \/ out' = Nothing \/ out' = [kind |-> "expired"]
      \/ out' = o /\ ~(x.ttl <= 1) /\ ~(Peer(x.e) = "svr" /\ x.a # con[x.c].addr)
  BY <1>1 DEF ForwardInner, Icmp
<1>3. CASE out' = Nothing \/ out' = [kind |-> "expired"]
  BY <1>3, SilentIs
<1>4. CASE out' = o /\ ~(x.ttl <= 1) /\ ~(Peer(x.e) = "svr" /\ x.a # con[x.c].addr)
  <2>1. out'.kind = "pkt" /\ out'.e = Peer(x.e) /\ out'.c = x.c /\ out'.a = x.a /\ out'.ttl = x.ttl - 1
    BY <1>4
  <2>2. x.c \in Conns /\ x.e \in Ends /\ x.ttl \in Nat /\ Travels(x, con, n, now)
    BY DEF DataInv, World, PktType
  <2>3. x.a = con[x.c].addr
    BY <1>1, <1>4, <2>2 DEF Travels, Peer, Ends
  <2>4. \E t \in Ttls : x.ttl <= t
    BY <1>1, <2>2 DEF Travels
  <2>5. out'.ttl >= 1 /\ \E t \in Ttls : out'.ttl < t
    BY <1>4, <2>1, <2>2, <2>4, PathAssumption
  <2>6. ASSUME Peer(x.e) = "svr"
        PROVE  sessions[x.a] = x.c \/ \E d \in Conns : d > x.c /\ con[d].addr = x.a
    BY <1>1, <2>2, <2>3, <2>6 DEF SessInv
  <2>7. Peer(x.e) \in {"cli", "svr"}
    BY DEF Peer
  <2>8. out'.e = "cli" \/ sessions'[out'.a] = out'.c \/ \E d \in Conns : d > out'.c /\ con'[d].addr = out'.a
    BY <1>1, <2>1, <2>6, <2>7
  <2>9. RightAddress'
    BY <1>1, <2>1, <2>3, <2>5, <2>8 DEF RightAddress
  <2> QED BY <2>1, <2>9 DEF PtbHonest
<1> QED BY <1>2, <1>3, <1>4

LEMMA TunOut ==
  ASSUME DataInv, SessInv, NEW f \in Flows, NEW len \in Lens, NEW a \in Addrs, NEW ttl \in Ttls,
         ServerTunPacket(f, len, a, ttl) \/ \E k \in Clients : ClientTunPacket(k, f, len, a, ttl)
  PROVE  PtbHonest' /\ RightAddress'
<1>1. ASSUME NEW c \in Conns, NEW e \in Ends, NEW p \in Gate(e, c, f, len), TooBig(p, len, con[c][e].mss),
             AnswerTooBig(e, c, p, f, len)
      PROVE  PtbHonest' /\ RightAddress'
  <2>1. PtbHonest' /\ out'.kind # "pkt"
    BY <1>1, PtbAnswer
  <2> QED BY <2>1 DEF RightAddress
<1>2. ASSUME NEW e, NEW c, NEW p, NEW x, SendDatagram(e, c, p, f, x)
      PROVE  PtbHonest' /\ RightAddress'
  BY <1>2, SilentIs DEF SendDatagram
<1>3. ASSUME NEW answer, Silent(answer), Icmp("svr", answer)
      PROVE  PtbHonest' /\ RightAddress'
  BY <1>3, SilentIs DEF Icmp
<1>4. "cli" \in Ends /\ "svr" \in Ends
  BY DEF Ends
<1>5. ASSUME NEW k \in Clients, ClientTunPacket(k, f, len, a, ttl)
      PROVE  PtbHonest' /\ RightAddress'
  <2> DEFINE c == ConnOf(k)
  <2>1. c \in Conns
    BY <1>5, ConnOfIs DEF ClientTunPacket, ClientReads
  <2>2. \/ out' = Nothing
        \/ \E p \in Gate("cli", c, f, len) :
              IF TooBig(p, len, con[c]["cli"].mss)
              THEN AnswerTooBig("cli", c, p, f, len)
              ELSE SendDatagram("cli", c, p, f, Datagram("cli", c, p, f, a, ttl))
    BY <1>5 DEF ClientTunPacket
  <2> HIDE DEF c
  <2> QED BY <1>1, <1>2, <1>4, <2>1, <2>2, SilentIs
<1>6. ASSUME ServerTunPacket(f, len, a, ttl)
      PROVE  PtbHonest' /\ RightAddress'
  <2> DEFINE c == sessions[a]
  <2>1. CASE c = NoConn
    <3>1. Icmp("svr", [kind |-> "unreachable"])
      BY <1>6, <2>1 DEF ServerTunPacket
    <3> QED BY <1>3, <3>1, SilentIs
  <2>2. CASE c # NoConn
    <3>1. c \in Conns
      BY <2>2, SessionIs
    <3>2. \E p \in Gate("svr", c, f, len) :
              IF TooBig(p, len, con[c]["svr"].mss)
              THEN AnswerTooBig("svr", c, p, f, len)
              ELSE \/ Icmp("svr", [kind |-> "expired"])
                   \/ SendDatagram("svr", c, p, f, Datagram("svr", c, p, f, a, ttl - 1))
      BY <1>6, <2>2 DEF ServerTunPacket
    <3> HIDE DEF c
    <3> QED BY <1>1, <1>2, <1>3, <1>4, <3>1, <3>2, SilentIs
  <2> QED BY <2>1, <2>2
<1> QED BY <1>5, <1>6

LEMMA OutKept == PathInv /\ PtbHonest /\ RightAddress /\ [Next]_vars => PtbHonest' /\ RightAddress'
<1> SUFFICES ASSUME DataInv, SessInv, PtbHonest, RightAddress, [Next]_vars PROVE PtbHonest' /\ RightAddress'
  BY DEF PathInv
<1>1. CASE UNCHANGED vars
  <2>1. con' = con /\ sessions' = sessions /\ out' = out
    BY <1>1 DEF vars
  <2>2. RightAddress'
    BY <2>1 DEF RightAddress
  <2>3. PtbHonest'
    BY <2>1 DEF PtbHonest, Gate
  <2> QED BY <2>2, <2>3
<1>2. ASSUME NEW k \in Clients, NEW c \in Conns, NEW a \in Addrs, NEW ce \in BOOLEAN, NEW se \in BOOLEAN, NEW m \in MssVals,
             Connect(k, c, a, ce, se, m)
      PROVE  PtbHonest' /\ RightAddress'
  BY <1>2, SilentIs DEF Connect
<1>3. ASSUME NEW e \in Ends, NEW c \in Conns, DgramWrite(e, c) \/ Closed(e, c) \/ (\E m \in MssVals : MssUpdated(e, c, m))
      PROVE  PtbHonest' /\ RightAddress'
  BY <1>3, SilentIs DEF DgramWrite, Closed, MssUpdated
<1>4. CASE Elapse
  BY <1>4, SilentIs DEF Elapse
<1> QED BY <1>1, <1>2, <1>3, <1>4, TunOut, ForwardedRight DEF Next

LEMMA OutInit == Init => PtbHonest /\ RightAddress
BY DEF Init, Nothing, PtbHonest, RightAddress

(* A sender that is told an MTU (the answer to a packet that is too big,   *)
(* on either side, for stamped and raw datagrams) can use all of it and    *)
(* nothing more: the packet it answers was bigger, one of that size is     *)
(* accepted unless the flow got its entry in between, one byte more is     *)
(* not.                                                                    *)
THEOREM PtbHonestHolds == Spec => []PtbHonest
BY OutInit, InitPath, OutKept, NextPath, PTL DEF Spec

(* What forward_inner_ip writes to a TUN has the address of the connection *)
(* it came over and has lost a hop, whatever addresses the peer writes and *)
(* however often addresses are taken over; on the server the answers go to *)
(* that connection unless a later one was given the address.               *)
THEOREM RightAddressHolds == Spec => []RightAddress
BY OutInit, InitPath, OutKept, NextPath, PTL DEF Spec
=============================================================================
