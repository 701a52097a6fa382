--------------------------- MODULE TcpLaneProofs ----------------------------
(***************************************************************************)
(* Proofs about TcpLane, for any set of connections, any caps and          *)
(* timeouts and any number of streams.                                     *)
(*                                                                         *)
(* The operators work on the lane's memory x, so the invariant is a        *)
(* predicate of a memory: the chain lists the entries, the counters count  *)
(* them, each key is consistent on its own, and streams are bound one to   *)
(* one.  Each operator has a lemma that says what it leaves in each field. *)
(***************************************************************************)
EXTENDS TcpLane, SequenceTheorems, FiniteSetTheorems, WellFoundedInduction, TLAPS

FlowRec ==
    [state : FlowStates, pcb : BOOLEAN, stream : Streams \cup {0}, isn : 0..1, age : 0..Horizon,
     paused : BOOLEAN]
PcbRec  == [state : {"none", "syn_rcvd", "established", "closing"}, listener : BOOLEAN]
ConnRec == [isn : 0..1, phase : {"new", "raw", "tcp", "est", "over", "mixed"}]

Memory ==
    [chain : Seq(Keys), flow : [Keys -> FlowRec], n : [Populations -> Int], pcb : [Keys -> PcbRec],
     stream : [Streams -> {"free", "open", "ended"}], app : [Keys -> ConnRec]]

-----------------------------------------------------------------------------
(* The chain holds each entry once. *)
Lists(s, K) ==
    /\ \A i, j \in 1..Len(s) : s[i] = s[j] => i = j
    /\ \A k \in Keys : k \in K <=> \E i \in 1..Len(s) : s[i] = k

Entries(x) == {k \in Keys : InTable(x, k)}

(* The entries one of the counters is for. *)
Members(x, p) == {k \in Keys : InTable(x, k) /\ Population(x.flow[k].state) = p}

Counts(x) == \A p \in Populations : IsFiniteSet(Members(x, p)) /\ x.n[p] = Cardinality(Members(x, p))

Capped(x) == x.n["tcp"] <= MaxFlows /\ x.n["raw"] <= MarkerCap /\ x.n["closing"] <= ClosingCap

(* What holds of a key: its flow f, its pcb p and its connection a.  A     *)
(* flow owns a pcb and a stream between lwIP's accept and its end; a       *)
(* connection is on the RAW lane with the marker of its own SYN.           *)
KeyOK(f, p, a) ==
    /\ f.pcb <=> f.state \in {"pending_stream", "active"}
    /\ f.pcb <=> f.stream # 0
    /\ f.pcb <=> p.state = "established"
    /\ f.paused => f.state = "active"
    /\ a.phase = "est" => f.pcb
    /\ a.phase = "raw" => f.state = "sticky_raw" /\ f.isn = a.isn
    /\ a.phase # "mixed"

(* Open streams and the flows bound to them, one to one. *)
Binds(flow, stream) ==
    /\ \A k \in Keys : flow[k].stream # 0 => stream[flow[k].stream] = "open"
    /\ \A s \in Streams : stream[s] = "open" => \E k \in Keys : flow[k].stream = s
    /\ \A j, k \in Keys : flow[j].stream = flow[k].stream /\ flow[j].stream # 0 => j = k

Consistent(x) ==
    /\ x \in Memory
    /\ Lists(x.chain, Entries(x)) /\ Counts(x) /\ Capped(x)
    /\ \A k \in Keys : KeyOK(x.flow[k], x.pcb[k], x.app[k])
    /\ Binds(x.flow, x.stream)

(* Entries exist only with a lane, and for what the classifier gives it. *)
Admitted(x, on) == \A k \in Keys : InTable(x, k) => on /\ Classify(k) = "tcp"

(* Between two visits the sweep holds two different entries. *)
Walks(x, f, g) ==
    /\ f \in Keys \cup {None} /\ g \in Keys \cup {None}
    /\ f = None => g = None
    /\ f # None => InTable(x, f)
    /\ g # None => InTable(x, g) /\ g # f

(* The inductive invariant. *)
LaneInv ==
    /\ Consistent(w) /\ Admitted(w, lane) /\ Walks(w, cur, nxt)
    /\ lane \in BOOLEAN /\ due \in BOOLEAN

-----------------------------------------------------------------------------
(* Types *)

LEMMA Constants ==
    /\ Horizon \in Nat /\ Horizon >= 1
    /\ 0 \notin Streams /\ Streams \subseteq Nat /\ None \notin Keys
    /\ MaxFlows \in Nat /\ MarkerCap \in Nat /\ ClosingCap \in Nat
    /\ MaxFlows >= 1 /\ MarkerCap >= 1 /\ ClosingCap >= 1
BY LaneAssumption DEF Horizon

LEMMA Blanks == NoFlow \in FlowRec /\ NoPcb \in PcbRec /\ NoConn \in ConnRec
BY Constants DEF NoFlow, NoPcb, NoConn, FlowRec, PcbRec, ConnRec, FlowStates

LEMMA MemoryFields ==
    ASSUME NEW x \in Memory
    PROVE  /\ x.chain \in Seq(Keys)
           /\ x.flow \in [Keys -> FlowRec]
           /\ x.n \in [Populations -> Int]
           /\ x.pcb \in [Keys -> PcbRec]
           /\ x.stream \in [Streams -> {"free", "open", "ended"}]
           /\ x.app \in [Keys -> ConnRec]
BY DEF Memory

LEMMA FlowFields ==
    ASSUME NEW f \in FlowRec
    PROVE  /\ f.state \in FlowStates /\ f.pcb \in BOOLEAN /\ f.stream \in Streams \cup {0}
           /\ f.isn \in 0..1 /\ f.age \in 0..Horizon /\ f.paused \in BOOLEAN
BY DEF FlowRec

LEMMA FlowSet ==
    ASSUME NEW x \in Memory, NEW k \in Keys, NEW f \in FlowRec
    PROVE  /\ [x EXCEPT !.flow[k] = f] \in Memory
           /\ [x EXCEPT !.flow[k] = f].chain = x.chain
           /\ [x EXCEPT !.flow[k] = f].flow = [x.flow EXCEPT ![k] = f]
           /\ [x EXCEPT !.flow[k] = f].n = x.n
           /\ [x EXCEPT !.flow[k] = f].pcb = x.pcb
           /\ [x EXCEPT !.flow[k] = f].stream = x.stream
           /\ [x EXCEPT !.flow[k] = f].app = x.app
BY DEF Memory

(* What most steps do: they change a key's flow, its pcb and its           *)
(* connection, or a stream.                                                *)
Put(x, k, f, p, a) == [x EXCEPT !.flow[k] = f, !.pcb[k] = p, !.app[k] = a]

LEMMA PutFields ==
    ASSUME NEW x \in Memory, NEW k \in Keys, NEW f \in FlowRec, NEW p \in PcbRec, NEW a \in ConnRec
    PROVE  /\ Put(x, k, f, p, a) \in Memory
           /\ Put(x, k, f, p, a).chain = x.chain
           /\ Put(x, k, f, p, a).n = x.n
           /\ Put(x, k, f, p, a).stream = x.stream
           /\ Put(x, k, f, p, a).flow[k] = f
           /\ Put(x, k, f, p, a).pcb[k] = p
           /\ Put(x, k, f, p, a).app[k] = a
           /\ \A j \in Keys : j # k => /\ Put(x, k, f, p, a).flow[j] = x.flow[j]
                                       /\ Put(x, k, f, p, a).pcb[j] = x.pcb[j]
                                       /\ Put(x, k, f, p, a).app[j] = x.app[j]
<1> DEFINE y == [x EXCEPT !.flow[k] = f]
           z == [y EXCEPT !.pcb[k] = p]
           u == [z EXCEPT !.app[k] = a]
<1>1. y \in Memory
  BY FlowSet
<1>2. z \in Memory
  <2> HIDE DEF y
  <2> QED
    BY <1>1 DEF Memory
<1>3. u \in Memory
  <2> HIDE DEF z
  <2> QED
    BY <1>2 DEF Memory
<1>4. Put(x, k, f, p, a) = u
  BY DEF Put
<1>5. /\ u.chain = x.chain /\ u.n = x.n /\ u.stream = x.stream
      /\ u.flow = [x.flow EXCEPT ![k] = f]
      /\ u.pcb = [x.pcb EXCEPT ![k] = p]
      /\ u.app = [x.app EXCEPT ![k] = a]
  BY DEF Memory
<1> HIDE DEF u
<1>6. u.flow[k] = f /\ u.pcb[k] = p /\ u.app[k] = a
  BY <1>5, MemoryFields
<1>7. \A j \in Keys : j # k => u.flow[j] = x.flow[j] /\ u.pcb[j] = x.pcb[j] /\ u.app[j] = x.app[j]
  BY <1>5, MemoryFields
<1> QED
  BY <1>3, <1>4, <1>5, <1>6, <1>7

LEMMA StreamSet ==
    ASSUME NEW x \in Memory, NEW s \in Streams, NEW v \in {"free", "open", "ended"}
    PROVE  /\ [x EXCEPT !.stream[s] = v] \in Memory
           /\ [x EXCEPT !.stream[s] = v].chain = x.chain
           /\ [x EXCEPT !.stream[s] = v].flow = x.flow
           /\ [x EXCEPT !.stream[s] = v].n = x.n
           /\ [x EXCEPT !.stream[s] = v].pcb = x.pcb
           /\ [x EXCEPT !.stream[s] = v].stream = [x.stream EXCEPT ![s] = v]
           /\ [x EXCEPT !.stream[s] = v].app = x.app
BY DEF Memory

Phases == {"new", "raw", "tcp", "est", "over", "mixed"}

LEMMA PhaseSet ==
    ASSUME NEW x \in Memory, NEW k \in Keys, NEW v \in Phases
    PROVE  /\ [x EXCEPT !.app[k].phase = v] \in Memory
           /\ [x EXCEPT !.app[k].phase = v] = Put(x, k, x.flow[k], x.pcb[k], [x.app[k] EXCEPT !.phase = v])
           /\ [x.app[k] EXCEPT !.phase = v] \in ConnRec
           /\ [x.app[k] EXCEPT !.phase = v].phase = v
           /\ [x.app[k] EXCEPT !.phase = v].isn = x.app[k].isn
<1>1. x.app[k] \in ConnRec
  BY MemoryFields
<1>2. [x.app[k] EXCEPT !.phase = v] \in ConnRec
  BY <1>1 DEF ConnRec, Phases
<1>3. /\ [x.app[k] EXCEPT !.phase = v].phase = v
      /\ [x.app[k] EXCEPT !.phase = v].isn = x.app[k].isn
  BY <1>1 DEF ConnRec
<1>4. [x EXCEPT !.app[k].phase = v] = Put(x, k, x.flow[k], x.pcb[k], [x.app[k] EXCEPT !.phase = v])
  BY MemoryFields DEF Put, Memory
<1>5. [x EXCEPT !.app[k] = [x.app[k] EXCEPT !.phase = v]] \in Memory
  BY <1>2 DEF Memory
<1>6. [x EXCEPT !.app[k].phase = v] = [x EXCEPT !.app[k] = [x.app[k] EXCEPT !.phase = v]]
  BY DEF Memory
<1> QED
  BY <1>2, <1>3, <1>4, <1>5, <1>6

LEMMA FlowUpdates ==
    ASSUME NEW f \in FlowRec
    PROVE  /\ \A v \in {"pending_stream", "active", "closing"} : [f EXCEPT !.state = v] \in FlowRec
           /\ \A v \in BOOLEAN : [f EXCEPT !.pcb = v] \in FlowRec /\ [f EXCEPT !.paused = v] \in FlowRec
           /\ \A v \in Streams \cup {0} : [f EXCEPT !.stream = v] \in FlowRec
           /\ \A v \in 0..Horizon : [f EXCEPT !.age = v] \in FlowRec
           /\ [f EXCEPT !.age = 0] \in FlowRec
<1>1. 0 \in 0..Horizon /\ {"pending_stream", "active", "closing"} \subseteq FlowStates
  BY Constants DEF FlowStates
<1> QED
  BY <1>1 DEF FlowRec

LEMMA PopulationType == \A state : Population(state) \in Populations
BY DEF Population, Populations

-----------------------------------------------------------------------------
(* The chain *)

LEMMA ChainRemoved ==
    ASSUME NEW s \in Seq(Keys), NEW K, NEW p \in 1..Len(s), s[p] \in K, Lists(s, K)
    PROVE  RemoveAt(s, p) \in Seq(Keys) /\ Lists(RemoveAt(s, p), K \ {s[p]})
<1> DEFINE r == RemoveAt(s, p)
           n == Len(s)
<1>n. n \in Nat /\ p \in 1..n
  OBVIOUS
<1> DEFINE a == SubSeq(s, 1, p - 1)
           b == SubSeq(s, p + 1, n)
<1>b. a \in Seq(Keys) /\ Len(a) = p - 1 /\ \A i \in 1..(p - 1) : a[i] = s[i]
  BY <1>n
<1>c. b \in Seq(Keys) /\ Len(b) = n - p /\ \A i \in 1..(n - p) : b[i] = s[p + i]
  BY <1>n
<1>r. r = a \o b
  BY DEF RemoveAt
<1>d. /\ r \in Seq(Keys) /\ Len(r) = Len(a) + Len(b)
      /\ \A i \in 1..(Len(a) + Len(b)) : r[i] = IF i <= Len(a) THEN a[i] ELSE b[i - Len(a)]
  <2> HIDE DEF a, b, r
  <2> QED
    BY <1>b, <1>c, <1>r, ConcatProperties
<1> HIDE DEF a, b
<1>1. r \in Seq(Keys) /\ Len(r) = n - 1
  BY <1>n, <1>b, <1>c, <1>d
<1>2. \A i \in 1..(n - 1) : r[i] = IF i < p THEN s[i] ELSE s[i + 1]
  <2> HIDE DEF r, n
  <2>1. SUFFICES ASSUME NEW i \in 1..(n - 1) PROVE r[i] = IF i < p THEN s[i] ELSE s[i + 1]
    OBVIOUS
  <2>2. i \in 1..(Len(a) + Len(b)) /\ Len(a) = p - 1
    BY <1>n, <1>b, <1>c
  <2>3. CASE i < p
    BY <1>n, <2>2, <2>3, <1>b, <1>d
  <2>4. CASE ~(i < p)
    <3>1. i - (p - 1) \in 1..(n - p) /\ p + (i - (p - 1)) = i + 1
      BY <1>n, <2>4
    <3> QED
      BY <1>n, <2>2, <2>4, <3>1, <1>c, <1>d
  <2> QED
    BY <2>3, <2>4
<1>3. \A i, j \in 1..n : s[i] = s[j] => i = j
  BY DEF Lists
<1>4. \A k \in Keys : k \in K <=> \E i \in 1..n : s[i] = k
  BY DEF Lists
<1>k. \A i \in 1..n : s[i] \in Keys
  OBVIOUS
<1> HIDE DEF r, n
<1>5. \A i, j \in 1..(n - 1) : r[i] = r[j] => i = j
  BY <1>n, <1>2, <1>3
<1>6. \A i \in 1..(n - 1) : r[i] \in K /\ r[i] # s[p]
  BY SMTT(90), <1>n, <1>2, <1>3, <1>4, <1>k
<1>7. ASSUME NEW k \in Keys, k \in K, k # s[p]
      PROVE  \E i \in 1..(n - 1) : r[i] = k
  <2>1. PICK i \in 1..n : s[i] = k
    BY <1>4, <1>7
  <2>2. i # p
    BY <2>1, <1>7
  <2>3. CASE i < p
    BY <1>n, <2>1, <2>3, <1>2
  <2>4. CASE i > p
    <3>1. i - 1 \in 1..(n - 1) /\ ~(i - 1 < p) /\ (i - 1) + 1 = i
      BY <1>n, <2>4
    <3> QED
      BY <3>1, <2>1, <1>2
  <2> QED
    BY <1>n, <2>2, <2>3, <2>4
<1> QED
  BY <1>1, <1>5, <1>6, <1>7, <1>n DEF Lists, r

LEMMA ChainPushed ==
    ASSUME NEW s \in Seq(Keys), NEW K, NEW k \in Keys, k \notin K, Lists(s, K)
    PROVE  <<k>> \o s \in Seq(Keys) /\ Lists(<<k>> \o s, K \cup {k})
<1> DEFINE r == <<k>> \o s
           n == Len(s)
<1>n. n \in Nat
  OBVIOUS
<1>1. r \in Seq(Keys) /\ Len(r) = n + 1
  OBVIOUS
<1>2. \A i \in 1..(n + 1) : r[i] = IF i = 1 THEN k ELSE s[i - 1]
  OBVIOUS
<1>3. \A i, j \in 1..n : s[i] = s[j] => i = j
  BY DEF Lists
<1>4. \A j \in Keys : j \in K <=> \E i \in 1..n : s[i] = j
  BY DEF Lists
<1>k. \A i \in 1..n : s[i] \in Keys
  OBVIOUS
<1> HIDE DEF r, n
<1>5. \A i \in 1..(n + 1) : i # 1 => i - 1 \in 1..n /\ s[i - 1] \in K
  BY <1>n, <1>4, <1>k
<1>6. \A i, j \in 1..(n + 1) : r[i] = r[j] => i = j
  BY <1>n, <1>2, <1>3, <1>5
<1>7. ASSUME NEW j \in Keys
      PROVE  j \in K \cup {k} <=> \E i \in 1..(n + 1) : r[i] = j
  <2>1. CASE j = k
    BY <1>n, <1>2, <2>1
  <2>2. ASSUME j \in K PROVE \E i \in 1..(n + 1) : r[i] = j
    <3>1. PICK i \in 1..n : s[i] = j
      BY <1>4, <2>2
    <3>2. i + 1 \in 1..(n + 1) /\ i + 1 # 1 /\ (i + 1) - 1 = i
      BY <1>n
    <3> QED
      BY <3>1, <3>2, <1>2
  <2>3. ASSUME NEW i \in 1..(n + 1), r[i] = j PROVE j \in K \cup {k}
    BY <2>3, <1>2, <1>5
  <2> QED
    BY <2>1, <2>2, <2>3
<1> QED
  BY <1>1, <1>6, <1>7 DEF Lists, r

-----------------------------------------------------------------------------
(* The table: the chain, the entries and the counters *)

Table(x) == x \in Memory /\ Lists(x.chain, Entries(x)) /\ Counts(x) /\ Capped(x)

(* The same entries, each in its population. *)
SameEntries(x, y) ==
    \A k \in Keys : /\ InTable(y, k) <=> InTable(x, k)
                    /\ InTable(x, k) => Population(y.flow[k].state) = Population(x.flow[k].state)

LEMMA SameTable ==
    ASSUME NEW x, NEW y \in Memory, Table(x), y.chain = x.chain, y.n = x.n, SameEntries(x, y)
    PROVE  Table(y)
<1>1. Entries(y) = Entries(x)
  BY DEF Entries, SameEntries
<1>2. \A p \in Populations : Members(y, p) = Members(x, p)
  BY DEF Members, SameEntries
<1>3. Counts(y)
  BY <1>2 DEF Table, Counts
<1> QED
  BY <1>1, <1>3 DEF Table, Capped

(* The states of the entries are all a table depends on. *)
LEMMA SameStates ==
    ASSUME NEW x, NEW y \in Memory, Table(x), y.chain = x.chain, y.n = x.n,
           \A k \in Keys : y.flow[k].state = x.flow[k].state
    PROVE  Table(y)
<1>1. SameEntries(x, y)
  BY DEF SameEntries, InTable
<1> QED
  BY <1>1, SameTable

LEMMA CountsType ==
    ASSUME NEW x, Table(x), NEW p \in Populations
    PROVE  x.n[p] \in Nat /\ (x.n[p] = 0 <=> Members(x, p) = {})
BY FS_CardinalityType, FS_EmptySet DEF Table, Counts

(* Where an entry is. *)
LEMMA PlaceFound ==
    ASSUME NEW x, Table(x), NEW k \in Keys, InTable(x, k)
    PROVE  Place(x, k) \in 1..Len(x.chain) /\ x.chain[Place(x, k)] = k
<1>1. x.chain \in Seq(Keys)
  BY MemoryFields DEF Table
<1>2. \E i \in 1..Len(x.chain) : x.chain[i] = k
  BY DEF Table, Lists, Entries
<1>3. DOMAIN x.chain = 1..Len(x.chain)
  BY <1>1
<1> QED
  BY <1>2, <1>3 DEF Place

LEMMA RemoveFields ==
    ASSUME NEW x \in Memory, NEW k \in Keys
    PROVE  /\ RemoveFlow(x, k).chain = RemoveAt(x.chain, Place(x, k))
           /\ RemoveFlow(x, k).flow = [x.flow EXCEPT ![k] = NoFlow]
           /\ RemoveFlow(x, k).n = [x.n EXCEPT ![Population(x.flow[k].state)] = @ - 1]
           /\ RemoveFlow(x, k).pcb = x.pcb /\ RemoveFlow(x, k).stream = x.stream
           /\ RemoveFlow(x, k).app = x.app
BY DEF RemoveFlow, Memory

LEMMA RemoveType ==
    ASSUME NEW x \in Memory, NEW k \in Keys, RemoveAt(x.chain, Place(x, k)) \in Seq(Keys)
    PROVE  RemoveFlow(x, k) \in Memory
<1>1. [x.flow EXCEPT ![k] = NoFlow] \in [Keys -> FlowRec]
  BY MemoryFields, Blanks
<1>2. [x.n EXCEPT ![Population(x.flow[k].state)] = @ - 1] \in [Populations -> Int]
  BY MemoryFields, PopulationType
<1> QED
  BY <1>1, <1>2 DEF RemoveFlow, Memory

(* tcp_lane_remove_flow takes one entry out and corrects its counter. *)
LEMMA RemoveTable ==
    ASSUME NEW x, Table(x), NEW k \in Keys, InTable(x, k)
    PROVE  /\ Table(RemoveFlow(x, k))
           /\ \A p \in Populations : RemoveFlow(x, k).n[p] <= x.n[p]
           /\ RemoveFlow(x, k).n[Population(x.flow[k].state)] = x.n[Population(x.flow[k].state)] - 1
<1> DEFINE y == RemoveFlow(x, k)
           q == Population(x.flow[k].state)
<1>m. x \in Memory
  BY DEF Table
<1>q. q \in Populations
  BY PopulationType
<1>1. Place(x, k) \in 1..Len(x.chain) /\ x.chain[Place(x, k)] = k
  BY PlaceFound
<1>2. /\ y.chain = RemoveAt(x.chain, Place(x, k))
      /\ y.flow = [x.flow EXCEPT ![k] = NoFlow]
      /\ y.n = [x.n EXCEPT ![q] = @ - 1]
  BY <1>m, RemoveFields
<1>3. k \in Entries(x)
  BY DEF Entries
<1>4. y.chain \in Seq(Keys) /\ Lists(y.chain, Entries(x) \ {k})
  BY SMTT(90), <1>1, <1>2, <1>3, <1>m, MemoryFields, ChainRemoved DEF Table
<1>5. y \in Memory
  BY <1>2, <1>4, <1>m, RemoveType
<1>f. x.flow \in [Keys -> FlowRec] /\ x.n \in [Populations -> Int]
  BY <1>m, MemoryFields
<1> HIDE DEF y, q
<1>6. /\ \A j \in Keys : j # k => y.flow[j] = x.flow[j]
      /\ y.flow[k] = NoFlow
  BY <1>2, <1>f
<1>7. Entries(y) = Entries(x) \ {k}
  BY <1>6 DEF Entries, InTable, NoFlow
<1>8. \A p \in Populations : Members(y, p) = IF p = q THEN Members(x, p) \ {k} ELSE Members(x, p)
  BY <1>6 DEF Members, InTable, NoFlow, q
<1>9. k \in Members(x, q)
  BY DEF Members, q
<1>10. \A p \in Populations : y.n[p] = IF p = q THEN x.n[p] - 1 ELSE x.n[p]
  BY <1>2, <1>f
<1>11. ASSUME NEW p \in Populations
       PROVE  IsFiniteSet(Members(y, p)) /\ y.n[p] = Cardinality(Members(y, p))
  <2>1. IsFiniteSet(Members(x, p)) /\ x.n[p] = Cardinality(Members(x, p))
    BY DEF Table, Counts
  <2>2. CASE p = q
    <3>1. /\ IsFiniteSet(Members(x, p) \ {k})
          /\ Cardinality(Members(x, p) \ {k}) = Cardinality(Members(x, p)) - 1
      BY <2>1, <2>2, <1>9, FS_RemoveElement
    <3> QED
      BY <3>1, <2>1, <2>2, <1>8, <1>10
  <2>3. CASE p # q
    BY <2>1, <2>3, <1>8, <1>10
  <2> QED
    BY <2>2, <2>3
<1>12. \A p \in Populations : y.n[p] <= x.n[p]
  BY <1>10, <1>f
<1>13. Capped(y)
  <2>1. y.n["tcp"] <= x.n["tcp"] /\ y.n["raw"] <= x.n["raw"] /\ y.n["closing"] <= x.n["closing"]
    BY <1>12 DEF Populations
  <2>2. {x.n["tcp"], x.n["raw"], x.n["closing"], y.n["tcp"], y.n["raw"], y.n["closing"]} \subseteq Int
    BY <1>10, <1>f DEF Populations
  <2> QED
    BY <2>1, <2>2, Constants DEF Table, Capped
<1> QED
  BY <1>4, <1>5, <1>7, <1>11, <1>12, <1>13, <1>10, <1>q DEF Table, Counts, y, q

(* What on_syn inserts: the flow f, at the head, counted in q. *)
Inserted(x, k, f, q) == [x EXCEPT !.flow[k] = f, !.chain = <<k>> \o @, !.n[q] = @ + 1]

LEMMA InsertFields ==
    ASSUME NEW x \in Memory, NEW k \in Keys, NEW f \in FlowRec, NEW q \in Populations
    PROVE  /\ Inserted(x, k, f, q).chain = <<k>> \o x.chain
           /\ Inserted(x, k, f, q).flow = [x.flow EXCEPT ![k] = f]
           /\ Inserted(x, k, f, q).n = [x.n EXCEPT ![q] = @ + 1]
           /\ Inserted(x, k, f, q).pcb = x.pcb /\ Inserted(x, k, f, q).stream = x.stream
           /\ Inserted(x, k, f, q).app = x.app
BY DEF Inserted, Memory

LEMMA InsertType ==
    ASSUME NEW x \in Memory, NEW k \in Keys, NEW f \in FlowRec, NEW q \in Populations
    PROVE  Inserted(x, k, f, q) \in Memory
<1>1. [x.flow EXCEPT ![k] = f] \in [Keys -> FlowRec]
  BY MemoryFields
<1>2. [x.n EXCEPT ![q] = @ + 1] \in [Populations -> Int]
  BY MemoryFields
<1>3. <<k>> \o x.chain \in Seq(Keys)
  BY MemoryFields
<1> QED
  BY <1>1, <1>2, <1>3 DEF Inserted, Memory

Cap(q) == IF q = "tcp" THEN MaxFlows ELSE IF q = "raw" THEN MarkerCap ELSE ClosingCap

LEMMA CapType == \A q \in Populations : Cap(q) \in Nat
BY Constants DEF Cap

LEMMA CappedAll ==
    ASSUME NEW x
    PROVE  Capped(x) <=> \A q \in Populations : x.n[q] <= Cap(q)
BY DEF Capped, Cap, Populations

LEMMA InsertTable ==
    ASSUME NEW x, Table(x), NEW k \in Keys, ~InTable(x, k), NEW f \in FlowRec,
           f.state # "absent", NEW q \in Populations, q = Population(f.state), ~(x.n[q] >= Cap(q))
    PROVE  Table(Inserted(x, k, f, q))
<1> DEFINE y == Inserted(x, k, f, q)
<1>m. x \in Memory
  BY DEF Table
<1>1. /\ y.chain = <<k>> \o x.chain
      /\ y.flow = [x.flow EXCEPT ![k] = f]
      /\ y.n = [x.n EXCEPT ![q] = @ + 1]
      /\ y \in Memory
  BY <1>m, InsertFields, InsertType
<1>2. k \notin Entries(x)
  BY DEF Entries
<1>f. x.flow \in [Keys -> FlowRec] /\ x.n \in [Populations -> Int] /\ x.chain \in Seq(Keys)
  BY <1>m, MemoryFields
<1> HIDE DEF y
<1>3. Lists(y.chain, Entries(x) \cup {k})
  <2>1. Lists(x.chain, Entries(x))
    BY DEF Table
  <2> DEFINE s == x.chain
             K == Entries(x)
  <2>2. s \in Seq(Keys) /\ k \notin K /\ Lists(s, K)
    BY <2>1, <1>2, <1>f
  <2> HIDE DEF s, K
  <2>3. Lists(<<k>> \o s, K \cup {k})
    BY <2>2, ChainPushed
  <2> QED
    BY <2>3, <1>1 DEF s, K
<1>6. /\ \A j \in Keys : j # k => y.flow[j] = x.flow[j]
      /\ y.flow[k] = f
  BY <1>1, <1>f
<1>7. Entries(y) = Entries(x) \cup {k}
  BY <1>6 DEF Entries, InTable
<1>8. \A p \in Populations : Members(y, p) = IF p = q THEN Members(x, p) \cup {k} ELSE Members(x, p)
  BY <1>6 DEF Members, InTable
<1>9. k \notin Members(x, q)
  BY DEF Members
<1>10. \A p \in Populations : y.n[p] = IF p = q THEN x.n[p] + 1 ELSE x.n[p]
  BY <1>1, <1>f
<1>11. ASSUME NEW p \in Populations
       PROVE  IsFiniteSet(Members(y, p)) /\ y.n[p] = Cardinality(Members(y, p))
  <2>1. IsFiniteSet(Members(x, p)) /\ x.n[p] = Cardinality(Members(x, p))
    BY DEF Table, Counts
  <2>2. CASE p = q
    <3>1. /\ IsFiniteSet(Members(x, p) \cup {k})
          /\ Cardinality(Members(x, p) \cup {k}) = Cardinality(Members(x, p)) + 1
      BY <2>1, <2>2, <1>9, FS_AddElement
    <3> QED
      BY <3>1, <2>1, <2>2, <1>8, <1>10
  <2>3. CASE p # q
    BY <2>1, <2>3, <1>8, <1>10
  <2> QED
    BY <2>2, <2>3
<1>12. \A p \in Populations : y.n[p] <= Cap(p)
  <2>1. \A p \in Populations : x.n[p] <= Cap(p)
    BY CappedAll DEF Table
  <2>2. x.n[q] + 1 <= Cap(q)
    BY <1>f, CapType
  <2> QED
    BY <2>1, <2>2, <1>10
<1> QED
  BY <1>1, <1>3, <1>7, <1>11, <1>12, CappedAll DEF Table, Counts, y

(* What tcp_lane_mark_closing does after it made room. *)
Marked(x, k) ==
    [x EXCEPT !.n["tcp"] = @ - 1, !.n["closing"] = @ + 1,
              !.flow[k].state = "closing", !.flow[k].age = 0, !.flow[k].paused = FALSE]

Marker(f) == [f EXCEPT !.state = "closing", !.age = 0, !.paused = FALSE]

LEMMA MarkerType ==
    ASSUME NEW f \in FlowRec
    PROVE  /\ Marker(f) \in FlowRec
           /\ Marker(f).state = "closing" /\ Marker(f).pcb = f.pcb /\ Marker(f).stream = f.stream
           /\ Marker(f).paused = FALSE
<1>1. 0 \in 0..Horizon /\ "closing" \in FlowStates
  BY Constants DEF FlowStates
<1>2. Marker(f) \in FlowRec
  BY <1>1 DEF Marker, FlowRec
<1>3. /\ Marker(f).state = "closing" /\ Marker(f).pcb = f.pcb /\ Marker(f).stream = f.stream
      /\ Marker(f).paused = FALSE
  BY DEF Marker, FlowRec
<1> QED
  BY <1>2, <1>3

LEMMA MarkFields ==
    ASSUME NEW x \in Memory, NEW k \in Keys
    PROVE  /\ Marked(x, k).chain = x.chain
           /\ Marked(x, k).flow = [x.flow EXCEPT ![k] = Marker(x.flow[k])]
           /\ Marked(x, k).n = [x.n EXCEPT !["tcp"] = @ - 1, !["closing"] = @ + 1]
           /\ Marked(x, k).pcb = x.pcb /\ Marked(x, k).stream = x.stream
           /\ Marked(x, k).app = x.app
BY MemoryFields DEF Marked, Marker, Memory

LEMMA MarkType ==
    ASSUME NEW x \in Memory, NEW k \in Keys
    PROVE  Marked(x, k) \in Memory
<1>1. [x.flow EXCEPT ![k] = Marker(x.flow[k])] \in [Keys -> FlowRec]
  BY MemoryFields, MarkerType
<1>2. [x.n EXCEPT !["tcp"] = @ - 1, !["closing"] = @ + 1] \in [Populations -> Int]
  BY MemoryFields DEF Populations
<1> DEFINE a == [x EXCEPT !.n["tcp"] = @ - 1]
           b == [a EXCEPT !.n["closing"] = @ + 1]
           c == [b EXCEPT !.flow[k].state = "closing"]
           d == [c EXCEPT !.flow[k].age = 0]
<1>4. a \in Memory
  BY DEF Memory, Populations
<1>5. b \in Memory
  <2> HIDE DEF a
  <2> QED
    BY SMTT(90), <1>4 DEF Memory, Populations
<1>6. c \in Memory
  <2> HIDE DEF b
  <2>0. b.flow[k] \in FlowRec
    BY <1>5, MemoryFields
  <2>1. [b.flow[k] EXCEPT !.state = "closing"] \in FlowRec
    BY <2>0, FlowUpdates
  <2>2. c = [b EXCEPT !.flow[k] = [b.flow[k] EXCEPT !.state = "closing"]]
    BY <1>5 DEF Memory
  <2> QED
    BY <1>5, <2>1, <2>2, FlowSet
<1>7. d \in Memory
  <2> HIDE DEF c
  <2>0. c.flow[k] \in FlowRec
    BY <1>6, MemoryFields
  <2>1. [c.flow[k] EXCEPT !.age = 0] \in FlowRec
    BY <2>0, FlowUpdates
  <2>2. d = [c EXCEPT !.flow[k] = [c.flow[k] EXCEPT !.age = 0]]
    BY <1>6 DEF Memory
  <2> QED
    BY <1>6, <2>1, <2>2, FlowSet
<1>8. [d EXCEPT !.flow[k].paused = FALSE] \in Memory
  <2> HIDE DEF d
  <2>0. d.flow[k] \in FlowRec
    BY <1>7, MemoryFields
  <2>1. [d.flow[k] EXCEPT !.paused = FALSE] \in FlowRec
    BY <2>0, FlowUpdates
  <2>2. [d EXCEPT !.flow[k].paused = FALSE] = [d EXCEPT !.flow[k] = [d.flow[k] EXCEPT !.paused = FALSE]]
    BY <1>7 DEF Memory
  <2> QED
    BY <1>7, <2>1, <2>2, FlowSet
<1> QED
  BY ZenonT(90), <1>8 DEF Marked

LEMMA MarkTable ==
    ASSUME NEW x, Table(x), NEW k \in Keys, InTable(x, k), Population(x.flow[k].state) = "tcp",
           ~(x.n["closing"] >= ClosingCap)
    PROVE  Table(Marked(x, k))
<1> DEFINE y == Marked(x, k)
<1>m. x \in Memory
  BY DEF Table
<1>1. /\ y.chain = x.chain
      /\ y.flow = [x.flow EXCEPT ![k] = Marker(x.flow[k])]
      /\ y.n = [x.n EXCEPT !["tcp"] = @ - 1, !["closing"] = @ + 1]
      /\ y \in Memory
  BY <1>m, MarkFields, MarkType
<1>f. x.flow \in [Keys -> FlowRec] /\ x.n \in [Populations -> Int]
  BY <1>m, MemoryFields
<1> HIDE DEF y
<1>2. /\ \A j \in Keys : j # k => y.flow[j] = x.flow[j]
      /\ y.flow[k].state = "closing"
  <2>1. y.flow[k] = Marker(x.flow[k]) /\ x.flow[k] \in FlowRec
    BY <1>1, <1>f
  <2>2. y.flow[k].state = "closing"
    BY <2>1, MarkerType
  <2> QED
    BY <2>2, <1>1, <1>f
<1>3. Entries(y) = Entries(x)
  BY <1>2 DEF Entries, InTable
<1>p. "tcp" \in Populations /\ "closing" \in Populations
  BY DEF Populations
<1>4. /\ Members(y, "tcp") = Members(x, "tcp") \ {k} /\ k \in Members(x, "tcp")
      /\ Members(y, "closing") = Members(x, "closing") \cup {k} /\ k \notin Members(x, "closing")
  BY <1>2 DEF Members, InTable, Population
<1>5. \A p \in Populations \ {"tcp", "closing"} : Members(y, p) = Members(x, p)
  BY <1>2 DEF Members, InTable, Population
<1>6. /\ y.n["tcp"] = x.n["tcp"] - 1 /\ y.n["closing"] = x.n["closing"] + 1
      /\ \A p \in Populations \ {"tcp", "closing"} : y.n[p] = x.n[p]
  BY <1>1, <1>f, <1>p
<1>7. \A p \in Populations : IsFiniteSet(Members(x, p)) /\ x.n[p] = Cardinality(Members(x, p))
  BY DEF Table, Counts
<1>8. IsFiniteSet(Members(y, "tcp")) /\ y.n["tcp"] = Cardinality(Members(y, "tcp"))
  <2>1. /\ IsFiniteSet(Members(x, "tcp") \ {k})
        /\ Cardinality(Members(x, "tcp") \ {k}) = Cardinality(Members(x, "tcp")) - 1
    BY <1>4, <1>7, <1>p, FS_RemoveElement
  <2> QED
    BY <2>1, <1>4, <1>6, <1>7, <1>p
<1>9. IsFiniteSet(Members(y, "closing")) /\ y.n["closing"] = Cardinality(Members(y, "closing"))
  <2>1. /\ IsFiniteSet(Members(x, "closing") \cup {k})
        /\ Cardinality(Members(x, "closing") \cup {k}) = Cardinality(Members(x, "closing")) + 1
    BY <1>4, <1>7, <1>p, FS_AddElement
  <2> QED
    BY <2>1, <1>4, <1>6, <1>7, <1>p
<1>10. Counts(y)
  BY <1>5, <1>6, <1>7, <1>8, <1>9 DEF Counts
<1>11. Capped(y)
  <2>1. x.n["tcp"] \in Int /\ x.n["closing"] \in Int /\ x.n["tcp"] <= MaxFlows /\ x.n["raw"] <= MarkerCap
    BY <1>f, <1>p DEF Table, Capped
  <2>2. y.n["raw"] = x.n["raw"]
    BY <1>6 DEF Populations
  <2> QED
    BY <2>1, <2>2, <1>6, Constants DEF Capped
<1> QED
  BY <1>1, <1>3, <1>10, <1>11 DEF Table, y

-----------------------------------------------------------------------------
(* Streams and the flows bound to them *)

LEMMA BindsSame ==
    ASSUME NEW flow, NEW g, NEW stream, Binds(flow, stream),
           \A k \in Keys : g[k].stream = flow[k].stream
    PROVE  Binds(g, stream)
BY DEF Binds

LEMMA BindsKept ==
    ASSUME NEW x, NEW y, Binds(x.flow, x.stream), y.stream = x.stream,
           \A k \in Keys : y.flow[k].stream = x.flow[k].stream
    PROVE  Binds(y.flow, y.stream)
BY DEF Binds

(* A request ends and its flow forgets it. *)
Unbound(x, y, k, s) ==
    /\ x.stream \in [Streams -> {"free", "open", "ended"}]
    /\ k \in Keys /\ s \in Streams /\ x.flow[k].stream = s /\ y.flow[k].stream = 0
    /\ \A j \in Keys : j # k => y.flow[j].stream = x.flow[j].stream
    /\ \E v \in {"free", "ended"} : y.stream = [x.stream EXCEPT ![s] = v]

LEMMA Unbinds ==
    ASSUME NEW x, NEW y, NEW k, NEW s, Unbound(x, y, k, s), Binds(x.flow, x.stream)
    PROVE  Binds(y.flow, y.stream)
BY Constants DEF Binds, Unbound

(* A request that no flow is bound to. *)
LEMMA BindsOther ==
    ASSUME NEW x, x.stream \in [Streams -> {"free", "open", "ended"}], Binds(x.flow, x.stream),
           NEW s \in Streams, x.stream[s] # "open", NEW v \in {"free", "ended"}
    PROVE  Binds(x.flow, [x.stream EXCEPT ![s] = v])
BY DEF Binds

(* A request is opened for a flow that has none. *)
Bound(x, y, k, s) ==
    /\ x.stream \in [Streams -> {"free", "open", "ended"}]
    /\ k \in Keys /\ s \in Streams /\ x.stream[s] = "free" /\ x.flow[k].stream = 0
    /\ y.flow[k].stream = s
    /\ \A j \in Keys : j # k => y.flow[j].stream = x.flow[j].stream
    /\ y.stream = [x.stream EXCEPT ![s] = "open"]

LEMMA BindsMore ==
    ASSUME NEW x, NEW y, NEW k, NEW s, Bound(x, y, k, s), Binds(x.flow, x.stream)
    PROVE  Binds(y.flow, y.stream)
BY Constants DEF Binds, Bound

-----------------------------------------------------------------------------
(* The keys *)

OK(x, k) == KeyOK(x.flow[k], x.pcb[k], x.app[k])

(* The invariant of a memory without the streams. *)
Sound(x) == Table(x) /\ \A k \in Keys : OK(x, k)

LEMMA ConsistentParts ==
    ASSUME NEW x
    PROVE  Consistent(x) <=> Sound(x) /\ Binds(x.flow, x.stream)
BY DEF Consistent, Sound, Table, OK

(* y has the flows of x but not k. *)
Without(x, y, k) ==
    /\ y.flow[k] = NoFlow
    /\ \A j \in Keys : j # k => y.flow[j] = x.flow[j]

(* What lets the entry of k be removed. *)
Loose(f, p, a) ==
    /\ f.pcb = FALSE /\ f.stream = 0
    /\ p.state # "established" /\ a.phase \notin {"est", "raw", "mixed"}

LEMMA LooseKey ==
    ASSUME NEW f, NEW p, NEW a, Loose(f, p, a)
    PROVE  KeyOK(NoFlow, p, a)
BY DEF KeyOK, Loose, NoFlow

LEMMA RemoveSound ==
    ASSUME NEW x, Table(x), NEW k \in Keys, InTable(x, k), Loose(x.flow[k], x.pcb[k], x.app[k]),
           \A j \in Keys : j # k => OK(x, j)
    PROVE  /\ Sound(RemoveFlow(x, k)) /\ Without(x, RemoveFlow(x, k), k)
           /\ RemoveFlow(x, k).stream = x.stream
           /\ \A j \in Keys : RemoveFlow(x, k).flow[j].stream = x.flow[j].stream
<1> DEFINE y == RemoveFlow(x, k)
<1>1. Table(y)
  BY RemoveTable
<1>2. /\ y.flow = [x.flow EXCEPT ![k] = NoFlow]
      /\ y.pcb = x.pcb /\ y.stream = x.stream /\ y.app = x.app
  BY RemoveFields DEF Table
<1>f. x.flow \in [Keys -> FlowRec]
  BY MemoryFields DEF Table
<1> HIDE DEF y
<1>3. Without(x, y, k)
  BY <1>2, <1>f DEF Without
<1>4. OK(y, k)
  BY <1>2, <1>3, LooseKey DEF OK, Without
<1>5. \A j \in Keys : j # k => OK(y, j)
  BY <1>2, <1>3 DEF OK, Without
<1>6. \A j \in Keys : y.flow[j].stream = x.flow[j].stream
  BY <1>3 DEF Without, Loose, NoFlow
<1> QED
  BY <1>1, <1>2, <1>3, <1>4, <1>5, <1>6 DEF Sound, y

(* tcp_lane_silent_abort_pcb *)
LEMMA AbortFields ==
    ASSUME NEW x \in Memory, NEW k \in Keys
    PROVE  /\ SilentAbortPcb(x, k) \in Memory
           /\ SilentAbortPcb(x, k).chain = x.chain /\ SilentAbortPcb(x, k).n = x.n
           /\ SilentAbortPcb(x, k).stream = x.stream
           /\ \A j \in Keys : /\ SilentAbortPcb(x, k).flow[j].state = x.flow[j].state
                              /\ SilentAbortPcb(x, k).flow[j].stream = x.flow[j].stream
           /\ SilentAbortPcb(x, k).flow[k].pcb = FALSE
           /\ x.flow[k].pcb => /\ SilentAbortPcb(x, k).pcb[k] = NoPcb
                               /\ SilentAbortPcb(x, k).app[k].phase = "over"
           /\ ~x.flow[k].pcb => SilentAbortPcb(x, k) = x
<1>f. x.flow[k] \in FlowRec /\ x.flow[k].pcb \in BOOLEAN
  BY MemoryFields, FlowFields
<1>1. CASE ~x.flow[k].pcb
  BY <1>1, <1>f DEF SilentAbortPcb
<1>2. CASE x.flow[k].pcb
  <2> DEFINE f == [x.flow[k] EXCEPT !.pcb = FALSE]
             a == [x.app[k] EXCEPT !.phase = "over"]
             y == [x EXCEPT !.flow[k].pcb = FALSE, !.pcb[k] = NoPcb, !.app[k].phase = "over"]
  <2>1. SilentAbortPcb(x, k) = y
    BY <1>2 DEF SilentAbortPcb
  <2>2. y.flow = [x.flow EXCEPT ![k] = f] /\ y.pcb = [x.pcb EXCEPT ![k] = NoPcb] /\ y.app = [x.app EXCEPT ![k] = a]
        /\ y.chain = x.chain /\ y.n = x.n /\ y.stream = x.stream
    BY DEF Memory
  <2>3. f \in FlowRec
    BY <1>f, FlowUpdates
  <2>4. x.app[k] \in ConnRec
    BY MemoryFields
  <2>5. a \in ConnRec /\ a.phase = "over"
    BY <2>4 DEF ConnRec
  <2>6. f.pcb = FALSE /\ f.state = x.flow[k].state /\ f.stream = x.flow[k].stream
    BY <1>f DEF FlowRec
  <2>7. y = Put(x, k, f, NoPcb, a)
    BY DEF Memory, Put
  <2> HIDE DEF f, a
  <2>8. y \in Memory
    BY <2>3, <2>5, <2>7, Blanks, PutFields
  <2> HIDE DEF y
  <2>9. y.flow[k] = f /\ y.pcb[k] = NoPcb /\ y.app[k] = a
    BY <2>2, MemoryFields
  <2>10. \A j \in Keys : j # k => y.flow[j] = x.flow[j] /\ y.pcb[j] = x.pcb[j] /\ y.app[j] = x.app[j]
    BY <2>2, MemoryFields
  <2> QED
    BY <1>2, <2>1, <2>2, <2>5, <2>6, <2>8, <2>9, <2>10
<1> QED
  BY <1>1, <1>2, <1>f

LEMMA AbortOthers ==
    ASSUME NEW x \in Memory, NEW k \in Keys, NEW j \in Keys, j # k
    PROVE  /\ SilentAbortPcb(x, k).flow[j] = x.flow[j]
           /\ SilentAbortPcb(x, k).pcb[j] = x.pcb[j]
           /\ SilentAbortPcb(x, k).app[j] = x.app[j]
<1>1. CASE x.flow[k].pcb
  BY <1>1, MemoryFields DEF SilentAbortPcb, Memory
<1>2. CASE ~x.flow[k].pcb
  BY <1>2 DEF SilentAbortPcb
<1> QED
  BY <1>1, <1>2

(* A change to one key that keeps its entry in its population. *)
LEMMA PutSound ==
    ASSUME NEW x, Table(x), NEW k \in Keys, \A j \in Keys : j # k => OK(x, j),
           NEW f \in FlowRec, NEW p \in PcbRec, NEW a \in ConnRec, KeyOK(f, p, a),
           f.state = "absent" <=> ~InTable(x, k),
           InTable(x, k) => Population(f.state) = Population(x.flow[k].state)
    PROVE  Sound(Put(x, k, f, p, a))
<1> DEFINE y == Put(x, k, f, p, a)
<1>1. x \in Memory
  BY DEF Table
<1>2. /\ y \in Memory /\ y.chain = x.chain /\ y.n = x.n
      /\ y.flow[k] = f /\ y.pcb[k] = p /\ y.app[k] = a
      /\ \A j \in Keys : j # k => /\ y.flow[j] = x.flow[j] /\ y.pcb[j] = x.pcb[j]
                                  /\ y.app[j] = x.app[j]
  BY <1>1, PutFields
<1> HIDE DEF y
<1>3. SameEntries(x, y)
  BY <1>2 DEF SameEntries, InTable
<1>4. Table(y)
  BY <1>2, <1>3, SameTable
<1>5. \A j \in Keys : OK(y, j)
  BY <1>2 DEF OK
<1> QED
  BY <1>4, <1>5 DEF Sound, y

(* The same on a flow that keeps its state and its stream. *)
LEMMA PutConsistent ==
    ASSUME NEW x, Consistent(x), NEW k \in Keys,
           NEW f \in FlowRec, NEW p \in PcbRec, NEW a \in ConnRec, KeyOK(f, p, a),
           f.state = x.flow[k].state, f.stream = x.flow[k].stream
    PROVE  Consistent(Put(x, k, f, p, a))
<1>1. Sound(x) /\ Binds(x.flow, x.stream)
  BY ConsistentParts
<1>2. Sound(Put(x, k, f, p, a))
  BY <1>1, PutSound DEF Sound, InTable
<1>3. x \in Memory
  BY <1>1 DEF Sound, Table
<1> DEFINE y == Put(x, k, f, p, a)
<1>4. y.stream = x.stream /\ \A j \in Keys : y.flow[j].stream = x.flow[j].stream
  BY <1>3, PutFields
<1> HIDE DEF y
<1>5. Binds(y.flow, y.stream)
  BY <1>1, <1>4, BindsSame
<1> QED
  BY <1>2, <1>5, ConsistentParts DEF y

(* What is left of a flow whose request is over: the pcb, if it has one. *)
Ending(x, k) ==
    /\ Table(x) /\ InTable(x, k) /\ \A j \in Keys : j # k => OK(x, j)
    /\ x.flow[k].stream = 0
    /\ x.flow[k].pcb <=> x.pcb[k].state = "established"
    /\ x.app[k].phase = "est" => x.flow[k].pcb
    /\ x.app[k].phase \notin {"raw", "mixed"}

LEMMA EndingRemoved ==
    ASSUME NEW x, NEW k \in Keys, Ending(x, k)
    PROVE  /\ Sound(RemoveFlow(SilentAbortPcb(x, k), k))
           /\ Without(x, RemoveFlow(SilentAbortPcb(x, k), k), k)
           /\ RemoveFlow(SilentAbortPcb(x, k), k).stream = x.stream
           /\ \A j \in Keys : RemoveFlow(SilentAbortPcb(x, k), k).flow[j].stream = x.flow[j].stream
<1> DEFINE y == SilentAbortPcb(x, k)
<1>1. x \in Memory
  BY DEF Ending, Table
<1>2. /\ y \in Memory /\ y.chain = x.chain /\ y.n = x.n /\ y.stream = x.stream
      /\ \A j \in Keys : y.flow[j].state = x.flow[j].state /\ y.flow[j].stream = x.flow[j].stream
  BY ZenonT(90), <1>1, AbortFields
<1>3. \A j \in Keys : j # k => /\ y.flow[j] = x.flow[j] /\ y.pcb[j] = x.pcb[j]
                               /\ y.app[j] = x.app[j]
  BY <1>1, AbortOthers
<1>4. /\ y.flow[k].pcb = FALSE
      /\ x.flow[k].pcb => y.pcb[k] = NoPcb /\ y.app[k].phase = "over"
      /\ ~x.flow[k].pcb => y = x
  <2>1. y.flow[k].pcb = FALSE
    BY <1>1, AbortFields
  <2>2. x.flow[k].pcb => y.pcb[k] = NoPcb /\ y.app[k].phase = "over"
    BY <1>1, AbortFields
  <2>3. ~x.flow[k].pcb => y = x
    BY DEF SilentAbortPcb
  <2> QED
    BY <2>1, <2>2, <2>3
<1> HIDE DEF y
<1>5. Table(y)
  BY <1>2, SameStates DEF Ending
<1>6. Loose(y.flow[k], y.pcb[k], y.app[k])
  BY <1>2, <1>4 DEF Loose, Ending, NoPcb
<1>7. InTable(y, k)
  BY <1>2 DEF Ending, InTable
<1>8. \A j \in Keys : j # k => OK(y, j)
  BY <1>3 DEF Ending, OK
<1>9. /\ Sound(RemoveFlow(y, k)) /\ Without(y, RemoveFlow(y, k), k)
      /\ RemoveFlow(y, k).stream = y.stream
      /\ \A j \in Keys : RemoveFlow(y, k).flow[j].stream = y.flow[j].stream
  BY <1>5, <1>6, <1>7, <1>8, RemoveSound
<1>10. Without(x, RemoveFlow(y, k), k)
  BY <1>3, <1>9 DEF Without
<1> QED
  BY <1>2, <1>9, <1>10 DEF y

(* CloseH3: the request of a flow ends. *)
LEMMA CloseKeeps ==
    ASSUME NEW x, Table(x), Binds(x.flow, x.stream), NEW k \in Keys
    PROVE  /\ Table(CloseH3(x, k)) /\ Binds(CloseH3(x, k).flow, CloseH3(x, k).stream)
           /\ CloseH3(x, k).pcb = x.pcb /\ CloseH3(x, k).app = x.app
           /\ CloseH3(x, k).flow[k].stream = 0
           /\ CloseH3(x, k).flow[k].state = x.flow[k].state
           /\ CloseH3(x, k).flow[k].pcb = x.flow[k].pcb
           /\ \A j \in Keys : j # k => CloseH3(x, k).flow[j] = x.flow[j]
<1>1. x \in Memory
  BY DEF Table
<1>2. CASE x.flow[k].stream = 0
  BY <1>2 DEF CloseH3
<1>3. CASE x.flow[k].stream # 0
  <2> DEFINE s == x.flow[k].stream
             f == [x.flow[k] EXCEPT !.stream = 0]
             y == [x EXCEPT !.stream[s] = "ended"]
             z == [y EXCEPT !.flow[k] = f]
  <2>0. x.flow[k] \in FlowRec
    BY <1>1, MemoryFields
  <2>1. s \in Streams
    BY <2>0, <1>3, FlowFields
  <2>2. f \in FlowRec
    BY <2>0, FlowUpdates
  <2>f. f.stream = 0 /\ f.state = x.flow[k].state /\ f.pcb = x.flow[k].pcb
    BY <2>0 DEF FlowRec
  <2>3. CloseH3(x, k) = [[x EXCEPT !.stream[s] = "ended"] EXCEPT !.flow[k] = f]
    BY <1>1, <1>3 DEF CloseH3, Memory
  <2> HIDE DEF f, s
  <2>4. y \in Memory /\ y.chain = x.chain /\ y.flow = x.flow /\ y.n = x.n /\ y.pcb = x.pcb
        /\ y.stream = [x.stream EXCEPT ![s] = "ended"] /\ y.app = x.app
    BY <1>1, <2>1, StreamSet
  <2> HIDE DEF y
  <2>5. z \in Memory /\ z.chain = x.chain /\ z.flow = [x.flow EXCEPT ![k] = f] /\ z.n = x.n
        /\ z.pcb = x.pcb /\ z.app = x.app /\ z.stream = [x.stream EXCEPT ![s] = "ended"]
    BY <2>2, <2>4, FlowSet
  <2>6. CloseH3(x, k) = z
    BY <2>3 DEF y
  <2> HIDE DEF z
  <2>7. z.flow[k] = f /\ \A j \in Keys : j # k => z.flow[j] = x.flow[j]
    BY <1>1, <2>5, MemoryFields
  <2>8. \A j \in Keys : z.flow[j].state = x.flow[j].state
    BY <2>7, <2>f
  <2>9. Table(z)
    BY <2>5, <2>8, SameStates
  <2>10. Binds(z.flow, z.stream)
    <3>1. x.stream \in [Streams -> {"free", "open", "ended"}]
      BY <1>1, MemoryFields
    <3>2. /\ x.flow[k].stream = s /\ z.flow[k].stream = 0
          /\ \A j \in Keys : j # k => z.flow[j].stream = x.flow[j].stream
      BY <2>7, <2>f DEF s
    <3>3. Unbound(x, z, k, s)
      BY <3>1, <3>2, <2>1, <2>5 DEF Unbound
    <3> QED
      BY <3>3, Unbinds
  <2> QED
    BY <2>5, <2>6, <2>7, <2>9, <2>10, <2>f
<1> QED
  BY <1>2, <1>3

(* tcp_lane_teardown_flow, which closes the request too. *)
LEMMA TeardownKeeps ==
    ASSUME NEW x, Consistent(x), NEW k \in Keys, InTable(x, k), x.flow[k].state # "sticky_raw"
    PROVE  /\ Consistent(TeardownFlow(x, k, TRUE))
           /\ Without(x, TeardownFlow(x, k, TRUE), k)
<1> DEFINE y == CloseH3(x, k)
<1>1. Sound(x) /\ Binds(x.flow, x.stream) /\ Table(x)
  BY ConsistentParts DEF Sound
<1>2. /\ Table(y) /\ Binds(y.flow, y.stream) /\ y.pcb = x.pcb /\ y.app = x.app
      /\ y.flow[k].stream = 0 /\ y.flow[k].state = x.flow[k].state /\ y.flow[k].pcb = x.flow[k].pcb
      /\ \A j \in Keys : j # k => y.flow[j] = x.flow[j]
  BY <1>1, CloseKeeps
<1> HIDE DEF y
<1>3. Ending(y, k)
  <2>1. KeyOK(x.flow[k], x.pcb[k], x.app[k])
    BY <1>1 DEF Sound, OK
  <2>2. \A j \in Keys : j # k => OK(y, j)
    BY <1>1, <1>2 DEF Sound, OK
  <2> QED
    BY <1>2, <2>1, <2>2 DEF Ending, KeyOK, InTable
<1> DEFINE z == RemoveFlow(SilentAbortPcb(y, k), k)
<1>4. Sound(z) /\ Without(y, z, k) /\ z.stream = y.stream /\ \A j \in Keys : z.flow[j].stream = y.flow[j].stream
  BY <1>3, EndingRemoved
<1>5. TeardownFlow(x, k, TRUE) = z
  BY DEF TeardownFlow, y
<1> HIDE DEF z
<1>6. Without(x, z, k)
  BY <1>2, <1>4 DEF Without
<1>7. Binds(z.flow, z.stream)
  BY <1>2, <1>4, BindsSame
<1> QED
  BY <1>4, <1>5, <1>6, <1>7, ConsistentParts

-----------------------------------------------------------------------------
(* The clean close *)

LEMMA LeastNatural ==
    ASSUME NEW S \in SUBSET Nat, S # {}
    PROVE  \E i \in S : \A j \in S : i <= j
<1>1. PICK i \in S : \A j \in S : ~(<<j, i>> \in OpToRel(<, Nat))
  BY WFMin, NatLessThanWellFounded
<1>2. \A j \in S : ~(j < i)
  BY <1>1 DEF OpToRel
<1> QED
  BY <1>2

(* At the cap of closing markers there is one to evict. *)
LEMMA OldestFound ==
    ASSUME NEW x, Table(x), x.n["closing"] >= ClosingCap
    PROVE  OldestClosing(x) \in Keys /\ x.flow[OldestClosing(x)].state = "closing"
<1> DEFINE C == {k \in Keys : x.flow[k].state = "closing"}
           O == {k \in C : \A j \in C : x.flow[j].age <= x.flow[k].age}
           At(i) == x.chain[i] \in O /\ \A j \in 1..(i - 1) : x.chain[j] \notin O
           A == {Horizon - x.flow[k].age : k \in C}
<1>1. x.chain \in Seq(Keys) /\ DOMAIN x.chain = 1..Len(x.chain) /\ Len(x.chain) \in Nat
  BY MemoryFields DEF Table
<1>2. \A k \in Keys : x.flow[k].age \in 0..Horizon
  BY MemoryFields, FlowFields DEF Table
<1>3. C # {}
  <2>1. "closing" \in Populations
    BY DEF Populations
  <2>2. x.n["closing"] # 0
    BY <2>1, CountsType, Constants
  <2>3. PICK k \in Keys : k \in Members(x, "closing")
    BY <2>1, <2>2, CountsType DEF Members
  <2>4. x.flow[k].state = "closing"
    BY <2>3 DEF Members, Population
  <2> QED
    BY <2>4
<1>4. \E k \in C : k \in O
  <2>1. A \in SUBSET Nat /\ A # {}
    <3>1. \A k \in C : Horizon - x.flow[k].age \in Nat
      BY <1>2, Constants
    <3> QED
      BY <1>3, <3>1
  <2> HIDE DEF A
  <2>2. PICK m \in A : \A a \in A : m <= a
    BY <2>1, LeastNatural
  <2>3. PICK k \in C : m = Horizon - x.flow[k].age
    BY <2>2 DEF A
  <2>4. ASSUME NEW j \in C PROVE x.flow[j].age <= x.flow[k].age
    <3>1. Horizon - x.flow[j].age \in A
      BY DEF A
    <3>2. Horizon - x.flow[k].age <= Horizon - x.flow[j].age
      BY <2>2, <2>3, <3>1
    <3> DEFINE u == x.flow[j].age
               v == x.flow[k].age
    <3>3. u \in Int /\ v \in Int /\ Horizon \in Int /\ Horizon - v <= Horizon - u
      BY <1>2, <3>2, Constants
    <3> HIDE DEF u, v
    <3>4. u <= v
      BY <3>3
    <3> QED
      BY <3>4 DEF u, v
  <2> QED
    BY <2>3, <2>4
<1> HIDE DEF A
<1>5. \E i \in 1..Len(x.chain) : x.chain[i] \in O
  <2>1. PICK k \in C : k \in O
    BY <1>4
  <2>2. k \in Entries(x)
    BY DEF Entries, InTable
  <2>3. \E i \in 1..Len(x.chain) : x.chain[i] = k
    BY <2>2 DEF Table, Lists
  <2> QED
    BY <2>1, <2>3
<1>c. O \subseteq C
  OBVIOUS
<1>6. \E i \in DOMAIN x.chain : At(i)
  <2> HIDE DEF O, C
  <2> DEFINE P == {i \in 1..Len(x.chain) : x.chain[i] \in O}
  <2>1. P \in SUBSET Nat /\ P # {}
    BY <1>1, <1>5
  <2> HIDE DEF P
  <2>2. PICK i \in P : \A j \in P : i <= j
    BY <2>1, LeastNatural
  <2>3. \A j \in 1..(i - 1) : j \in 1..Len(x.chain) /\ ~(i <= j)
    BY <1>1, <2>2 DEF P
  <2>4. \A j \in 1..(i - 1) : x.chain[j] \notin O
    BY <2>2, <2>3 DEF P
  <2> QED
    BY <1>1, <2>2, <2>4 DEF P
<1>7. At(CHOOSE i \in DOMAIN x.chain : At(i)) /\ (CHOOSE i \in DOMAIN x.chain : At(i)) \in DOMAIN x.chain
  <2> HIDE DEF At
  <2> QED
    BY <1>6
<1>8. OldestClosing(x) = x.chain[CHOOSE i \in DOMAIN x.chain : At(i)]
  BY SMTT(90) DEF OldestClosing
<1>9. OldestClosing(x) \in O
  BY <1>7, <1>8
<1> QED
  BY <1>9

(* A flow that has let go of its pcb and its request, still counted. *)
Leaving(x, k) ==
    /\ Table(x) /\ Binds(x.flow, x.stream)
    /\ \A j \in Keys : j # k => OK(x, j)
    /\ x.flow[k].state = "active" /\ Loose(x.flow[k], x.pcb[k], x.app[k])

LEMMA MarkerLoose ==
    ASSUME NEW f, NEW p, NEW a, KeyOK(f, p, a), f.state = "closing", f.pcb \in BOOLEAN
    PROVE  Loose(f, p, a)
BY DEF KeyOK, Loose

LEMMA EvictLeaves ==
    ASSUME NEW x, NEW k \in Keys, Leaving(x, k), x.n["closing"] >= ClosingCap
    PROVE  /\ Leaving(RemoveFlow(x, OldestClosing(x)), k)
           /\ ~(RemoveFlow(x, OldestClosing(x)).n["closing"] >= ClosingCap)
           /\ \A j \in Keys : InTable(RemoveFlow(x, OldestClosing(x)), j) => InTable(x, j)
<1> DEFINE o == OldestClosing(x)
           y == RemoveFlow(x, o)
<1>1. o \in Keys /\ x.flow[o].state = "closing"
  BY OldestFound DEF Leaving
<1>t. Table(x) /\ x \in Memory
  BY DEF Leaving, Table
<1> HIDE DEF o
<1>2. o # k /\ InTable(x, o) /\ Population(x.flow[o].state) = "closing"
  BY <1>1 DEF Leaving, InTable, Population
<1>3. Loose(x.flow[o], x.pcb[o], x.app[o])
  <2>1. x.flow[o].pcb \in BOOLEAN
    BY <1>1, <1>t, MemoryFields, FlowFields
  <2> QED
    BY <1>1, <1>2, <2>1, MarkerLoose DEF Leaving, OK
<1>4. /\ y.flow = [x.flow EXCEPT ![o] = NoFlow]
      /\ y.pcb = x.pcb /\ y.stream = x.stream /\ y.app = x.app
  BY <1>1, <1>t, RemoveFields
<1>5. Table(y) /\ y.n["closing"] = x.n["closing"] - 1
  BY <1>1, <1>2, <1>t, RemoveTable
<1>f. x.flow \in [Keys -> FlowRec]
  BY <1>t, MemoryFields
<1> HIDE DEF y
<1>6. Without(x, y, o)
  BY <1>1, <1>4, <1>f DEF Without
<1>7. \A j \in Keys : j # k => OK(y, j)
  <2>1. OK(y, o)
    BY <1>3, <1>4, <1>6, LooseKey DEF OK, Without
  <2> QED
    BY <2>1, <1>4, <1>6 DEF OK, Without, Leaving
<1>8. \A j \in Keys : y.flow[j].stream = x.flow[j].stream
  BY <1>3, <1>6 DEF Without, Loose, NoFlow
<1>9. Binds(y.flow, y.stream)
  BY <1>4, <1>8, BindsKept DEF Leaving
<1>10. y.flow[k] = x.flow[k]
  BY <1>2, <1>6 DEF Without
<1>11. Leaving(y, k)
  BY <1>4, <1>5, <1>7, <1>9, <1>10 DEF Leaving
<1>12. ~(y.n["closing"] >= ClosingCap)
  <2>1. x.n["closing"] \in Int /\ x.n["closing"] <= ClosingCap
    BY <1>t, CountsType DEF Table, Capped, Populations
  <2> QED
    BY <2>1, <1>5, Constants
<1>13. \A j \in Keys : InTable(y, j) => InTable(x, j)
  BY <1>6 DEF Without, InTable, NoFlow
<1> QED
  BY <1>11, <1>12, <1>13 DEF o, y

LEMMA MarkedConsistent ==
    ASSUME NEW x, NEW k \in Keys, Leaving(x, k), ~(x.n["closing"] >= ClosingCap)
    PROVE  /\ Consistent(Marked(x, k))
           /\ \A j \in Keys : InTable(Marked(x, k), j) => InTable(x, j)
<1> DEFINE y == Marked(x, k)
<1>t. Table(x) /\ x \in Memory
  BY DEF Leaving, Table
<1>1. InTable(x, k) /\ Population(x.flow[k].state) = "tcp"
  BY DEF Leaving, InTable, Population
<1>2. Table(y)
  BY <1>t, <1>1, MarkTable
<1>3. /\ y.flow = [x.flow EXCEPT ![k] = Marker(x.flow[k])]
      /\ y.pcb = x.pcb /\ y.stream = x.stream /\ y.app = x.app
  BY <1>t, MarkFields
<1>f. x.flow \in [Keys -> FlowRec]
  BY <1>t, MemoryFields
<1> HIDE DEF y
<1>4. y.flow[k] = Marker(x.flow[k]) /\ \A j \in Keys : j # k => y.flow[j] = x.flow[j]
  BY <1>3, <1>f
<1>5. /\ y.flow[k].state = "closing" /\ y.flow[k].pcb = x.flow[k].pcb
      /\ y.flow[k].stream = x.flow[k].stream /\ y.flow[k].paused = FALSE
  BY ZenonT(90), <1>4, <1>f, MarkerType
<1>6. OK(y, k)
  BY <1>3, <1>5 DEF OK, KeyOK, Leaving, Loose
<1>7. \A j \in Keys : OK(y, j)
  BY <1>3, <1>4, <1>6 DEF OK, Leaving
<1>8. \A j \in Keys : y.flow[j].stream = x.flow[j].stream
  BY <1>4, <1>5
<1>9. Binds(y.flow, y.stream)
  BY <1>3, <1>8, BindsKept DEF Leaving
<1>10. \A j \in Keys : InTable(y, j) => InTable(x, j)
  BY <1>1, <1>4 DEF InTable
<1> QED
  BY <1>2, <1>7, <1>9, <1>10, ConsistentParts DEF Sound, y

LEMMA MarkKeeps ==
    ASSUME NEW x, NEW k \in Keys, Leaving(x, k)
    PROVE  /\ Consistent(MarkClosing(x, k))
           /\ \A j \in Keys : InTable(MarkClosing(x, k), j) => InTable(x, j)
<1>1. CASE x.n["closing"] >= ClosingCap
  <2> DEFINE y == RemoveFlow(x, OldestClosing(x))
  <2>1. Leaving(y, k) /\ ~(y.n["closing"] >= ClosingCap) /\ \A j \in Keys : InTable(y, j) => InTable(x, j)
    BY <1>1, EvictLeaves
  <2>2. MarkClosing(x, k) = Marked(y, k)
    BY <1>1 DEF MarkClosing, Marked
  <2> HIDE DEF y
  <2> QED
    BY <2>1, <2>2, MarkedConsistent
<1>2. CASE ~(x.n["closing"] >= ClosingCap)
  <2>1. MarkClosing(x, k) = Marked(x, k)
    BY <1>2 DEF MarkClosing, Marked
  <2> QED
    BY <1>2, <2>1, MarkedConsistent
<1> QED
  BY <1>1, <1>2

(* tcp_lane_finish_clean_close: the flow becomes a marker, another one may *)
(* have to make room for it.                                               *)
LEMMA FinishKeeps ==
    ASSUME NEW x, Consistent(x), NEW k \in Keys, x.flow[k].state = "active"
    PROVE  /\ Consistent(FinishCleanClose(x, k))
           /\ \A j \in Keys : InTable(FinishCleanClose(x, k), j) => InTable(x, j)
<1> DEFINE s == x.flow[k].stream
           f == [x.flow[k] EXCEPT !.pcb = FALSE, !.stream = 0]
           p == [state |-> "closing", listener |-> FALSE]
           a == [x.app[k] EXCEPT !.phase = "over"]
           v == [x EXCEPT !.pcb[k] = [state |-> "closing", listener |-> FALSE],
                          !.stream[x.flow[k].stream] = "ended",
                          !.flow[k].pcb = FALSE, !.flow[k].stream = 0, !.app[k].phase = "over"]
<1>1. Table(x) /\ Binds(x.flow, x.stream) /\ x \in Memory /\ \A j \in Keys : OK(x, j)
  BY ConsistentParts DEF Sound, Table
<1>2. x.flow[k] \in FlowRec /\ x.app[k] \in ConnRec /\ x.stream \in [Streams -> {"free", "open", "ended"}]
  BY <1>1, MemoryFields
<1>3. s \in Streams /\ s # 0
  <2>1. KeyOK(x.flow[k], x.pcb[k], x.app[k]) /\ x.flow[k].pcb \in BOOLEAN
    BY <1>1, <1>2, FlowFields DEF OK
  <2>2. s # 0
    BY <2>1 DEF KeyOK
  <2> QED
    BY <2>2, <1>2, FlowFields
<1>4. f \in FlowRec /\ f.pcb = FALSE /\ f.stream = 0 /\ f.state = "active"
  <2>1. [x.flow[k] EXCEPT !.pcb = FALSE] \in FlowRec
    BY <1>2, FlowUpdates
  <2>2. [[x.flow[k] EXCEPT !.pcb = FALSE] EXCEPT !.stream = 0] \in FlowRec
    BY <2>1, FlowUpdates
  <2>3. f \in FlowRec
    BY <2>2
  <2> QED
    BY <2>3, <1>2 DEF FlowRec
<1>5. p \in PcbRec /\ p.state = "closing"
  BY DEF PcbRec
<1>6. a \in ConnRec /\ a.phase = "over"
  BY <1>2 DEF ConnRec
<1>7. /\ v.chain = x.chain /\ v.n = x.n
      /\ v.flow = [x.flow EXCEPT ![k] = f] /\ v.pcb = [x.pcb EXCEPT ![k] = p]
      /\ v.app = [x.app EXCEPT ![k] = a] /\ v.stream = [x.stream EXCEPT ![s] = "ended"]
  BY <1>1 DEF Memory
<1>9. FinishCleanClose(x, k) = MarkClosing(v, k)
  BY DEF FinishCleanClose
<1>11. v \in Memory
  <2> DEFINE v1 == [x EXCEPT !.pcb[k] = p]
             v2 == [v1 EXCEPT !.stream[s] = "ended"]
             v3 == [v2 EXCEPT !.flow[k].pcb = FALSE]
             v4 == [v3 EXCEPT !.flow[k].stream = 0]
             v5 == [v4 EXCEPT !.app[k].phase = "over"]
  <2>1. v1 \in Memory
    BY <1>1, <1>5 DEF Memory
  <2>2. v2 \in Memory
    <3> HIDE DEF v1, s
    <3> QED
      BY <2>1, <1>3, StreamSet
  <2>3. v3 \in Memory
    <3> HIDE DEF v2
    <3>1. [v2.flow[k] EXCEPT !.pcb = FALSE] \in FlowRec
      <4>1. v2.flow[k] \in FlowRec
        BY <2>2, MemoryFields
      <4> QED
        BY <4>1, FlowUpdates
    <3>2. v3 = [v2 EXCEPT !.flow[k] = [v2.flow[k] EXCEPT !.pcb = FALSE]]
      BY <2>2 DEF Memory
    <3> QED
      BY <2>2, <3>1, <3>2, FlowSet
  <2>4. v4 \in Memory
    <3> HIDE DEF v3
    <3>1. [v3.flow[k] EXCEPT !.stream = 0] \in FlowRec
      <4>1. v3.flow[k] \in FlowRec
        BY <2>3, MemoryFields
      <4> QED
        BY <4>1, FlowUpdates
    <3>2. v4 = [v3 EXCEPT !.flow[k] = [v3.flow[k] EXCEPT !.stream = 0]]
      BY <2>3 DEF Memory
    <3> QED
      BY <2>3, <3>1, <3>2, FlowSet
  <2>5. v5 \in Memory
    <3> HIDE DEF v4
    <3> QED
      BY <2>4, PhaseSet DEF Phases
  <2> QED
    BY <2>5
<1> HIDE DEF v, f, p, a, s
<1>12. /\ v.flow[k] = f /\ v.pcb[k] = p /\ v.app[k] = a
       /\ \A j \in Keys : j # k => v.flow[j] = x.flow[j] /\ v.pcb[j] = x.pcb[j] /\ v.app[j] = x.app[j]
  BY <1>1, <1>7, MemoryFields
<1>13. \A j \in Keys : v.flow[j].state = x.flow[j].state
  BY <1>12, <1>4
<1>14. Table(v)
  BY <1>1, <1>7, <1>11, <1>13, SameStates
<1>15. Binds(v.flow, v.stream)
  <2>1. x.flow[k].stream = s
    BY DEF s
  <2>2. v.flow[k].stream = 0 /\ \A j \in Keys : j # k => v.flow[j].stream = x.flow[j].stream
    BY <1>12, <1>4
  <2> QED
    <3>1. v.stream = [x.stream EXCEPT ![s] = "ended"] /\ "ended" \in {"free", "ended"}
      BY <1>7
    <3>2. Unbound(x, v, k, s)
      BY <3>1, <2>1, <2>2, <1>2, <1>3 DEF Unbound
    <3> QED
      BY <3>2, <1>1, Unbinds
<1>16. Leaving(v, k)
  <2>1. \A j \in Keys : j # k => OK(v, j)
    BY <1>1, <1>12 DEF OK
  <2>2. Loose(v.flow[k], v.pcb[k], v.app[k])
    BY <1>4, <1>5, <1>6, <1>12 DEF Loose
  <2> QED
    BY <2>1, <2>2, <1>4, <1>12, <1>14, <1>15 DEF Leaving
<1>17. Consistent(MarkClosing(v, k)) /\ \A j \in Keys : InTable(MarkClosing(v, k), j) => InTable(v, j)
  BY <1>16, MarkKeeps
<1> QED
  BY <1>9, <1>13, <1>17 DEF InTable

-----------------------------------------------------------------------------
(* The verdict on a SYN *)

(* RAW markers and closing markers hold neither a pcb nor a request. *)
LEMMA StaleLoose ==
    ASSUME NEW f \in FlowRec, NEW p, NEW a, KeyOK(f, p, a), f.state \in {"closing", "sticky_raw"},
           f.state = "sticky_raw" => f.isn # a.isn
    PROVE  Loose(f, p, a)
BY FlowFields DEF KeyOK, Loose

(* What on_syn does first: an old marker is removed. *)
Cleared(x, k) == IF x.flow[k].state \in {"closing", "sticky_raw"} THEN RemoveFlow(x, k) ELSE x

LEMMA ClearKeeps ==
    ASSUME NEW x, Consistent(x), NEW k \in Keys,
           x.flow[k].state = "sticky_raw" => x.flow[k].isn # x.app[k].isn
    PROVE  /\ Consistent(Cleared(x, k)) /\ Cleared(x, k).app = x.app
           /\ \A j \in Keys : InTable(Cleared(x, k), j) => InTable(x, j)
           /\ Cleared(x, k).flow[k].state \notin {"closing", "sticky_raw"}
<1>1. CASE x.flow[k].state \in {"closing", "sticky_raw"}
  <2> DEFINE y == RemoveFlow(x, k)
  <2>1. Table(x) /\ Binds(x.flow, x.stream) /\ x \in Memory /\ \A j \in Keys : OK(x, j)
    BY ConsistentParts DEF Sound, Table
  <2>2. Loose(x.flow[k], x.pcb[k], x.app[k])
    BY <1>1, <2>1, StaleLoose, MemoryFields DEF OK
  <2>3. InTable(x, k)
    BY <1>1 DEF InTable
  <2>4. /\ Sound(y) /\ Without(x, y, k) /\ y.stream = x.stream
        /\ \A j \in Keys : y.flow[j].stream = x.flow[j].stream
    BY <2>1, <2>2, <2>3, RemoveSound
  <2>5. y.app = x.app
    BY <2>1, RemoveFields
  <2> HIDE DEF y
  <2>6. Consistent(y)
    BY <2>1, <2>4, BindsKept, ConsistentParts
  <2>7. Cleared(x, k) = y
    BY <1>1 DEF Cleared, y
  <2> QED
    BY <2>4, <2>5, <2>6, <2>7 DEF Without, InTable, NoFlow
<1>2. CASE x.flow[k].state \notin {"closing", "sticky_raw"}
  BY <1>2 DEF Cleared
<1> QED
  BY <1>1, <1>2

(* The flow a SYN starts. *)
Started(to_tcp, isn) ==
    [NoFlow EXCEPT !.state = IF to_tcp THEN "pending_accept" ELSE "sticky_raw",
                   !.isn = IF to_tcp THEN 0 ELSE isn]

LEMMA StartedType ==
    ASSUME NEW to_tcp \in BOOLEAN, NEW isn \in 0..1
    PROVE  /\ Started(to_tcp, isn) \in FlowRec
           /\ Started(to_tcp, isn).state = IF to_tcp THEN "pending_accept" ELSE "sticky_raw"
           /\ Started(to_tcp, isn).isn = IF to_tcp THEN 0 ELSE isn
           /\ Started(to_tcp, isn).pcb = FALSE /\ Started(to_tcp, isn).stream = 0
           /\ Started(to_tcp, isn).paused = FALSE
<1>1. 0 \in 0..1 /\ 0 \in 0..Horizon /\ {"pending_accept", "sticky_raw"} \subseteq FlowStates
  BY Constants DEF FlowStates
<1>2. CASE to_tcp
  BY <1>1, <1>2 DEF Started, NoFlow, FlowRec
<1>3. CASE ~to_tcp
  BY <1>1, <1>3 DEF Started, NoFlow, FlowRec
<1> QED
  BY <1>2, <1>3

LEMMA OnSynShape ==
    ASSUME NEW x, NEW k \in Keys, NEW to_tcp \in BOOLEAN, NEW isn
    PROVE  LET y == Cleared(x, k)
               q == IF to_tcp THEN "tcp" ELSE "raw"
           IN  \/ OnSyn(x, k, to_tcp, isn) = [ret |-> FALSE, x |-> y]
               \/ /\ ~InTable(y, k) /\ ~(y.n[q] >= Cap(q))
                  /\ OnSyn(x, k, to_tcp, isn) = [ret |-> TRUE, x |-> Inserted(y, k, Started(to_tcp, isn), q)]
<1>1. CASE to_tcp
  BY <1>1 DEF OnSyn, Cleared, Inserted, Started, Cap
<1>2. CASE ~to_tcp
  BY <1>2 DEF OnSyn, Cleared, Inserted, Started, Cap
<1> QED
  BY <1>1, <1>2

(* mqvpn_tcp_lane_on_syn *)
LEMMA SynKeeps ==
    ASSUME NEW x, Consistent(x), NEW k \in Keys, NEW to_tcp \in BOOLEAN,
           x.flow[k].state = "sticky_raw" => x.flow[k].isn # x.app[k].isn
    PROVE  LET c == OnSyn(x, k, to_tcp, x.app[k].isn)
           IN  /\ c.ret \in BOOLEAN /\ Consistent(c.x) /\ c.x.app = x.app
               /\ \A j \in Keys : InTable(c.x, j) => InTable(x, j) \/ j = k
               /\ c.ret /\ ~to_tcp => c.x.flow[k].state = "sticky_raw" /\ c.x.flow[k].isn = x.app[k].isn
<1> DEFINE isn == x.app[k].isn
           y == Cleared(x, k)
           q == IF to_tcp THEN "tcp" ELSE "raw"
           f == Started(to_tcp, isn)
           c == OnSyn(x, k, to_tcp, isn)
           z == Inserted(y, k, f, q)
<1>1. /\ Consistent(y) /\ y.app = x.app
      /\ \A j \in Keys : InTable(y, j) => InTable(x, j)
  BY ClearKeeps
<1>2. \/ c = [ret |-> FALSE, x |-> y]
      \/ ~InTable(y, k) /\ ~(y.n[q] >= Cap(q)) /\ c = [ret |-> TRUE, x |-> z]
  BY OnSynShape
<1>i. isn \in 0..1
  <2>1. x.app[k] \in ConnRec
    BY MemoryFields DEF Consistent
  <2> QED
    BY <2>1 DEF ConnRec
<1>3. /\ f \in FlowRec /\ f.state = (IF to_tcp THEN "pending_accept" ELSE "sticky_raw")
      /\ f.isn = (IF to_tcp THEN 0 ELSE isn)
      /\ f.pcb = FALSE /\ f.stream = 0 /\ f.paused = FALSE
  <2> HIDE DEF isn
  <2> QED
    BY <1>i, StartedType
<1>4. q \in Populations /\ q = Population(f.state) /\ f.state # "absent"
  BY <1>3 DEF Populations, Population
<1>5. CASE c = [ret |-> FALSE, x |-> y]
  BY <1>1, <1>5
<1>6. CASE ~InTable(y, k) /\ ~(y.n[q] >= Cap(q)) /\ c = [ret |-> TRUE, x |-> z]
  <2> HIDE DEF y, f, q, isn
  <2>1. Table(y) /\ Binds(y.flow, y.stream) /\ y \in Memory /\ \A j \in Keys : OK(y, j)
    BY <1>1, ConsistentParts DEF Sound, Table
  <2>2. Table(z)
    BY <2>1, <1>3, <1>4, <1>6, InsertTable
  <2>3. /\ z.flow = [y.flow EXCEPT ![k] = f] /\ z.pcb = y.pcb /\ z.stream = y.stream /\ z.app = y.app
    <3>1. y \in Memory /\ f \in FlowRec /\ q \in Populations
      BY <2>1, <1>3, <1>4
    <3>2. z.flow = [y.flow EXCEPT ![k] = f]
      BY <3>1 DEF Inserted, Memory
    <3>3. z.pcb = y.pcb /\ z.stream = y.stream /\ z.app = y.app
      BY <3>1 DEF Inserted, Memory
    <3> QED
      BY <3>2, <3>3
  <2>f. y.flow \in [Keys -> FlowRec]
    BY <2>1, MemoryFields
  <2> HIDE DEF z
  <2>4. z.flow[k] = f /\ \A j \in Keys : j # k => z.flow[j] = y.flow[j]
    BY <2>3, <2>f
  <2>5. y.flow[k].state = "absent" /\ KeyOK(y.flow[k], y.pcb[k], y.app[k]) /\ y.flow[k].pcb \in BOOLEAN
    BY <2>1, <2>f, <1>6, FlowFields DEF InTable, OK
  <2>6. y.flow[k].pcb = FALSE /\ y.flow[k].stream = 0
    BY <2>5 DEF KeyOK
  <2>7. OK(z, k)
    BY <2>3, <2>4, <2>5, <2>6, <1>3 DEF OK, KeyOK
  <2>8. \A j \in Keys : OK(z, j)
    BY <2>1, <2>3, <2>4, <2>7 DEF OK
  <2>9. \A j \in Keys : z.flow[j].stream = y.flow[j].stream
    BY <2>4, <2>6, <1>3
  <2>10. Consistent(z)
    BY <2>1, <2>2, <2>3, <2>8, <2>9, BindsKept, ConsistentParts DEF Sound
  <2>11. \A j \in Keys : InTable(z, j) => InTable(x, j) \/ j = k
    BY <1>1, <2>4 DEF InTable
  <2> HIDE DEF c
  <2>12. c.ret = TRUE /\ c.x = z
    BY <1>6
  <2>13. ~to_tcp => z.flow[k].state = "sticky_raw" /\ z.flow[k].isn = isn
    BY <2>4, <1>3
  <2> QED
    BY <1>1, <2>3, <2>10, <2>11, <2>12, <2>13 DEF c, isn
<1> QED
  BY <1>2, <1>5, <1>6

(* What the verdict v on a packet of k must be, in the memory x. *)
Judged(x, k, v) ==
    /\ v.lane \in {"tcp", "raw"} /\ v.commit \in BOOLEAN
    /\ Consistent(v.x) /\ v.x.app = x.app
    /\ \A j \in Keys : InTable(v.x, j) => InTable(x, j) \/ j = k
    /\ x.app[k].phase = "raw" => v.lane = "raw"
    /\ x.app[k].phase = "est" => v.lane = "tcp" /\ v.commit = FALSE
    /\ v.commit /\ v.lane = "raw" => v.x.flow[k].state = "sticky_raw" /\ v.x.flow[k].isn = x.app[k].isn

(* tun_decide_lane *)
LEMMA DecideKeeps ==
    ASSUME NEW x, Consistent(x), NEW k \in Keys, NEW seg, NEW to_tcp \in BOOLEAN
    PROVE  Judged(x, k, DecideLane(x, k, seg, to_tcp))
<1> DEFINE f == x.flow[k]
           is_syn == seg = "syn" /\ f.state \in {"absent", "closing", "sticky_raw"}
           found == /\ InTable(x, k)
                    /\ ~(is_syn /\ (f.state = "closing" \/ f.isn # x.app[k].isn))
           c == OnSyn(x, k, to_tcp, x.app[k].isn)
           v == DecideLane(x, k, seg, to_tcp)
<1>1. KeyOK(f, x.pcb[k], x.app[k]) /\ f \in FlowRec /\ f.pcb \in BOOLEAN
  BY MemoryFields, FlowFields DEF Consistent
<1>2. CASE ~found /\ is_syn
  <2>1. v = [lane |-> IF c.ret /\ to_tcp THEN "tcp" ELSE "raw", commit |-> c.ret, x |-> c.x]
    BY <1>2 DEF DecideLane
  <2>2. f.state = "sticky_raw" => f.isn # x.app[k].isn
    BY <1>2 DEF InTable
  <2>3. /\ c.ret \in BOOLEAN /\ Consistent(c.x) /\ c.x.app = x.app
        /\ \A j \in Keys : InTable(c.x, j) => InTable(x, j) \/ j = k
        /\ c.ret /\ ~to_tcp => c.x.flow[k].state = "sticky_raw" /\ c.x.flow[k].isn = x.app[k].isn
    BY <2>2, SynKeeps
  <2>4. x.app[k].phase # "raw" /\ x.app[k].phase # "est"
    BY <1>1, <1>2, <2>2 DEF KeyOK
  <2> HIDE DEF c, f, found, is_syn, v
  <2>5. v.lane = (IF c.ret /\ to_tcp THEN "tcp" ELSE "raw") /\ v.commit = c.ret /\ v.x = c.x
    BY <2>1
  <2> QED
    BY <2>3, <2>4, <2>5 DEF Judged, v
<1>3. CASE found \/ ~is_syn
  <2>1. v = [lane |-> IF ~found \/ f.state = "sticky_raw" THEN "raw" ELSE "tcp", commit |-> FALSE, x |-> x]
    BY <1>3 DEF DecideLane
  <2>2. x.app[k].phase = "raw" => f.state = "sticky_raw"
    BY <1>1 DEF KeyOK
  <2>3. x.app[k].phase = "est" => f.state # "sticky_raw" /\ found
    <3>1. x.app[k].phase = "est" => f.state \in {"pending_stream", "active"}
      BY <1>1 DEF KeyOK
    <3> QED
      BY <3>1 DEF InTable
  <2> HIDE DEF c, f, found, is_syn, v
  <2>4. v.lane = (IF ~found \/ f.state = "sticky_raw" THEN "raw" ELSE "tcp") /\ v.commit = FALSE /\ v.x = x
    BY <2>1
  <2> QED
    BY <2>2, <2>3, <2>4 DEF Judged, v
<1> QED
  BY <1>2, <1>3

(* No entry of y is new. *)
Shrinks(x, y) == \A j \in Keys : InTable(y, j) => InTable(x, j)

LEMMA PutStates ==
    ASSUME NEW x \in Memory, NEW k \in Keys, NEW f \in FlowRec, NEW p \in PcbRec, NEW a \in ConnRec,
           x.flow[k].state = "absent" => f.state = "absent"
    PROVE  Shrinks(x, Put(x, k, f, p, a))
BY PutFields DEF Shrinks, InTable

LEMMA PhaseKeeps ==
    ASSUME NEW x, Consistent(x), NEW k \in Keys, NEW v \in Phases, v \notin {"est", "mixed"},
           v = "raw" => x.flow[k].state = "sticky_raw" /\ x.flow[k].isn = x.app[k].isn
    PROVE  /\ Consistent([x EXCEPT !.app[k].phase = v])
           /\ [x EXCEPT !.app[k].phase = v].flow = x.flow
           /\ [x EXCEPT !.app[k].phase = v].pcb = x.pcb
<1> DEFINE a == [x.app[k] EXCEPT !.phase = v]
<1>1. x \in Memory /\ KeyOK(x.flow[k], x.pcb[k], x.app[k])
  BY DEF Consistent
<1>2. /\ [x EXCEPT !.app[k].phase = v] = Put(x, k, x.flow[k], x.pcb[k], a)
      /\ a \in ConnRec /\ a.phase = v /\ a.isn = x.app[k].isn
  BY <1>1, PhaseSet
<1>3. x.flow[k] \in FlowRec /\ x.pcb[k] \in PcbRec
  BY <1>1, MemoryFields
<1>5. [x EXCEPT !.app[k].phase = v].flow = x.flow /\ [x EXCEPT !.app[k].phase = v].pcb = x.pcb
  BY <1>1 DEF Memory
<1> HIDE DEF a
<1>4. KeyOK(x.flow[k], x.pcb[k], a)
  BY <1>1, <1>2 DEF KeyOK
<1>6. Consistent(Put(x, k, x.flow[k], x.pcb[k], a))
  BY <1>2, <1>3, <1>4, PutConsistent
<1> QED
  BY <1>2, <1>5, <1>6

(* What the verdict does to the connection: it is never "mixed". *)
LEMMA NoteKeeps ==
    ASSUME NEW x, NEW k \in Keys, NEW v, Judged(x, k, v)
    PROVE  Consistent(Note(v.x, k, v)) /\ Note(v.x, k, v).flow = v.x.flow
<1> DEFINE p == v.x.app[k].phase
           q == IF <<p, v.lane>> \in {<<"raw", "tcp">>, <<"est", "raw">>} THEN "mixed"
                ELSE IF v.commit THEN v.lane ELSE p
<1>1. p = x.app[k].phase /\ v.x.app[k] \in ConnRec /\ KeyOK(v.x.flow[k], v.x.pcb[k], v.x.app[k])
  BY MemoryFields DEF Judged, Consistent
<1>2. p \in Phases /\ p # "mixed"
  BY <1>1 DEF ConnRec, Phases, KeyOK
<1>3. Note(v.x, k, v) = [v.x EXCEPT !.app[k].phase = q]
  BY DEF Note
<1>4. q = IF v.commit THEN v.lane ELSE p
  BY <1>1 DEF Judged
<1>5. CASE v.commit \/ p # "est"
  <2>1. q \in Phases /\ q \notin {"est", "mixed"}
    BY <1>2, <1>4, <1>5 DEF Judged, Phases
  <2>2. q = "raw" => v.x.flow[k].state = "sticky_raw" /\ v.x.flow[k].isn = v.x.app[k].isn
    BY <1>1, <1>4 DEF Judged, KeyOK
  <2> HIDE DEF q, p
  <2> QED
    BY <1>3, <2>1, <2>2, PhaseKeeps DEF Judged
<1>6. CASE ~v.commit /\ p = "est"
  <2>1. q = p
    BY <1>4, <1>6
  <2>2. [v.x EXCEPT !.app[k].phase = p] = v.x
    BY MemoryFields DEF Judged, Consistent, Memory, ConnRec
  <2> QED
    BY <1>3, <2>1, <2>2 DEF Judged
<1> QED
  BY <1>5, <1>6

LEMMA VerdictKeeps ==
    ASSUME Consistent(w), Admitted(w, lane), NEW k \in Keys, NEW seg, NEW to_tcp \in BOOLEAN
    PROVE  Judged(w, k, Verdict(k, seg, to_tcp)) /\ Admitted(Verdict(k, seg, to_tcp).x, lane)
<1> DEFINE v == Verdict(k, seg, to_tcp)
<1>1. CASE lane /\ Classify(k) = "tcp"
  <2>1. v = DecideLane(w, k, seg, to_tcp)
    BY <1>1 DEF Verdict
  <2>2. Judged(w, k, v)
    BY <2>1, DecideKeeps
  <2> HIDE DEF v
  <2>3. Admitted(v.x, lane)
    BY <1>1, <2>2 DEF Admitted, Judged
  <2> QED
    BY <2>2, <2>3 DEF v
<1>2. CASE ~(lane /\ Classify(k) = "tcp")
  <2>1. v = [lane |-> "raw", commit |-> FALSE, x |-> w]
    BY <1>2 DEF Verdict
  <2>2. ~InTable(w, k)
    BY <1>2 DEF Admitted
  <2>3. w.app[k].phase # "est"
    <3>1. KeyOK(w.flow[k], w.pcb[k], w.app[k])
      BY DEF Consistent
    <3> QED
      BY <2>2, <3>1 DEF KeyOK, InTable
  <2> HIDE DEF v
  <2>4. v.lane = "raw" /\ v.commit = FALSE /\ v.x = w
    BY <2>1
  <2> QED
    BY <2>3, <2>4 DEF Judged, v
<1> QED
  BY <1>1, <1>2

-----------------------------------------------------------------------------
(* lwIP's callbacks *)

(* A flow that may lose its request without closing it. *)
Half(x, k) ==
    /\ Table(x) /\ InTable(x, k) /\ \A j \in Keys : j # k => OK(x, j)
    /\ x.flow[k].pcb <=> x.pcb[k].state = "established"
    /\ x.app[k].phase = "est" => x.flow[k].pcb
    /\ x.app[k].phase \notin {"raw", "mixed"}

(* tcp_lane_teardown_flow, when the request is already gone. *)
LEMMA HalfRemoved ==
    ASSUME NEW x, NEW k \in Keys, Half(x, k)
    PROVE  /\ Sound(TeardownFlow(x, k, FALSE)) /\ Without(x, TeardownFlow(x, k, FALSE), k)
           /\ TeardownFlow(x, k, FALSE).stream = x.stream
<1> DEFINE f == [x.flow[k] EXCEPT !.stream = 0]
           y == [x EXCEPT !.flow[k] = f]
           z == RemoveFlow(SilentAbortPcb(y, k), k)
<1>1. x \in Memory /\ Table(x)
  BY DEF Half, Table
<1>2. x.flow[k] \in FlowRec
  BY <1>1, MemoryFields
<1>3. f \in FlowRec
  BY <1>2, FlowUpdates
<1>4. f.stream = 0 /\ f.state = x.flow[k].state /\ f.pcb = x.flow[k].pcb
  BY <1>2 DEF FlowRec
<1>5. [x EXCEPT !.flow[k].stream = 0] = y
  BY <1>1 DEF Memory
<1>6. TeardownFlow(x, k, FALSE) = z
  BY <1>5 DEF TeardownFlow
<1> HIDE DEF f
<1>7. y \in Memory /\ y.chain = x.chain /\ y.flow = [x.flow EXCEPT ![k] = f] /\ y.n = x.n
      /\ y.pcb = x.pcb /\ y.stream = x.stream /\ y.app = x.app
  BY <1>1, <1>3, FlowSet
<1> HIDE DEF y
<1>8. y.flow[k] = f /\ \A j \in Keys : j # k => y.flow[j] = x.flow[j]
  BY <1>1, <1>7, MemoryFields
<1>9. \A j \in Keys : y.flow[j].state = x.flow[j].state
  BY <1>4, <1>8
<1>10. Table(y)
  BY <1>1, <1>7, <1>9, SameStates
<1>11. \A j \in Keys : j # k => OK(y, j)
  BY <1>7, <1>8 DEF Half, OK
<1>12. Ending(y, k)
  BY <1>4, <1>7, <1>8, <1>9, <1>10, <1>11 DEF Ending, Half, InTable
<1>13. Sound(z) /\ Without(y, z, k) /\ z.stream = y.stream
  BY <1>12, EndingRemoved
<1> HIDE DEF z
<1>14. Without(x, z, k)
  BY <1>8, <1>13 DEF Without
<1> QED
  BY <1>6, <1>7, <1>13, <1>14

(* cli_tcp_lane_on_lwip_err: lwIP has freed the pcb. *)
LEMMA ErrKeeps ==
    ASSUME NEW x, Consistent(x), NEW k \in Keys, x.pcb[k].state = "established"
    PROVE  Consistent(OnLwipErr(x, k)) /\ Without(x, OnLwipErr(x, k), k)
<1> DEFINE y == SilentAbortPcb(x, k)
           z == CloseH3(y, k)
           u == RemoveFlow(z, k)
<1>1. Table(x) /\ Binds(x.flow, x.stream) /\ x \in Memory /\ \A j \in Keys : OK(x, j)
  BY ConsistentParts DEF Sound, Table
<1>2. x.flow[k].pcb /\ InTable(x, k)
  <2>1. KeyOK(x.flow[k], x.pcb[k], x.app[k])
    BY <1>1 DEF OK
  <2> QED
    BY <2>1 DEF KeyOK, InTable
<1>3. OnLwipErr(x, k) = u
  BY <1>2 DEF OnLwipErr, SilentAbortPcb
<1>4. /\ y \in Memory /\ y.chain = x.chain /\ y.n = x.n /\ y.stream = x.stream
      /\ \A j \in Keys : y.flow[j].state = x.flow[j].state /\ y.flow[j].stream = x.flow[j].stream
  <2>1. y \in Memory /\ y.chain = x.chain /\ y.n = x.n /\ y.stream = x.stream
    BY ZenonT(90), <1>1, AbortFields
  <2>2. \A j \in Keys : y.flow[j].state = x.flow[j].state /\ y.flow[j].stream = x.flow[j].stream
    BY ZenonT(90), <1>1, AbortFields
  <2> QED
    BY <2>1, <2>2
<1>5. y.flow[k].pcb = FALSE /\ y.pcb[k] = NoPcb /\ y.app[k].phase = "over"
  BY ZenonT(90), <1>1, <1>2, AbortFields
<1>6. \A j \in Keys : j # k => y.flow[j] = x.flow[j] /\ y.pcb[j] = x.pcb[j] /\ y.app[j] = x.app[j]
  BY <1>1, AbortOthers
<1> HIDE DEF y
<1>7. Table(y) /\ Binds(y.flow, y.stream)
  BY <1>1, <1>4, SameStates, BindsKept
<1>8. /\ Table(z) /\ Binds(z.flow, z.stream) /\ z.pcb = y.pcb /\ z.app = y.app
      /\ z.flow[k].stream = 0 /\ z.flow[k].state = y.flow[k].state /\ z.flow[k].pcb = y.flow[k].pcb
      /\ \A j \in Keys : j # k => z.flow[j] = y.flow[j]
  BY <1>7, CloseKeeps
<1> HIDE DEF z
<1>9. Loose(z.flow[k], z.pcb[k], z.app[k])
  BY <1>5, <1>8 DEF Loose, NoPcb
<1>10. InTable(z, k)
  BY <1>2, <1>4, <1>8 DEF InTable
<1>11. \A j \in Keys : j # k => OK(z, j)
  BY <1>1, <1>6, <1>8 DEF OK
<1>12. /\ Sound(u) /\ Without(z, u, k) /\ u.stream = z.stream
       /\ \A j \in Keys : u.flow[j].stream = z.flow[j].stream
  BY <1>8, <1>9, <1>10, <1>11, RemoveSound
<1> HIDE DEF u
<1>13. Without(x, u, k)
  BY <1>6, <1>8, <1>12 DEF Without
<1>14. Consistent(u)
  BY <1>8, <1>12, BindsKept, ConsistentParts
<1> QED
  BY <1>3, <1>13, <1>14

(* What lwIP has just accepted: a flow with a pcb and without a request. *)
Accepted(x, k) ==
    /\ Half(x, k) /\ Binds(x.flow, x.stream)
    /\ x.flow[k].state = "pending_stream" /\ x.flow[k].pcb = TRUE /\ x.flow[k].stream = 0
    /\ x.flow[k].paused = FALSE

LEMMA AbortKeeps ==
    ASSUME NEW x, NEW k \in Keys, Accepted(x, k)
    PROVE  Consistent(AbortPending(x, k)) /\ Shrinks(x, AbortPending(x, k))
<1> DEFINE z == TeardownFlow(x, k, FALSE)
<1>1. Sound(z) /\ Without(x, z, k) /\ z.stream = x.stream
  BY HalfRemoved DEF Accepted
<1> HIDE DEF z
<1>2. \A j \in Keys : z.flow[j].stream = x.flow[j].stream
  BY <1>1 DEF Without, NoFlow, Accepted
<1>3. Consistent(z)
  BY <1>1, <1>2, BindsKept, ConsistentParts DEF Accepted
<1>4. Shrinks(x, z)
  BY <1>1 DEF Shrinks, Without, InTable, NoFlow
<1> QED
  BY <1>3, <1>4 DEF AbortPending, z

(* A request on slot s for the flow of k. *)
Requested(x, k, s, v) == [x EXCEPT !.stream[s] = v, !.flow[k].stream = s]

(* The request was opened and closed again. *)
LEMMA HeadersKeeps ==
    ASSUME NEW x, NEW k \in Keys, Accepted(x, k), NEW s \in Streams, x.stream[s] = "free"
    PROVE  Consistent(AbortPending(Requested(x, k, s, "ended"), k)) /\ Shrinks(x, AbortPending(Requested(x, k, s, "ended"), k))
<1> DEFINE f == [x.flow[k] EXCEPT !.stream = s]
           u == [x EXCEPT !.stream[s] = "ended"]
           y == Requested(x, k, s, "ended")
           z == TeardownFlow(y, k, FALSE)
<1>1. x \in Memory /\ Table(x) /\ Half(x, k)
  BY DEF Accepted, Half, Table
<1>2. x.flow[k] \in FlowRec
  BY <1>1, MemoryFields
<1>3. f \in FlowRec /\ f.state = x.flow[k].state /\ f.pcb = x.flow[k].pcb
  <2>1. f \in FlowRec
    BY <1>2, FlowUpdates
  <2> QED
    BY <2>1, <1>2 DEF FlowRec
<1>4. y = [u EXCEPT !.flow[k] = f]
  BY <1>1 DEF Memory, Requested
<1> HIDE DEF f
<1>5. u \in Memory /\ u.chain = x.chain /\ u.flow = x.flow /\ u.n = x.n /\ u.pcb = x.pcb
      /\ u.stream = [x.stream EXCEPT ![s] = "ended"] /\ u.app = x.app
  BY <1>1, StreamSet
<1> HIDE DEF u, y
<1>6. y \in Memory /\ y.chain = x.chain /\ y.flow = [x.flow EXCEPT ![k] = f] /\ y.n = x.n
      /\ y.pcb = x.pcb /\ y.stream = [x.stream EXCEPT ![s] = "ended"] /\ y.app = x.app
  BY <1>3, <1>4, <1>5, FlowSet
<1>7. y.flow[k] = f /\ \A j \in Keys : j # k => y.flow[j] = x.flow[j]
  BY <1>1, <1>6, MemoryFields
<1>8. \A j \in Keys : y.flow[j].state = x.flow[j].state
  BY <1>3, <1>7
<1>9. Table(y)
  BY <1>1, <1>6, <1>8, SameStates
<1>10. \A j \in Keys : j # k => OK(y, j)
  BY <1>1, <1>6, <1>7 DEF Half, OK
<1>11. Half(y, k)
  BY <1>1, <1>3, <1>6, <1>7, <1>8, <1>9, <1>10 DEF Half, InTable
<1>12. Sound(z) /\ Without(y, z, k) /\ z.stream = y.stream
  BY <1>11, HalfRemoved
<1> HIDE DEF z
<1>13. \A j \in Keys : z.flow[j].stream = x.flow[j].stream
  BY <1>7, <1>12 DEF Without, NoFlow, Accepted
<1>14. Binds(x.flow, [x.stream EXCEPT ![s] = "ended"])
  BY <1>1, BindsOther, MemoryFields DEF Accepted
<1>15. Binds(z.flow, z.stream)
  BY <1>6, <1>12, <1>13, <1>14, BindsSame
<1>16. Shrinks(x, z)
  BY <1>8, <1>12 DEF Shrinks, Without, InTable, NoFlow
<1> QED
  BY <1>12, <1>15, <1>16, ConsistentParts DEF AbortPending, y, z

LEMMA BoundKeeps ==
    ASSUME NEW x, NEW k \in Keys, Accepted(x, k), NEW s \in Streams, x.stream[s] = "free"
    PROVE  Consistent(Requested(x, k, s, "open")) /\ Shrinks(x, Requested(x, k, s, "open"))
<1> DEFINE f == [x.flow[k] EXCEPT !.stream = s]
           u == [x EXCEPT !.stream[s] = "open"]
           y == Requested(x, k, s, "open")
<1>1. x \in Memory /\ Table(x) /\ Half(x, k)
  BY DEF Accepted, Half, Table
<1>2. x.flow[k] \in FlowRec
  BY <1>1, MemoryFields
<1>3. f \in FlowRec /\ f.state = x.flow[k].state /\ f.pcb = x.flow[k].pcb /\ f.stream = s
      /\ f.paused = x.flow[k].paused
  <2>1. f \in FlowRec
    BY <1>2, FlowUpdates
  <2> QED
    BY <2>1, <1>2 DEF FlowRec
<1>4. y = [u EXCEPT !.flow[k] = f]
  BY <1>1 DEF Memory, Requested
<1> HIDE DEF f
<1>5. u \in Memory /\ u.chain = x.chain /\ u.flow = x.flow /\ u.n = x.n /\ u.pcb = x.pcb
      /\ u.stream = [x.stream EXCEPT ![s] = "open"] /\ u.app = x.app
  BY <1>1, StreamSet
<1> HIDE DEF u, y
<1>6. y \in Memory /\ y.chain = x.chain /\ y.flow = [x.flow EXCEPT ![k] = f] /\ y.n = x.n
      /\ y.pcb = x.pcb /\ y.stream = [x.stream EXCEPT ![s] = "open"] /\ y.app = x.app
  BY <1>3, <1>4, <1>5, FlowSet
<1>7. y.flow[k] = f /\ \A j \in Keys : j # k => y.flow[j] = x.flow[j]
  BY <1>1, <1>6, MemoryFields
<1>8. \A j \in Keys : y.flow[j].state = x.flow[j].state
  BY <1>3, <1>7
<1>9. Table(y)
  BY <1>1, <1>6, <1>8, SameStates
<1>10. OK(y, k)
  <2>1. s # 0
    BY Constants
  <2> QED
    BY <2>1, <1>3, <1>6, <1>7 DEF OK, KeyOK, Accepted, Half
<1>11. \A j \in Keys : OK(y, j)
  BY <1>1, <1>6, <1>7, <1>10 DEF Half, OK
<1>12. Bound(x, y, k, s)
  BY <1>1, <1>3, <1>6, <1>7, MemoryFields DEF Bound, Accepted
<1>13. Binds(y.flow, y.stream)
  BY <1>12, BindsMore DEF Accepted
<1>14. Shrinks(x, y)
  BY <1>8 DEF Shrinks, InTable
<1> QED
  BY <1>9, <1>11, <1>13, <1>14, ConsistentParts DEF Sound, y

(* cli_tcp_lane_open_stream *)
LEMMA OpenKeeps ==
    ASSUME NEW x, NEW k \in Keys, Accepted(x, k), NEW how
    PROVE  Consistent(OpenStream(x, k, how)) /\ Shrinks(x, OpenStream(x, k, how))
<1> DEFINE free == {s \in Streams : x.stream[s] = "free"}
           s == CHOOSE s \in free : \A t \in free : s <= t
<1>1. CASE free = {} \/ how = "create"
  BY <1>1, AbortKeeps DEF OpenStream
<1>2. CASE free # {} /\ how # "create"
  <2>1. \E t \in free : \A r \in free : t <= r
    BY <1>2, LeastNatural, Constants
  <2>2. s \in Streams /\ x.stream[s] = "free"
    BY <2>1
  <2>3. CASE how = "headers"
    <3>1. OpenStream(x, k, how) = AbortPending(Requested(x, k, s, "ended"), k)
      BY <1>2, <2>3 DEF OpenStream, Requested
    <3> HIDE DEF s
    <3> QED
      BY <2>2, <3>1, HeadersKeeps
  <2>4. CASE how # "headers"
    <3>1. OpenStream(x, k, how) = Requested(x, k, s, "open")
      BY <1>2, <2>4 DEF OpenStream, Requested
    <3> HIDE DEF s
    <3> QED
      BY <2>2, <3>1, BoundKeeps
  <2> QED
    BY <2>3, <2>4
<1> QED
  BY <1>1, <1>2

(* A pcb that no flow owns is freed or half-open. *)
LEMMA PcbKeeps ==
    ASSUME NEW x, Consistent(x), NEW k \in Keys, x.pcb[k].state # "established",
           NEW p \in PcbRec, p.state # "established", NEW a \in ConnRec,
           a = x.app[k] \/ a.phase = "over"
    PROVE  /\ Consistent(Put(x, k, x.flow[k], p, a))
           /\ Shrinks(x, Put(x, k, x.flow[k], p, a))
<1>1. x \in Memory /\ KeyOK(x.flow[k], x.pcb[k], x.app[k])
  BY DEF Consistent
<1>2. x.flow[k] \in FlowRec /\ x.flow[k].pcb \in BOOLEAN
  BY <1>1, MemoryFields, FlowFields
<1>3. KeyOK(x.flow[k], p, a)
  BY <1>1, <1>2 DEF KeyOK
<1>4. Consistent(Put(x, k, x.flow[k], p, a))
  BY <1>2, <1>3, PutConsistent
<1>5. Shrinks(x, Put(x, k, x.flow[k], p, a))
  BY <1>1, <1>2, PutStates
<1> QED
  BY <1>4, <1>5

LEMMA PcbUpdates ==
    ASSUME NEW x \in Memory, NEW k \in Keys
    PROVE  /\ \A p \in PcbRec : [x EXCEPT !.pcb[k] = p] = Put(x, k, x.flow[k], p, x.app[k])
           /\ [x EXCEPT !.pcb[k] = NoPcb, !.app[k].phase = "over"]
                = Put(x, k, x.flow[k], NoPcb, [x.app[k] EXCEPT !.phase = "over"])
BY MemoryFields DEF Put, Memory

LEMMA FlowPut ==
    ASSUME NEW x \in Memory, NEW k \in Keys, NEW f \in FlowRec
    PROVE  [x EXCEPT !.flow[k] = f] = Put(x, k, f, x.pcb[k], x.app[k])
<1> DEFINE y == [x EXCEPT !.flow[k] = f]
<1>1. Put(x, k, f, x.pcb[k], x.app[k]) = [[y EXCEPT !.pcb[k] = x.pcb[k]] EXCEPT !.app[k] = x.app[k]]
  BY DEF Put
<1>2. y \in Memory /\ y.pcb = x.pcb /\ y.app = x.app
  BY FlowSet
<1> HIDE DEF y
<1>3. [y EXCEPT !.pcb[k] = y.pcb[k]] = y
  BY <1>2 DEF Memory
<1>4. [y EXCEPT !.app[k] = y.app[k]] = y
  BY <1>2 DEF Memory
<1> QED
  BY <1>1, <1>2, <1>3, <1>4 DEF y

(* The pcb is refused or has been given up. *)
Gone(x, k) == [x EXCEPT !.pcb[k] = NoPcb, !.app[k].phase = "over"]

LEMMA GoneKeeps ==
    ASSUME NEW x, Consistent(x), NEW k \in Keys, x.pcb[k].state # "established"
    PROVE  /\ Consistent(Gone(x, k)) /\ Shrinks(x, Gone(x, k))
           /\ Consistent([x EXCEPT !.pcb[k] = NoPcb])
           /\ Shrinks(x, [x EXCEPT !.pcb[k] = NoPcb])
<1> DEFINE a == [x.app[k] EXCEPT !.phase = "over"]
<1>1. x \in Memory
  BY DEF Consistent
<1>2. x.app[k] \in ConnRec /\ a \in ConnRec /\ a.phase = "over"
  <2>1. x.app[k] \in ConnRec
    BY <1>1, MemoryFields
  <2> QED
    BY <2>1 DEF ConnRec
<1>3. NoPcb \in PcbRec /\ NoPcb.state # "established"
  BY Blanks DEF NoPcb
<1>4. /\ [x EXCEPT !.pcb[k] = NoPcb] = Put(x, k, x.flow[k], NoPcb, x.app[k])
      /\ Gone(x, k) = Put(x, k, x.flow[k], NoPcb, a)
  BY <1>1, <1>3, PcbUpdates DEF Gone
<1> HIDE DEF a
<1>5. /\ Consistent(Put(x, k, x.flow[k], NoPcb, a)) /\ Shrinks(x, Put(x, k, x.flow[k], NoPcb, a))
  BY <1>2, <1>3, PcbKeeps
<1>6. /\ Consistent(Put(x, k, x.flow[k], NoPcb, x.app[k])) /\ Shrinks(x, Put(x, k, x.flow[k], NoPcb, x.app[k]))
  BY <1>2, <1>3, PcbKeeps
<1> QED
  BY <1>4, <1>5, <1>6

(* cli_tcp_lane_on_lwip_accept *)
LEMMA AcceptKeeps ==
    ASSUME NEW x, Consistent(x), NEW k \in Keys, x.pcb[k].state = "syn_rcvd", NEW how
    PROVE  Consistent(LwipAccept(x, k, how)) /\ Shrinks(x, LwipAccept(x, k, how))
<1>1. CASE x.flow[k].state # "pending_accept"
  <2>1. LwipAccept(x, k, how) = Gone(x, k)
    BY <1>1 DEF LwipAccept, Gone
  <2>2. x.pcb[k].state # "established"
    OBVIOUS
  <2> QED
    BY <2>1, <2>2, GoneKeeps
<1>2. CASE x.flow[k].state = "pending_accept"
  <2> DEFINE f == [x.flow[k] EXCEPT !.state = "pending_stream", !.pcb = TRUE, !.age = 0]
             p == [x.pcb[k] EXCEPT !.state = "established"]
             a == [x.app[k] EXCEPT !.phase = "est"]
             y == [x EXCEPT !.pcb[k].state = "established", !.app[k].phase = "est",
                            !.flow[k].state = "pending_stream", !.flow[k].pcb = TRUE, !.flow[k].age = 0]
  <2>1. Table(x) /\ Binds(x.flow, x.stream) /\ x \in Memory /\ \A j \in Keys : OK(x, j)
    BY ConsistentParts DEF Sound, Table
  <2>2. x.flow[k] \in FlowRec /\ x.pcb[k] \in PcbRec /\ x.app[k] \in ConnRec
    BY <2>1, MemoryFields
  <2>3. ~(x.n["tcp"] > MaxFlows)
    <3>1. x.n["tcp"] \in Int /\ x.n["tcp"] <= MaxFlows
      BY <2>1, MemoryFields DEF Table, Capped, Populations
    <3> QED
      BY <3>1, Constants
  <2>4. LwipAccept(x, k, how) = OpenStream(y, k, how)
    BY <1>2, <2>3 DEF LwipAccept
  <2>5. f \in FlowRec
    <3>1. [x.flow[k] EXCEPT !.state = "pending_stream"] \in FlowRec
      BY <2>2, FlowUpdates
    <3>2. [[x.flow[k] EXCEPT !.state = "pending_stream"] EXCEPT !.pcb = TRUE] \in FlowRec
      BY <3>1, FlowUpdates
    <3>3. [[[x.flow[k] EXCEPT !.state = "pending_stream"] EXCEPT !.pcb = TRUE] EXCEPT !.age = 0] \in FlowRec
      BY <3>2, FlowUpdates
    <3> QED
      BY <3>3
  <2>6. f.state = "pending_stream" /\ f.pcb = TRUE /\ f.stream = x.flow[k].stream
        /\ f.paused = x.flow[k].paused
    BY <2>2 DEF FlowRec
  <2>7. p \in PcbRec /\ p.state = "established"
    BY <2>2 DEF PcbRec
  <2>8. a \in ConnRec /\ a.phase = "est"
    BY <2>1, PhaseSet DEF Phases
  <2>9. y \in Memory
    <3> DEFINE v1 == [x EXCEPT !.pcb[k].state = "established"]
               v2 == [v1 EXCEPT !.app[k].phase = "est"]
               v3 == [v2 EXCEPT !.flow[k].state = "pending_stream"]
               v4 == [v3 EXCEPT !.flow[k].pcb = TRUE]
               v5 == [v4 EXCEPT !.flow[k].age = 0]
    <3>1. v1 \in Memory
      <4>1. v1 = [x EXCEPT !.pcb[k] = p]
        BY <2>1 DEF Memory
      <4> HIDE DEF p
      <4> QED
        BY <4>1, <2>1, <2>7 DEF Memory
    <3>2. v2 \in Memory
      <4> HIDE DEF v1
      <4>1. "est" \in Phases
        BY DEF Phases
      <4> QED
        BY <3>1, <4>1, PhaseSet
    <3>3. v3 \in Memory
      <4> HIDE DEF v2
      <4>1. v2.flow[k] \in FlowRec
        BY <3>2, MemoryFields
      <4>2. [v2.flow[k] EXCEPT !.state = "pending_stream"] \in FlowRec
        BY <4>1, FlowUpdates
      <4>3. v3 = [v2 EXCEPT !.flow[k] = [v2.flow[k] EXCEPT !.state = "pending_stream"]]
        BY <3>2 DEF Memory
      <4> QED
        BY <3>2, <4>2, <4>3, FlowSet
    <3>4. v4 \in Memory
      <4> HIDE DEF v3
      <4>1. v3.flow[k] \in FlowRec
        BY <3>3, MemoryFields
      <4>2. [v3.flow[k] EXCEPT !.pcb = TRUE] \in FlowRec
        BY <4>1, FlowUpdates
      <4>3. v4 = [v3 EXCEPT !.flow[k] = [v3.flow[k] EXCEPT !.pcb = TRUE]]
        BY <3>3 DEF Memory
      <4> QED
        BY <3>3, <4>2, <4>3, FlowSet
    <3>5. v5 \in Memory
      <4> HIDE DEF v4
      <4>1. v4.flow[k] \in FlowRec
        BY <3>4, MemoryFields
      <4>2. [v4.flow[k] EXCEPT !.age = 0] \in FlowRec
        BY <4>1, FlowUpdates
      <4>3. v5 = [v4 EXCEPT !.flow[k] = [v4.flow[k] EXCEPT !.age = 0]]
        BY <3>4 DEF Memory
      <4> QED
        BY <3>4, <4>2, <4>3, FlowSet
    <3> QED
      BY <3>5
  <2>0. /\ y.chain = x.chain /\ y.n = x.n /\ y.stream = x.stream
        /\ y.flow = [x.flow EXCEPT ![k] = f] /\ y.pcb = [x.pcb EXCEPT ![k] = p]
        /\ y.app = [x.app EXCEPT ![k] = a]
    BY <2>1 DEF Memory
  <2> HIDE DEF y, f, p, a
  <2>10. /\ y \in Memory /\ y.chain = x.chain /\ y.n = x.n /\ y.stream = x.stream
         /\ y.flow[k] = f /\ y.pcb[k] = p /\ y.app[k] = a
         /\ \A j \in Keys : j # k => y.flow[j] = x.flow[j] /\ y.pcb[j] = x.pcb[j] /\ y.app[j] = x.app[j]
    BY <2>0, <2>1, <2>9, MemoryFields
  <2>11. SameEntries(x, y)
    BY <1>2, <2>6, <2>10 DEF SameEntries, InTable, Population
  <2>12. Table(y)
    BY <2>1, <2>10, <2>11, SameTable
  <2>13. x.flow[k].stream = 0 /\ x.flow[k].paused = FALSE
    <3>1. KeyOK(x.flow[k], x.pcb[k], x.app[k]) /\ x.flow[k].paused \in BOOLEAN
      BY <2>1, <2>2, FlowFields DEF OK
    <3> QED
      BY <1>2, <3>1 DEF KeyOK
  <2>14. Binds(y.flow, y.stream)
    BY <2>1, <2>6, <2>10, BindsKept
  <2>15. \A j \in Keys : j # k => OK(y, j)
    BY <2>1, <2>10 DEF OK
  <2>16. InTable(y, k)
    BY <2>6, <2>10 DEF InTable
  <2>17. Half(y, k)
    BY <2>6, <2>7, <2>8, <2>10, <2>12, <2>15, <2>16 DEF Half
  <2>18. Accepted(y, k)
    BY <2>6, <2>10, <2>13, <2>14, <2>17 DEF Accepted
  <2>19. Consistent(OpenStream(y, k, how)) /\ Shrinks(y, OpenStream(y, k, how))
    BY <2>18, OpenKeeps
  <2>20. Shrinks(x, OpenStream(y, k, how))
    BY <2>11, <2>19 DEF Shrinks, SameEntries
  <2> QED
    BY <2>4, <2>19, <2>20
<1> QED
  BY <1>1, <1>2

LEMMA AgeKeeps ==
    ASSUME NEW x, Consistent(x), NEW k \in Keys
    PROVE  Consistent([x EXCEPT !.flow[k].age = 0]) /\ Shrinks(x, [x EXCEPT !.flow[k].age = 0])
<1> DEFINE f == [x.flow[k] EXCEPT !.age = 0]
<1>1. x \in Memory /\ KeyOK(x.flow[k], x.pcb[k], x.app[k])
  BY DEF Consistent
<1>2. x.flow[k] \in FlowRec /\ x.pcb[k] \in PcbRec /\ x.app[k] \in ConnRec
  BY <1>1, MemoryFields
<1>3. f \in FlowRec
  BY <1>2, FlowUpdates
<1>4. /\ f.state = x.flow[k].state /\ f.stream = x.flow[k].stream /\ f.pcb = x.flow[k].pcb
      /\ f.paused = x.flow[k].paused /\ f.isn = x.flow[k].isn
  BY <1>2 DEF FlowRec
<1>5. [x EXCEPT !.flow[k].age = 0] = Put(x, k, f, x.pcb[k], x.app[k])
  <2>1. [x EXCEPT !.flow[k].age = 0] = [x EXCEPT !.flow[k] = f]
    BY <1>1 DEF Memory
  <2> HIDE DEF f
  <2> QED
    BY <1>1, <1>3, <2>1, FlowPut
<1> HIDE DEF f
<1>6. KeyOK(f, x.pcb[k], x.app[k])
  BY <1>1, <1>4 DEF KeyOK
<1>7. Consistent(Put(x, k, f, x.pcb[k], x.app[k]))
  BY <1>2, <1>3, <1>4, <1>6, PutConsistent
<1>8. Shrinks(x, Put(x, k, f, x.pcb[k], x.app[k]))
  BY <1>1, <1>2, <1>3, <1>4, PutStates
<1> QED
  BY <1>5, <1>7, <1>8

LEMMA OverKeeps ==
    ASSUME NEW x, Consistent(x), NEW k \in Keys
    PROVE  /\ Consistent([x EXCEPT !.app[k].phase = "over"])
           /\ Shrinks(x, [x EXCEPT !.app[k].phase = "over"])
<1>1. "over" \in Phases /\ "over" \notin {"est", "mixed"} /\ "over" # "raw"
  BY DEF Phases
<1>2. /\ Consistent([x EXCEPT !.app[k].phase = "over"])
      /\ [x EXCEPT !.app[k].phase = "over"].flow = x.flow
  BY <1>1, PhaseKeeps
<1> QED
  BY <1>2 DEF Shrinks, InTable

(* What lwIP does with a segment, and the callbacks it makes. *)
LEMMA InputKeeps ==
    ASSUME NEW x, Consistent(x), NEW k \in Keys, NEW seg \in {"syn", "ack", "rst"}, NEW how
    PROVE  Consistent(LwipInput(x, k, seg, how)) /\ Shrinks(x, LwipInput(x, k, seg, how))
<1> DEFINE p == x.pcb[k].state
           y == LwipInput(x, k, seg, how)
           half == [state |-> "syn_rcvd", listener |-> TRUE]
<1>p. p \in {"none", "syn_rcvd", "established", "closing"} /\ x \in Memory
  BY MemoryFields DEF Consistent, PcbRec
<1>1. CASE seg = "syn"
  <2>1. CASE p = "none" /\ how # "create"
    <3>1. y = [x EXCEPT !.pcb[k] = half]
      BY <1>1, <2>1 DEF LwipInput
    <3>2. half \in PcbRec /\ half.state # "established"
      BY DEF PcbRec
    <3> HIDE DEF half, y
    <3>3. y = Put(x, k, x.flow[k], half, x.app[k])
      BY <3>1, <3>2, <1>p, PcbUpdates
    <3>4. x.pcb[k].state # "established" /\ x.app[k] \in ConnRec
      BY <2>1, <1>p, MemoryFields
    <3> QED
      BY <3>2, <3>3, <3>4, PcbKeeps DEF y
  <2>2. CASE ~(p = "none" /\ how # "create")
    <3>1. y = x
      BY <1>1, <2>2 DEF LwipInput
    <3> QED
      BY <3>1 DEF Shrinks
  <2> QED
    BY <2>1, <2>2
<1>2. CASE seg = "ack"
  <2>1. CASE p = "none"
    <3>1. y = [x EXCEPT !.app[k].phase = "over"]
      BY <1>2, <2>1 DEF LwipInput
    <3> QED
      BY <3>1, OverKeeps
  <2>2. CASE p = "syn_rcvd" /\ x.pcb[k].listener
    <3>1. y = LwipAccept(x, k, how)
      BY <1>2, <2>2 DEF LwipInput
    <3> QED
      BY <3>1, <2>2, AcceptKeeps
  <2>3. CASE p = "syn_rcvd" /\ ~x.pcb[k].listener
    <3>1. y = Gone(x, k)
      BY <1>2, <2>3 DEF LwipInput, Gone
    <3>2. x.pcb[k].state # "established"
      BY <2>3
    <3> QED
      BY <3>1, <3>2, GoneKeeps
  <2>4. CASE p = "established"
    <3>1. y = [x EXCEPT !.flow[k].age = 0]
      BY <1>2, <2>4 DEF LwipInput
    <3> QED
      BY <3>1, AgeKeeps
  <2>5. CASE p = "closing"
    <3>1. y = [x EXCEPT !.pcb[k] = NoPcb]
      BY <1>2, <2>5 DEF LwipInput
    <3>2. x.pcb[k].state # "established"
      BY <2>5
    <3> QED
      BY <3>1, <3>2, GoneKeeps
  <2> QED
    BY <1>p, <2>1, <2>2, <2>3, <2>4, <2>5
<1>3. CASE seg = "rst"
  <2>1. CASE p = "established"
    <3>1. y = OnLwipErr(x, k)
      BY <1>3, <2>1 DEF LwipInput
    <3>2. Consistent(OnLwipErr(x, k)) /\ Without(x, OnLwipErr(x, k), k)
      BY <2>1, ErrKeeps
    <3> QED
      BY <3>1, <3>2 DEF Shrinks, Without, InTable, NoFlow
  <2>2. CASE p \in {"syn_rcvd", "closing"}
    <3>1. y = Gone(x, k)
      BY <1>3, <2>2 DEF LwipInput, Gone
    <3>2. x.pcb[k].state # "established"
      BY SMTT(90), <2>2
    <3> QED
      BY <3>1, <3>2, GoneKeeps
  <2>3. CASE p = "none"
    <3>1. y = x
      BY SMTT(90), <1>3, <2>3 DEF LwipInput
    <3> QED
      BY <3>1 DEF Shrinks
  <2> QED
    BY <1>p, <2>1, <2>2, <2>3
<1> QED
  BY <1>1, <1>2, <1>3

-----------------------------------------------------------------------------
(* The steps.  What has to be shown of the state after one: *)
LEMMA InvNext ==
    ASSUME Consistent(w'), Admitted(w', lane'), Walks(w', cur', nxt'), lane' \in BOOLEAN, due' \in BOOLEAN
    PROVE  LaneInv'
BY DEF LaneInv, Consistent, Admitted, Walks, Lists, Entries, Counts, Members, Capped, KeyOK, Binds,
       Memory, FlowRec, PcbRec, ConnRec, InTable, Population, Populations, Classify

LEMMA NoWalk ==
    ASSUME LaneInv, Quiet, NEW x
    PROVE  cur = None /\ nxt = None /\ Walks(x, cur, nxt)
BY Constants DEF LaneInv, Quiet, Walks

(* A step outside the sweep. *)
LEMMA QuietStep ==
    ASSUME LaneInv, Quiet, NEW x, Consistent(x), Admitted(x, lane), FlowStep(x)
    PROVE  LaneInv'
<1>1. w' = x /\ lane' = lane /\ due' = due /\ cur' = cur /\ nxt' = nxt
  BY DEF FlowStep
<1>2. Walks(w', cur', nxt')
  BY <1>1, NoWalk
<1>3. Consistent(w') /\ Admitted(w', lane')
  BY <1>1
<1> QED
  BY <1>1, <1>2, <1>3, InvNext DEF LaneInv

LEMMA AdmittedShrinks ==
    ASSUME NEW x, NEW y, NEW on, Admitted(x, on), Shrinks(x, y)
    PROVE  Admitted(y, on)
BY DEF Admitted, Shrinks

LEMMA WithoutShrinks ==
    ASSUME NEW x, NEW y, NEW k \in Keys, Without(x, y, k)
    PROVE  Shrinks(x, y)
BY DEF Without, Shrinks, InTable, NoFlow

LEMMA ShrinkStep ==
    ASSUME LaneInv, Quiet, NEW x, Consistent(x), Shrinks(w, x), FlowStep(x)
    PROVE  LaneInv'
<1>1. Admitted(x, lane)
  BY AdmittedShrinks DEF LaneInv
<1> QED
  BY <1>1, QuietStep

(* A packet from the TUN device. *)
LEMMA TunPacketStep ==
    ASSUME LaneInv, NEW k \in Keys, NEW seg \in {"syn", "ack", "rst"}, NEW how, NEW multi \in BOOLEAN,
           TunPacket(k, seg, how, multi)
    PROVE  LaneInv'
<1> DEFINE v == Verdict(k, seg, SynPolicy(multi))
           x == Note(v.x, k, v)
           y == IF seg = "rst" THEN [x EXCEPT !.app[k].phase = "over"] ELSE x
           z == IF v.lane = "tcp" THEN LwipInput(y, k, seg, how) ELSE y
<1>0. Quiet /\ FlowStep(z)
  BY DEF TunPacket, FlowStep
<1>1. SynPolicy(multi) \in BOOLEAN
  BY DEF SynPolicy
<1>2. Judged(w, k, v) /\ Admitted(v.x, lane)
  BY <1>1, VerdictKeeps DEF LaneInv
<1> HIDE DEF v
<1>3. Consistent(x) /\ x.flow = v.x.flow
  BY <1>2, NoteKeeps
<1> HIDE DEF x
<1>4. Admitted(x, lane)
  BY <1>2, <1>3 DEF Admitted, InTable
<1>5. Consistent(y) /\ Shrinks(x, y)
  BY <1>3, OverKeeps DEF Shrinks
<1> HIDE DEF y
<1>6. Consistent(z) /\ Shrinks(y, z)
  BY <1>5, InputKeeps DEF Shrinks
<1> HIDE DEF z
<1>7. Admitted(z, lane)
  BY <1>4, <1>5, <1>6 DEF Admitted, Shrinks
<1> QED
  BY <1>0, <1>6, <1>7, QuietStep

(* A change to the flow of k that keeps its stream, its pcb and its        *)
(* population.                                                             *)
LEMMA FlowKeeps ==
    ASSUME NEW x, Consistent(x), NEW k \in Keys, NEW f \in FlowRec, x.flow[k].pcb = TRUE,
           f.pcb = TRUE, f.state \in {"pending_stream", "active"}, f.stream = x.flow[k].stream,
           f.paused => f.state = "active"
    PROVE  /\ Consistent([x EXCEPT !.flow[k] = f]) /\ Shrinks(x, [x EXCEPT !.flow[k] = f])
           /\ \A j \in Keys : InTable(x, j) => InTable([x EXCEPT !.flow[k] = f], j)
<1> DEFINE y == Put(x, k, f, x.pcb[k], x.app[k])
<1>1. Table(x) /\ Binds(x.flow, x.stream) /\ x \in Memory /\ \A j \in Keys : OK(x, j)
  BY ConsistentParts DEF Sound, Table
<1>2. x.pcb[k] \in PcbRec /\ x.app[k] \in ConnRec
  BY <1>1, MemoryFields
<1>3. KeyOK(x.flow[k], x.pcb[k], x.app[k])
  BY <1>1 DEF OK
<1>4. x.flow[k].state \in {"pending_stream", "active"}
  BY <1>3 DEF KeyOK
<1>5. KeyOK(f, x.pcb[k], x.app[k])
  BY <1>3, <1>4 DEF KeyOK
<1>6. InTable(x, k) /\ f.state # "absent" /\ Population(f.state) = Population(x.flow[k].state)
  BY <1>4 DEF InTable, Population
<1>7. Sound(y)
  BY <1>1, <1>2, <1>5, <1>6, PutSound
<1>8. y.stream = x.stream /\ y.flow[k] = f /\ \A j \in Keys : j # k => y.flow[j] = x.flow[j]
  BY <1>1, <1>2, PutFields
<1>9. [x EXCEPT !.flow[k] = f] = y
  BY <1>1, FlowPut
<1> HIDE DEF y
<1>10. \A j \in Keys : y.flow[j].stream = x.flow[j].stream
  BY <1>8
<1>11. Consistent(y)
  BY <1>1, <1>7, <1>8, <1>10, BindsKept, ConsistentParts
<1>12. Shrinks(x, y) /\ \A j \in Keys : InTable(x, j) => InTable(y, j)
  BY <1>6, <1>8 DEF Shrinks, InTable
<1> QED
  BY <1>9, <1>11, <1>12

LEMMA BoundFlow ==
    ASSUME NEW x, Consistent(x), NEW k \in Keys
    PROVE  /\ x \in Memory /\ x.flow[k] \in FlowRec
           /\ x.flow[k].state \in {"pending_stream", "active"} => x.flow[k].pcb = TRUE
           /\ x.flow[k].stream # 0 => x.flow[k].state \in {"pending_stream", "active"} /\ x.flow[k].pcb = TRUE
           /\ x.flow[k].paused => x.flow[k].state = "active"
<1>1. x \in Memory /\ KeyOK(x.flow[k], x.pcb[k], x.app[k])
  BY DEF Consistent
<1>2. x.flow[k] \in FlowRec /\ x.flow[k].pcb \in BOOLEAN
  BY <1>1, MemoryFields, FlowFields
<1> QED
  BY <1>1, <1>2 DEF KeyOK

LEMMA EstablishedStep ==
    ASSUME LaneInv, NEW s \in Streams, OnStreamEstablished(s)
    PROVE  LaneInv'
<1>1. PICK k \in Owners(w, s) :
        /\ Quiet /\ w.flow[k].state = "pending_stream"
        /\ FlowStep([w EXCEPT !.flow[k].state = "active", !.flow[k].age = 0])
  BY DEF OnStreamEstablished
<1> DEFINE f == [w.flow[k] EXCEPT !.state = "active", !.age = 0]
           y == [w EXCEPT !.flow[k] = f]
<1>2. k \in Keys /\ Consistent(w)
  BY DEF Owners, LaneInv
<1>3. w \in Memory /\ w.flow[k] \in FlowRec /\ w.flow[k].pcb = TRUE
  BY <1>1, <1>2, BoundFlow
<1>4. f \in FlowRec
  <2>1. [w.flow[k] EXCEPT !.state = "active"] \in FlowRec
    BY <1>3, FlowUpdates
  <2>2. [[w.flow[k] EXCEPT !.state = "active"] EXCEPT !.age = 0] \in FlowRec
    BY <2>1, FlowUpdates
  <2> QED
    BY <2>2
<1>5. f.pcb = TRUE /\ f.state = "active" /\ f.stream = w.flow[k].stream
  BY <1>3 DEF FlowRec
<1>6. [w EXCEPT !.flow[k].state = "active", !.flow[k].age = 0] = y
  BY <1>2, <1>3 DEF Memory
<1> HIDE DEF f
<1>7. Consistent(y) /\ Shrinks(w, y)
  BY <1>2, <1>3, <1>4, <1>5, FlowKeeps
<1> HIDE DEF y
<1> QED
  BY <1>1, <1>6, <1>7, ShrinkStep

LEMMA RejectedStep ==
    ASSUME LaneInv, NEW s \in Streams, OnStreamRejected(s)
    PROVE  LaneInv'
<1>1. PICK k \in Owners(w, s) :
        /\ Quiet /\ w.flow[k].state = "pending_stream" /\ FlowStep(TeardownFlow(w, k, TRUE))
  BY DEF OnStreamRejected
<1>2. k \in Keys /\ Consistent(w) /\ InTable(w, k) /\ w.flow[k].state # "sticky_raw"
  BY <1>1 DEF Owners, LaneInv, InTable
<1>3. Consistent(TeardownFlow(w, k, TRUE)) /\ Without(w, TeardownFlow(w, k, TRUE), k)
  BY <1>2, TeardownKeeps
<1> QED
  BY <1>1, <1>2, <1>3, ShrinkStep, WithoutShrinks

(* The request of a flow is gone before the flow knows. *)
LEMMA OwnerRemoved ==
    ASSUME NEW x, Consistent(x), NEW k \in Keys, x.flow[k].stream # 0
    PROVE  /\ Sound(TeardownFlow(x, k, FALSE)) /\ Without(x, TeardownFlow(x, k, FALSE), k)
           /\ TeardownFlow(x, k, FALSE).stream = x.stream
<1>1. Table(x) /\ \A j \in Keys : OK(x, j)
  BY ConsistentParts DEF Sound
<1>2. x.flow[k].state \in {"pending_stream", "active"} /\ x.flow[k].pcb = TRUE
  BY BoundFlow
<1>3. KeyOK(x.flow[k], x.pcb[k], x.app[k])
  BY <1>1 DEF OK
<1>4. Half(x, k)
  BY <1>1, <1>2, <1>3 DEF Half, KeyOK, InTable
<1> QED
  BY <1>4, HalfRemoved

LEMMA ClosingStep ==
    ASSUME LaneInv, NEW s \in Streams, ClosingNotify(s)
    PROVE  LaneInv'
<1> DEFINE k == CHOOSE k \in Owners(w, s) : TRUE
           y == OnH3Closing(w, s)
           z == [y EXCEPT !.stream[s] = "ended"]
<1>1. Quiet /\ w.stream[s] = "open" /\ FlowStep(z) /\ Consistent(w)
  BY DEF ClosingNotify, LaneInv
<1>2. Owners(w, s) # {}
  BY <1>1 DEF Consistent, Binds, Owners
<1>3. k \in Keys /\ w.flow[k].stream = s
  BY <1>2 DEF Owners
<1>4. y = TeardownFlow(w, k, FALSE)
  BY <1>2 DEF OnH3Closing
<1> HIDE DEF k
<1>5. s # 0
  BY Constants
<1>6. Sound(y) /\ Without(w, y, k) /\ y.stream = w.stream
  BY <1>1, <1>3, <1>4, <1>5, OwnerRemoved
<1>7. y \in Memory /\ Table(y)
  BY <1>6 DEF Sound, Table
<1> HIDE DEF y
<1>8. /\ z \in Memory /\ z.chain = y.chain /\ z.flow = y.flow /\ z.n = y.n /\ z.pcb = y.pcb
      /\ z.stream = [w.stream EXCEPT ![s] = "ended"] /\ z.app = y.app
  <2>1. /\ z \in Memory /\ z.chain = y.chain /\ z.flow = y.flow /\ z.n = y.n /\ z.pcb = y.pcb
        /\ z.stream = [y.stream EXCEPT ![s] = "ended"] /\ z.app = y.app
    BY <1>7, StreamSet
  <2> HIDE DEF z
  <2> QED
    BY <1>6, <2>1
<1> HIDE DEF z
<1>9. Table(z)
  BY <1>7, <1>8, SameStates
<1>10. \A j \in Keys : OK(z, j)
  BY <1>6, <1>8 DEF Sound, OK
<1>11. Unbound(w, z, k, s)
  BY <1>1, <1>3, <1>6, <1>8, MemoryFields DEF Unbound, Without, NoFlow, Consistent
<1>12. Binds(z.flow, z.stream)
  BY <1>1, <1>11, Unbinds DEF Consistent
<1>13. Consistent(z)
  BY <1>9, <1>10, <1>12, ConsistentParts DEF Sound
<1>14. Shrinks(w, z)
  BY <1>6, <1>8 DEF Shrinks, Without, InTable, NoFlow
<1> QED
  BY <1>1, <1>13, <1>14, ShrinkStep

LEMMA CloseStep ==
    ASSUME LaneInv, NEW s \in Streams, CloseNotify(s)
    PROVE  LaneInv'
<1> DEFINE z == [w EXCEPT !.stream[s] = "free"]
<1>1. Quiet /\ w.stream[s] = "ended" /\ FlowStep(RequestClosed(w, s)) /\ Consistent(w)
  BY DEF CloseNotify, LaneInv
<1>2. Owners(w, s) = {}
  <2>1. s # 0
    BY Constants
  <2> QED
    BY <1>1, <2>1 DEF Consistent, Binds, Owners
<1>3. RequestClosed(w, s) = z
  BY <1>1, <1>2 DEF RequestClosed, OnH3Closing
<1>4. Table(w) /\ Binds(w.flow, w.stream) /\ w \in Memory /\ \A j \in Keys : OK(w, j)
  BY <1>1, ConsistentParts DEF Sound, Table
<1>5. /\ z \in Memory /\ z.chain = w.chain /\ z.flow = w.flow /\ z.n = w.n /\ z.pcb = w.pcb
      /\ z.stream = [w.stream EXCEPT ![s] = "free"] /\ z.app = w.app
  BY <1>4, StreamSet
<1> HIDE DEF z
<1>6. Table(z)
  BY <1>4, <1>5, SameStates
<1>7. \A j \in Keys : OK(z, j)
  BY <1>4, <1>5 DEF OK
<1>8. Binds(w.flow, [w.stream EXCEPT ![s] = "free"])
  <2>1. w.stream[s] # "open" /\ "free" \in {"free", "ended"}
    BY <1>1
  <2> QED
    BY <2>1, <1>4, BindsOther, MemoryFields
<1>9. Consistent(z)
  BY <1>5, <1>6, <1>7, <1>8, ConsistentParts DEF Sound
<1>10. Shrinks(w, z)
  BY <1>5 DEF Shrinks, InTable
<1> QED
  BY <1>1, <1>3, <1>9, <1>10, ShrinkStep

(* A flow's relay moved bytes. *)
LEMMA MovesKeeps ==
    ASSUME NEW x, Consistent(x), NEW k \in Keys, x.flow[k].state = "active", NEW p \in BOOLEAN
    PROVE  LET f == [[x.flow[k] EXCEPT !.age = 0] EXCEPT !.paused = p]
               y == [x EXCEPT !.flow[k] = f]
           IN  /\ f.state = "active" /\ x \in Memory
               /\ Consistent(y) /\ Shrinks(x, y)
               /\ \A j \in Keys : InTable(x, j) => InTable(y, j)
<1> DEFINE f == [[x.flow[k] EXCEPT !.age = 0] EXCEPT !.paused = p]
<1>1. x \in Memory /\ x.flow[k] \in FlowRec /\ x.flow[k].pcb = TRUE
  BY BoundFlow
<1>2. [x.flow[k] EXCEPT !.age = 0] \in FlowRec
  BY <1>1, FlowUpdates
<1>3. f \in FlowRec
  BY <1>2, FlowUpdates
<1>4. f.state = "active" /\ f.pcb = TRUE /\ f.stream = x.flow[k].stream
  BY <1>1 DEF FlowRec
<1> HIDE DEF f
<1>5. /\ Consistent([x EXCEPT !.flow[k] = f]) /\ Shrinks(x, [x EXCEPT !.flow[k] = f])
      /\ \A j \in Keys : InTable(x, j) => InTable([x EXCEPT !.flow[k] = f], j)
  BY <1>1, <1>3, <1>4, FlowKeeps
<1> QED
  BY <1>1, <1>4, <1>5 DEF f

LEMMA MovesStep ==
    ASSUME LaneInv, NEW k \in Keys, RelayMoves(k)
    PROVE  LaneInv'
<1>1. PICK p \in BOOLEAN : FlowStep([w EXCEPT !.flow[k].age = 0, !.flow[k].paused = p])
  BY DEF RelayMoves
<1>2. Quiet /\ w.flow[k].state = "active" /\ Consistent(w) /\ w \in Memory
  BY DEF RelayMoves, LaneInv, Consistent
<1> DEFINE f == [[w.flow[k] EXCEPT !.age = 0] EXCEPT !.paused = p]
           y == [w EXCEPT !.flow[k] = f]
<1>3. Consistent(y) /\ Shrinks(w, y)
  BY <1>2, MovesKeeps
<1>4. [w EXCEPT !.flow[k].age = 0, !.flow[k].paused = p] = y
  BY <1>2 DEF Memory
<1> HIDE DEF y
<1> QED
  BY <1>1, <1>2, <1>3, <1>4, ShrinkStep

LEMMA EndsStep ==
    ASSUME LaneInv, NEW k \in Keys, RelayEnds(k)
    PROVE  LaneInv'
<1>1. Quiet /\ w.flow[k].state = "active" /\ Consistent(w) /\ FlowStep(FinishCleanClose(w, k))
  BY DEF RelayEnds, LaneInv
<1>2. Consistent(FinishCleanClose(w, k)) /\ Shrinks(w, FinishCleanClose(w, k))
  BY <1>1, FinishKeeps DEF Shrinks
<1> QED
  BY <1>1, <1>2, ShrinkStep

LEMMA FailsStep ==
    ASSUME LaneInv, NEW k \in Keys, RelayFails(k)
    PROVE  LaneInv'
<1>1. Quiet /\ FlowStep(TeardownFlow(w, k, TRUE)) /\ Consistent(w)
  BY DEF RelayFails, LaneInv
<1>2. InTable(w, k) /\ w.flow[k].state # "sticky_raw"
  BY DEF RelayFails, InTable
<1>3. Consistent(TeardownFlow(w, k, TRUE)) /\ Without(w, TeardownFlow(w, k, TRUE), k)
  BY <1>1, <1>2, TeardownKeeps
<1> QED
  BY <1>1, <1>3, ShrinkStep, WithoutShrinks

LEMMA TimerStep ==
    ASSUME LaneInv, NEW k \in Keys, LwipTimer(k)
    PROVE  LaneInv'
<1>0. Quiet /\ Consistent(w)
  BY DEF LwipTimer, LaneInv
<1>1. CASE w.pcb[k].state = "established"
  <2>1. FlowStep(OnLwipErr(w, k))
    BY <1>1 DEF LwipTimer
  <2>2. Consistent(OnLwipErr(w, k)) /\ Without(w, OnLwipErr(w, k), k)
    BY <1>0, <1>1, ErrKeeps
  <2> QED
    BY <1>0, <2>1, <2>2, ShrinkStep, WithoutShrinks
<1>2. CASE w.pcb[k].state # "established"
  <2>1. FlowStep([w EXCEPT !.pcb[k] = NoPcb])
    BY <1>2 DEF LwipTimer
  <2>2. Consistent([w EXCEPT !.pcb[k] = NoPcb]) /\ Shrinks(w, [w EXCEPT !.pcb[k] = NoPcb])
    BY <1>0, <1>2, GoneKeeps
  <2> QED
    BY <1>0, <2>1, <2>2, ShrinkStep
<1> QED
  BY <1>1, <1>2

LEMMA ConnectsStep ==
    ASSUME LaneInv, NEW k \in Keys, AppConnects(k)
    PROVE  LaneInv'
<1> DEFINE a == [isn |-> 1 - w.app[k].isn, phase |-> "new"]
           y == Put(w, k, w.flow[k], w.pcb[k], a)
<1>1. Quiet /\ Consistent(w) /\ w \in Memory /\ KeyOK(w.flow[k], w.pcb[k], w.app[k])
  BY DEF AppConnects, LaneInv, Consistent
<1>2. FlowStep([w EXCEPT !.app[k] = a])
  BY <1>1 DEF AppConnects, Memory
<1>3. w.flow[k] \in FlowRec /\ w.pcb[k] \in PcbRec /\ w.app[k] \in ConnRec
  BY <1>1, MemoryFields
<1>4. a \in ConnRec /\ a.phase = "new"
  <2>1. w.app[k].isn \in 0..1
    BY <1>3 DEF ConnRec
  <2>2. 1 - w.app[k].isn \in 0..1
    BY <2>1
  <2> QED
    BY <2>2 DEF ConnRec
<1> HIDE DEF a
<1>5. [w EXCEPT !.app[k] = a] = y
  BY <1>1, MemoryFields DEF Put, Memory
<1>6. KeyOK(w.flow[k], w.pcb[k], a)
  BY <1>1, <1>4 DEF KeyOK
<1>7. Consistent(y)
  BY <1>1, <1>3, <1>4, <1>6, PutConsistent
<1>8. Shrinks(w, y)
  BY <1>1, <1>3, <1>4, PutStates
<1> HIDE DEF y
<1> QED
  BY <1>1, <1>2, <1>5, <1>7, <1>8, ShrinkStep

LEMMA AppEndsStep ==
    ASSUME LaneInv, NEW k \in Keys, AppEnds(k)
    PROVE  LaneInv'
<1> DEFINE y == [w EXCEPT !.app[k].phase = "over"]
<1>1. Quiet /\ Consistent(w) /\ FlowStep(y)
  BY DEF AppEnds, LaneInv
<1>2. Consistent(y) /\ Shrinks(w, y)
  BY <1>1, OverKeeps
<1> QED
  BY <1>1, <1>2, ShrinkStep

-----------------------------------------------------------------------------
(* The sweep *)

(* f->next is another entry, or the end. *)
LEMMA NextFound ==
    ASSUME NEW x, Table(x), NEW k \in Keys, InTable(x, k), NextInChain(x, k) # None
    PROVE  NextInChain(x, k) \in Keys /\ InTable(x, NextInChain(x, k)) /\ NextInChain(x, k) # k
<1> DEFINE i == Place(x, k)
           s == x.chain
<1>1. i \in 1..Len(s) /\ s[i] = k /\ s \in Seq(Keys) /\ Lists(s, Entries(x))
  BY PlaceFound, MemoryFields DEF Table
<1>2. i < Len(s) /\ NextInChain(x, k) = s[i + 1]
  BY DEF NextInChain
<1> HIDE DEF i, s
<1>3. i + 1 \in 1..Len(s) /\ i + 1 # i
  BY <1>1, <1>2
<1>4. s[i + 1] \in Keys /\ s[i + 1] \in Entries(x)
  BY <1>1, <1>3 DEF Lists
<1>5. s[i + 1] # s[i]
  BY <1>1, <1>3 DEF Lists
<1> QED
  BY <1>1, <1>2, <1>4, <1>5 DEF Entries

LEMMA HeadFound ==
    ASSUME NEW x, Table(x), Head1(x) # None
    PROVE  Head1(x) \in Keys /\ InTable(x, Head1(x))
<1> DEFINE s == x.chain
<1>1. s \in Seq(Keys) /\ Lists(s, Entries(x))
  BY MemoryFields DEF Table
<1>2. s # <<>> /\ Head1(x) = Head(s)
  BY DEF Head1
<1> HIDE DEF s
<1>3. 1 \in 1..Len(s) /\ Head(s) = s[1]
  BY <1>1, <1>2
<1>4. s[1] \in Keys /\ s[1] \in Entries(x)
  BY <1>1, <1>3 DEF Lists
<1> QED
  BY <1>2, <1>3, <1>4 DEF Entries

(* The cursor moves to an entry. *)
LEMMA Visited ==
    ASSUME NEW x, Table(x), NEW k, k # None => k \in Keys /\ InTable(x, k), Visit(x, k)
    PROVE  Walks(x, cur', nxt')
<1>1. cur' = k /\ nxt' = IF k # None /\ InTable(x, k) THEN NextInChain(x, k) ELSE None
  BY DEF Visit
<1>2. CASE k = None
  BY <1>1, <1>2 DEF Walks
<1>3. CASE k # None
  <2>1. nxt' = NextInChain(x, k)
    BY <1>1, <1>3
  <2> QED
    BY <1>1, <1>3, <2>1, NextFound DEF Walks
<1> QED
  BY <1>2, <1>3

(* A step of the walk that leaves the memory x. *)
LEMMA WalkStep ==
    ASSUME LaneInv, NEW x, Consistent(x), Shrinks(w, x), w' = x, lane' = lane, due' \in BOOLEAN,
           NEW k, k # None => k \in Keys /\ InTable(x, k), Visit(x, k)
    PROVE  LaneInv'
<1>1. Table(x)
  BY ConsistentParts DEF Sound
<1>2. Walks(x, cur', nxt')
  BY <1>1, Visited
<1>3. Admitted(x, lane)
  BY AdmittedShrinks DEF LaneInv
<1>4. Consistent(w') /\ Admitted(w', lane') /\ Walks(w', cur', nxt')
  BY <1>2, <1>3
<1>5. lane' \in BOOLEAN
  BY DEF LaneInv
<1> QED
  BY <1>4, <1>5, InvNext

LEMMA TickStep ==
    ASSUME LaneInv, TickStart
    PROVE  LaneInv'
<1>1. Consistent(w) /\ Table(w)
  BY ConsistentParts DEF LaneInv, Sound
<1>2. Shrinks(w, w)
  BY DEF Shrinks
<1>3. w' = w /\ lane' = lane /\ due' \in BOOLEAN /\ Visit(w, Head1(w))
  BY DEF TickStart
<1> QED
  BY <1>1, <1>2, <1>3, HeadFound, WalkStep

(* What the sweep holds. *)
LEMMA Walking ==
    ASSUME LaneInv, cur # None
    PROVE  /\ cur \in Keys /\ InTable(w, cur) /\ Consistent(w) /\ Table(w) /\ Shrinks(w, w)
           /\ nxt # None => nxt \in Keys /\ InTable(w, nxt) /\ nxt # cur
BY ConsistentParts DEF LaneInv, Walks, Sound, Shrinks

LEMMA PassStep ==
    ASSUME LaneInv, SweepPass
    PROVE  LaneInv'
<1>1. cur # None /\ w' = w /\ lane' = lane /\ due' = due /\ Visit(w, nxt)
  BY DEF SweepPass
<1>2. due' \in BOOLEAN
  BY <1>1 DEF LaneInv
<1> QED
  BY <1>1, <1>2, Walking, WalkStep

(* An entry is evicted, and the walk goes on from the next one. *)
LEMMA EvictedStep ==
    ASSUME LaneInv, cur # None, NEW x, Consistent(x), Without(w, x, cur),
           w' = x, lane' = lane, due' = due, Visit(x, nxt)
    PROVE  LaneInv'
<1>1. nxt # None => nxt \in Keys /\ InTable(x, nxt)
  BY Walking DEF Without, InTable
<1>2. due' \in BOOLEAN
  BY DEF LaneInv
<1>3. Shrinks(w, x)
  BY Walking, WithoutShrinks
<1> QED
  BY <1>1, <1>2, <1>3, WalkStep

LEMMA EvictStep ==
    ASSUME LaneInv, SweepEvict
    PROVE  LaneInv'
<1> DEFINE f == w.flow[cur]
           x == IF Expired(f) THEN RemoveFlow(w, cur) ELSE TeardownFlow(w, cur, TRUE)
<1>1. cur # None /\ lane' = lane /\ due' = due /\ (Expired(f) \/ Idle(f)) /\ w' = x /\ Visit(x, nxt)
  BY DEF SweepEvict
<1>2. cur \in Keys /\ InTable(w, cur) /\ Consistent(w)
  BY <1>1, Walking
<1>3. Consistent(x) /\ Without(w, x, cur)
  <2>1. CASE Expired(f)
    <3> DEFINE y == RemoveFlow(w, cur)
    <3>1. w.flow[cur].state = "closing"
      BY <2>1 DEF Expired
    <3>2. Cleared(w, cur) = y
      BY <3>1 DEF Cleared
    <3>3. Consistent(y)
      BY <1>2, <3>1, <3>2, ClearKeeps
    <3>4. Without(w, y, cur)
      <4>1. w \in Memory
        BY <1>2 DEF Consistent
      <4>2. y.flow = [w.flow EXCEPT ![cur] = NoFlow]
        BY <1>2, <4>1, RemoveFields
      <4> QED
        BY <1>2, <4>1, <4>2, MemoryFields DEF Without
    <3> QED
      BY <2>1, <3>3, <3>4
  <2>2. CASE ~Expired(f)
    <3>1. w.flow[cur].state # "sticky_raw"
      BY <1>1, <2>2 DEF Idle
    <3> QED
      BY <1>2, <2>2, <3>1, TeardownKeeps
  <2> QED
    BY <2>1, <2>2
<1> HIDE DEF x, f
<1> QED
  BY <1>1, <1>3, EvictedStep

LEMMA RetryStep ==
    ASSUME LaneInv, SweepRetry
    PROVE  LaneInv'
<1> DEFINE f == [[w.flow[cur] EXCEPT !.age = 0] EXCEPT !.paused = FALSE]
           m == [w EXCEPT !.flow[cur] = f]
           moved == [w EXCEPT !.flow[cur].paused = FALSE, !.flow[cur].age = 0]
           e == FinishCleanClose(moved, cur)
           t == TeardownFlow(w, cur, TRUE)
<1>1. cur # None /\ lane' = lane /\ due' = due /\ w.flow[cur].paused
  BY DEF SweepRetry
<1>2. \/ w' = w /\ AfterRetry(TRUE, w)
      \/ w' = moved /\ AfterRetry(TRUE, moved)
      \/ w' = e /\ AfterRetry(FALSE, e)
      \/ w' = t /\ AfterRetry(FALSE, t)
  BY DEF SweepRetry
<1>3. /\ cur \in Keys /\ InTable(w, cur) /\ Consistent(w) /\ Shrinks(w, w)
      /\ nxt # None => nxt \in Keys /\ InTable(w, nxt) /\ nxt # cur
  BY <1>1, Walking
<1>d. due' \in BOOLEAN
  BY <1>1 DEF LaneInv
<1>4. w.flow[cur].state = "active"
  BY <1>1, <1>3, BoundFlow
<1>5. /\ f.state = "active" /\ w \in Memory /\ Consistent(m) /\ Shrinks(w, m)
      /\ \A j \in Keys : InTable(w, j) => InTable(m, j)
  BY <1>3, <1>4, MovesKeeps
<1>6. moved = m
  BY <1>3, <1>5 DEF Memory
<1>7. m.flow[cur] = f
  BY <1>3, <1>5 DEF Memory
<1> HIDE DEF f
<1>8. Consistent(moved) /\ Shrinks(w, moved) /\ moved.flow[cur].state = "active"
  BY <1>5, <1>6, <1>7
<1> HIDE DEF m, moved
<1>9. CASE w' = w /\ AfterRetry(TRUE, w)
  <2>1. Visit(w, nxt)
    BY <1>9 DEF AfterRetry
  <2> QED
    BY <1>1, <1>3, <1>9, <1>d, <2>1, WalkStep
<1>10. CASE w' = moved /\ AfterRetry(TRUE, moved)
  <2>1. Visit(moved, nxt)
    BY <1>10 DEF AfterRetry
  <2>2. nxt # None => nxt \in Keys /\ InTable(moved, nxt)
    BY <1>3, <1>5, <1>6
  <2> QED
    BY <1>1, <1>8, <1>10, <1>d, <2>1, <2>2, WalkStep
<1>11. CASE w' = e /\ AfterRetry(FALSE, e)
  <2>1. Consistent(e) /\ Shrinks(moved, e)
    BY <1>3, <1>8, FinishKeeps DEF Shrinks
  <2> HIDE DEF e
  <2>2. Visit(e, Head1(e))
    BY <1>11 DEF AfterRetry
  <2>3. Shrinks(w, e)
    BY <1>8, <2>1 DEF Shrinks
  <2>4. Head1(e) # None => Head1(e) \in Keys /\ InTable(e, Head1(e))
    BY <2>1, HeadFound, ConsistentParts DEF Sound
  <2> QED
    BY <1>1, <1>11, <1>d, <2>1, <2>2, <2>3, <2>4, WalkStep
<1>12. CASE w' = t /\ AfterRetry(FALSE, t)
  <2>1. Consistent(t) /\ Without(w, t, cur)
    BY <1>3, <1>4, TeardownKeeps
  <2> HIDE DEF t
  <2>2. Visit(t, Head1(t))
    BY <1>12 DEF AfterRetry
  <2>3. Shrinks(w, t)
    BY <1>3, <2>1, WithoutShrinks
  <2>4. Head1(t) # None => Head1(t) \in Keys /\ InTable(t, Head1(t))
    BY <2>1, HeadFound, ConsistentParts DEF Sound
  <2> QED
    BY <1>1, <1>12, <1>d, <2>1, <2>2, <2>3, <2>4, WalkStep
<1> QED
  BY <1>2, <1>9, <1>10, <1>11, <1>12

(* The entries grow a second older. *)
LEMMA SecondStep ==
    ASSUME LaneInv, Second
    PROVE  LaneInv'
<1> DEFINE Older(k) == IF InTable(w, k) /\ w.flow[k].state # "sticky_raw" /\ w.flow[k].age < Horizon
                       THEN [w.flow[k] EXCEPT !.age = @ + 1] ELSE w.flow[k]
           G == [k \in Keys |-> Older(k)]
           y == [w EXCEPT !.flow = G]
<1>1. Quiet /\ w' = y /\ lane' = lane /\ due' = TRUE /\ cur' = cur /\ nxt' = nxt
  BY DEF Second
<1>2. Table(w) /\ Binds(w.flow, w.stream) /\ w \in Memory /\ \A j \in Keys : OK(w, j)
  BY ConsistentParts DEF LaneInv, Sound, Table
<1>3. ASSUME NEW k \in Keys
      PROVE  /\ Older(k) \in FlowRec /\ Older(k).state = w.flow[k].state /\ Older(k).pcb = w.flow[k].pcb
             /\ Older(k).stream = w.flow[k].stream /\ Older(k).isn = w.flow[k].isn
             /\ Older(k).paused = w.flow[k].paused
  <2> DEFINE f == w.flow[k]
  <2>1. f \in FlowRec
    BY <1>2, MemoryFields
  <2>2. f.age \in 0..Horizon
    BY <2>1, FlowFields
  <2>3. CASE InTable(w, k) /\ f.state # "sticky_raw" /\ f.age < Horizon
    <3>1. Older(k) = [f EXCEPT !.age = f.age + 1]
      BY <2>3
    <3> HIDE DEF f
    <3>2. f.age + 1 \in 0..Horizon
      BY <2>2, <2>3, Constants
    <3>3. [f EXCEPT !.age = f.age + 1] \in FlowRec
      BY <2>1, <3>2, FlowUpdates
    <3>4. LET g == [f EXCEPT !.age = f.age + 1]
          IN  /\ g.state = f.state /\ g.pcb = f.pcb /\ g.stream = f.stream /\ g.isn = f.isn
              /\ g.paused = f.paused
      BY <2>1 DEF FlowRec
    <3> QED
      BY <3>1, <3>3, <3>4 DEF f
  <2>4. CASE ~(InTable(w, k) /\ f.state # "sticky_raw" /\ f.age < Horizon)
    BY <2>1, <2>4
  <2> QED
    BY <2>3, <2>4
<1>4. G \in [Keys -> FlowRec]
  BY <1>3
<1>5. \A k \in Keys : G[k] = Older(k)
  OBVIOUS
<1> HIDE DEF G, Older
<1>6. /\ y \in Memory /\ y.chain = w.chain /\ y.flow = G /\ y.n = w.n /\ y.pcb = w.pcb
      /\ y.stream = w.stream /\ y.app = w.app
  BY <1>2, <1>4 DEF Memory
<1> HIDE DEF y
<1>7. \A k \in Keys : y.flow[k].state = w.flow[k].state /\ y.flow[k].stream = w.flow[k].stream
  BY <1>3, <1>5, <1>6
<1>8. Table(y)
  BY <1>2, <1>6, <1>7, SameStates
<1>9. \A k \in Keys : OK(y, k)
  BY <1>2, <1>3, <1>5, <1>6 DEF OK, KeyOK
<1>10. Binds(y.flow, y.stream)
  BY <1>2, <1>6, <1>7, BindsKept
<1>11. Consistent(y)
  BY <1>8, <1>9, <1>10, ConsistentParts DEF Sound
<1>12. Shrinks(w, y)
  BY <1>7 DEF Shrinks, InTable
<1>13. Admitted(y, lane)
  BY <1>12, AdmittedShrinks DEF LaneInv
<1>14. Walks(y, cur, nxt)
  BY <1>1, NoWalk
<1>15. Consistent(w') /\ Admitted(w', lane') /\ Walks(w', cur', nxt') /\ lane' \in BOOLEAN /\ due' \in BOOLEAN
  BY <1>1, <1>11, <1>13, <1>14 DEF LaneInv
<1> QED
  BY <1>15, InvNext

-----------------------------------------------------------------------------
(* The lane's life *)

LEMMA EmptyTable ==
    ASSUME NEW x \in Memory, x.chain = <<>>, \A k \in Keys : x.flow[k] = NoFlow,
           \A p \in Populations : x.n[p] = 0
    PROVE  Table(x)
<1>1. Entries(x) = {} /\ \A p \in Populations : Members(x, p) = {}
  BY DEF Entries, Members, InTable, NoFlow
<1>2. Lists(x.chain, Entries(x))
  BY <1>1 DEF Lists
<1>3. Counts(x)
  BY <1>1, FS_EmptySet DEF Counts
<1>4. Capped(x)
  BY Constants DEF Capped, Populations
<1> QED
  BY <1>2, <1>3, <1>4 DEF Table

LEMMA EmptyConsistent ==
    ASSUME NEW x \in Memory, x.chain = <<>>, \A k \in Keys : x.flow[k] = NoFlow,
           \A p \in Populations : x.n[p] = 0, \A s \in Streams : x.stream[s] = "free",
           \A k \in Keys : x.pcb[k].state # "established",
           \A k \in Keys : x.app[k].phase \notin {"est", "raw", "mixed"}, NEW on
    PROVE  Consistent(x) /\ Admitted(x, on)
<1>1. Table(x)
  BY EmptyTable
<1>2. \A k \in Keys : OK(x, k)
  BY DEF OK, KeyOK, NoFlow
<1>3. Binds(x.flow, x.stream)
  BY DEF Binds, NoFlow
<1>4. Admitted(x, on)
  BY DEF Admitted, InTable, NoFlow
<1> QED
  BY <1>1, <1>2, <1>3, <1>4, ConsistentParts DEF Sound

LEMMA LaneInit ==
    ASSUME Init
    PROVE  LaneInv
<1>1. Empty \in Memory
  <2>1. <<>> \in Seq(Keys) /\ [k \in Keys |-> NoFlow] \in [Keys -> FlowRec]
        /\ [p \in Populations |-> 0] \in [Populations -> Int] /\ [k \in Keys |-> NoPcb] \in [Keys -> PcbRec]
        /\ [s \in Streams |-> "free"] \in [Streams -> {"free", "open", "ended"}]
        /\ [k \in Keys |-> NoConn] \in [Keys -> ConnRec]
    BY Blanks
  <2> QED
    BY <2>1 DEF Empty, Memory
<1>2. /\ Empty.chain = <<>> /\ \A k \in Keys : Empty.flow[k] = NoFlow
      /\ \A p \in Populations : Empty.n[p] = 0
      /\ \A s \in Streams : Empty.stream[s] = "free"
      /\ \A k \in Keys : Empty.pcb[k].state # "established"
      /\ \A k \in Keys : Empty.app[k].phase \notin {"est", "raw", "mixed"}
  BY DEF Empty, NoPcb, NoConn
<1>3. Consistent(Empty) /\ Admitted(Empty, FALSE)
  BY <1>1, <1>2, EmptyConsistent
<1>4. w = Empty /\ lane = FALSE /\ due = FALSE /\ cur = None /\ nxt = None
  BY DEF Init
<1>5. Walks(w, cur, nxt)
  BY <1>4 DEF Walks
<1> QED
  BY <1>3, <1>4, <1>5 DEF LaneInv

LEMMA NewStep ==
    ASSUME LaneInv, NEW ok \in BOOLEAN, LaneNew(ok)
    PROVE  LaneInv'
<1>1. Quiet /\ ~lane /\ lane' = ok /\ due' = FALSE /\ w' = w /\ cur' = cur /\ nxt' = nxt
  BY DEF LaneNew
<1>2. Admitted(w, ok)
  BY <1>1 DEF LaneInv, Admitted
<1>3. Walks(w, cur, nxt) /\ Consistent(w)
  BY DEF LaneInv
<1>4. Consistent(w') /\ Admitted(w', lane') /\ Walks(w', cur', nxt') /\ lane' \in BOOLEAN /\ due' \in BOOLEAN
  BY <1>1, <1>2, <1>3
<1> QED
  BY <1>4, InvNext

(* The connection ends: no entry, no accepted pcb, no request is left. *)
LEMMA ConnCloseStep ==
    ASSUME LaneInv, ConnClose
    PROVE  LaneInv'
<1> DEFINE P == [k \in Keys |-> IF w.flow[k].pcb THEN NoPcb ELSE w.pcb[k]]
           A == [k \in Keys |-> IF w.flow[k].pcb THEN [w.app[k] EXCEPT !.phase = "over"] ELSE w.app[k]]
           P2 == [k \in Keys |-> [P[k] EXCEPT !.listener = FALSE]]
           A2 == [k \in Keys |-> IF A[k].phase \in {"raw", "tcp"} THEN [A[k] EXCEPT !.phase = "new"] ELSE A[k]]
           z == [chain |-> <<>>, flow |-> [k \in Keys |-> NoFlow], n |-> [p \in Populations |-> 0],
                 pcb |-> P2, stream |-> [s \in Streams |-> "free"], app |-> A2]
<1>1. Quiet /\ lane' = FALSE /\ due' = FALSE /\ cur' = cur /\ nxt' = nxt
  BY SMTT(90) DEF ConnClose
<1>2. w' = z
  BY DEF ConnClose, CtxFree, LaneFree, Empty
<1>3. w \in Memory /\ \A k \in Keys : KeyOK(w.flow[k], w.pcb[k], w.app[k])
  BY DEF LaneInv, Consistent
<1>4. ASSUME NEW k \in Keys
      PROVE  P2[k] \in PcbRec /\ P2[k].state # "established"
  <2>1. w.flow[k].pcb \in BOOLEAN /\ w.pcb[k] \in PcbRec
    BY <1>3, MemoryFields, FlowFields
  <2>2. P[k] \in PcbRec /\ P[k].state # "established"
    BY <1>3, <2>1, Blanks DEF KeyOK, NoPcb
  <2>3. P2[k] = [P[k] EXCEPT !.listener = FALSE]
    OBVIOUS
  <2> HIDE DEF P, P2
  <2> QED
    BY <2>2, <2>3 DEF PcbRec
<1>5. ASSUME NEW k \in Keys
      PROVE  A2[k] \in ConnRec /\ A2[k].phase \notin {"est", "raw", "mixed"}
  <2>1. w.flow[k].pcb \in BOOLEAN /\ w.app[k] \in ConnRec
    BY <1>3, MemoryFields, FlowFields
  <2>2. A[k] \in ConnRec /\ A[k].phase \notin {"est", "mixed"}
    <3>1. CASE w.flow[k].pcb
      <4>1. A[k] = [w.app[k] EXCEPT !.phase = "over"]
        BY <3>1
      <4> QED
        BY <2>1, <4>1 DEF ConnRec
    <3>2. CASE ~w.flow[k].pcb
      <4>1. A[k] = w.app[k]
        BY <3>2
      <4> QED
        BY <1>3, <2>1, <3>2, <4>1 DEF KeyOK
    <3> QED
      BY <3>1, <3>2
  <2>3. A2[k] = IF A[k].phase \in {"raw", "tcp"} THEN [A[k] EXCEPT !.phase = "new"] ELSE A[k]
    OBVIOUS
  <2> HIDE DEF A, A2
  <2>4. CASE A[k].phase \in {"raw", "tcp"}
    BY <2>2, <2>3, <2>4 DEF ConnRec
  <2>5. CASE A[k].phase \notin {"raw", "tcp"}
    BY <2>2, <2>3, <2>5
  <2> QED
    BY <2>4, <2>5
<1>6. P2 \in [Keys -> PcbRec] /\ A2 \in [Keys -> ConnRec]
  BY <1>4, <1>5
<1> HIDE DEF P2, A2
<1>7. z \in Memory
  <2>1. <<>> \in Seq(Keys) /\ [k \in Keys |-> NoFlow] \in [Keys -> FlowRec]
        /\ [p \in Populations |-> 0] \in [Populations -> Int]
        /\ [s \in Streams |-> "free"] \in [Streams -> {"free", "open", "ended"}]
    BY Blanks
  <2> QED
    BY <1>6, <2>1 DEF Memory
<1>8. /\ z.chain = <<>> /\ \A k \in Keys : z.flow[k] = NoFlow
      /\ \A p \in Populations : z.n[p] = 0
      /\ \A s \in Streams : z.stream[s] = "free"
      /\ z.pcb = P2 /\ z.app = A2
  OBVIOUS
<1> HIDE DEF z
<1>9. Consistent(z) /\ Admitted(z, FALSE)
  BY <1>4, <1>5, <1>7, <1>8, EmptyConsistent
<1>10. Walks(z, cur, nxt)
  BY <1>1, NoWalk
<1>11. Consistent(w') /\ Admitted(w', lane') /\ Walks(w', cur', nxt') /\ lane' \in BOOLEAN /\ due' \in BOOLEAN
  BY <1>1, <1>2, <1>9, <1>10
<1> QED
  BY <1>11, InvNext

-----------------------------------------------------------------------------
(* The invariant is inductive *)

LEMMA LaneStutters ==
    ASSUME LaneInv, UNCHANGED vars
    PROVE  LaneInv'
<1>1. w' = w /\ lane' = lane /\ due' = due /\ cur' = cur /\ nxt' = nxt
  BY DEF vars
<1> QED
  BY <1>1, InvNext DEF LaneInv

LEMMA LaneNext ==
    ASSUME LaneInv, Next
    PROVE  LaneInv'
<1>1. ASSUME NEW k \in Keys, NEW seg \in {"syn", "ack", "rst"}, NEW how \in {"ok", "create", "headers"},
             NEW multi \in BOOLEAN, TunPacket(k, seg, how, multi)
      PROVE  LaneInv'
  BY <1>1, TunPacketStep
<1>2. ASSUME NEW k \in Keys, RelayMoves(k) PROVE LaneInv'
  BY <1>2, MovesStep
<1>3. ASSUME NEW k \in Keys, RelayEnds(k) PROVE LaneInv'
  BY <1>3, EndsStep
<1>4. ASSUME NEW k \in Keys, RelayFails(k) PROVE LaneInv'
  BY <1>4, FailsStep
<1>5. ASSUME NEW k \in Keys, LwipTimer(k) PROVE LaneInv'
  BY <1>5, TimerStep
<1>6. ASSUME NEW k \in Keys, AppConnects(k) PROVE LaneInv'
  BY <1>6, ConnectsStep
<1>7. ASSUME NEW k \in Keys, AppEnds(k) PROVE LaneInv'
  BY <1>7, AppEndsStep
<1>8. ASSUME NEW s \in Streams, OnStreamEstablished(s) PROVE LaneInv'
  BY <1>8, EstablishedStep
<1>9. ASSUME NEW s \in Streams, OnStreamRejected(s) PROVE LaneInv'
  BY <1>9, RejectedStep
<1>10. ASSUME NEW s \in Streams, ClosingNotify(s) PROVE LaneInv'
  BY <1>10, ClosingStep
<1>11. ASSUME NEW s \in Streams, CloseNotify(s) PROVE LaneInv'
  BY <1>11, CloseStep
<1>12. CASE Second
  BY <1>12, SecondStep
<1>13. CASE TickStart
  BY <1>13, TickStep
<1>14. CASE SweepEvict
  BY <1>14, EvictStep
<1>15. CASE SweepPass
  BY <1>15, PassStep
<1>16. CASE SweepRetry
  BY <1>16, RetryStep
<1>17. ASSUME NEW ok \in BOOLEAN, LaneNew(ok) PROVE LaneInv'
  BY <1>17, NewStep
<1>18. CASE ConnClose
  BY <1>18, ConnCloseStep
<1> QED
  BY <1>1, <1>2, <1>3, <1>4, <1>5, <1>6, <1>7, <1>8, <1>9, <1>10, <1>11, <1>12, <1>13, <1>14, <1>15,
     <1>16, <1>17, <1>18, Zenon DEF Next

(* The lane's inductive invariant holds in every behaviour: the chain, the *)
(* counters, the pcbs, the requests, the markers of RAW connections and    *)
(* the sweep's cursor agree after every handler of tcp_lane.c.             *)
THEOREM LaneInvariant == Spec => []LaneInv
<1>1. Init => LaneInv
  BY LaneInit
<1>2. LaneInv /\ [Next]_vars => LaneInv'
  BY LaneNext, LaneStutters
<1> QED
  BY <1>1, <1>2, PTL DEF Spec

-----------------------------------------------------------------------------
(* What the invariant gives *)

LEMMA TypeHolds ==
    ASSUME LaneInv
    PROVE  TypeOK
<1>1. Table(w) /\ w \in Memory
  BY ConsistentParts DEF LaneInv, Sound, Table
<1>2. w.chain \in Seq(Keys) /\ w.flow \in [Keys -> FlowRec] /\ w.pcb \in [Keys -> PcbRec]
      /\ w.stream \in [Streams -> {"free", "open", "ended"}]
  BY <1>1, MemoryFields
<1>3. Lists(w.chain, Entries(w)) /\ DOMAIN w.chain = 1..Len(w.chain)
  BY <1>1, <1>2 DEF Table
<1>4. IsInjective(w.chain)
  BY <1>3 DEF Lists, IsInjective
<1>5. \A k \in Keys : InTable(w, k) <=> k \in ToSet(w.chain)
  <2>1. \A k \in Keys : InTable(w, k) <=> \E i \in 1..Len(w.chain) : w.chain[i] = k
    BY <1>3 DEF Lists, Entries
  <2> QED
    BY <1>3, <2>1 DEF ToSet
<1>6. \A k \in Keys : w.flow[k] \in FlowRec /\ w.pcb[k] \in PcbRec
  BY <1>2
<1>7. {lane, due} \subseteq BOOLEAN /\ {cur, nxt} \subseteq Keys \cup {None}
  BY DEF LaneInv, Walks
<1> QED
  BY <1>2, <1>4, <1>5, <1>6, <1>7 DEF TypeOK, FlowRec, PcbRec

LEMMA CountersHold ==
    ASSUME LaneInv
    PROVE  CountersExact
BY DEF LaneInv, Consistent, Counts, Members, Capped, CountersExact

LEMMA PcbsHold ==
    ASSUME LaneInv
    PROVE  PcbOwned
<1>1. \A k \in Keys : KeyOK(w.flow[k], w.pcb[k], w.app[k])
  BY DEF LaneInv, Consistent
<1> QED
  BY <1>1 DEF PcbOwned, KeyOK

LEMMA StreamsHold ==
    ASSUME LaneInv
    PROVE  StreamOwned
<1>1. Binds(w.flow, w.stream)
  BY DEF LaneInv, Consistent
<1>2. SUFFICES ASSUME NEW s \in Streams
               PROVE  (w.stream[s] = "open" <=> Owners(w, s) # {}) /\ Cardinality(Owners(w, s)) <= 1
  BY DEF StreamOwned
<1>3. s # 0
  BY Constants
<1>4. w.stream[s] = "open" <=> Owners(w, s) # {}
  BY <1>1, <1>3 DEF Binds, Owners
<1>5. \A j, k \in Owners(w, s) : j = k
  BY <1>1, <1>3 DEF Binds, Owners
<1>6. CASE Owners(w, s) = {}
  BY <1>4, <1>6, FS_EmptySet
<1>7. CASE Owners(w, s) # {}
  <2>1. PICK k : k \in Owners(w, s)
    BY <1>7
  <2>2. Owners(w, s) = {k}
    BY <1>5, <2>1
  <2>3. Cardinality({k}) = 1
    BY FS_Singleton
  <2> QED
    BY <1>4, <2>2, <2>3
<1> QED
  BY <1>6, <1>7

LEMMA CursorHolds ==
    ASSUME LaneInv
    PROVE  CursorLive
BY DEF LaneInv, Walks, CursorLive

(* The table of TCP-lane flows is exact for every number of connections,   *)
(* caps, timeouts and streams: the chain lists each entry once, the three  *)
(* counters of tcp_lane.c count the entries and keep their caps, lwIP has  *)
(* an accepted pcb exactly while a flow owns it, a request is open exactly *)
(* while one flow is bound to it, and the sweep's f and next are entries.  *)
THEOREM LaneFlowsOwned == Spec => []FlowsOwned
<1>1. LaneInv => FlowsOwned
  BY TypeHolds, CountersHold, PcbsHold, StreamsHold, CursorHolds DEF FlowsOwned
<1> QED
  BY <1>1, LaneInvariant, PTL

(* No packet of a live inner connection leaves the lane its SYN was        *)
(* committed to: tun_decide_lane finds the RAW marker of the same ISN, or  *)
(* the accepted flow, until the connection or its lane ends.               *)
THEOREM LaneIsSticky == Spec => []LaneSticky
<1>1. LaneInv => LaneSticky
  BY DEF LaneInv, Consistent, KeyOK, LaneSticky
<1> QED
  BY <1>1, LaneInvariant, PTL
=============================================================================
