------------------------- MODULE MqvpnServerProofs -------------------------
(***************************************************************************)
(* Proofs about MqvpnServer, for every value of its constants.             *)
(***************************************************************************)
EXTENDS MqvpnServer, FiniteSetTheorems, WellFoundedInduction, TLAPS

-----------------------------------------------------------------------------
(* The pool and the lease table: what their searches find *)

(* A set of naturals that is not empty has a least element. *)
LEMMA LeastExists ==
    ASSUME NEW S, S \subseteq Nat, S # {}
    PROVE  \E i \in S : \A j \in S : i <= j
  <1> DEFINE R == OpToRel(<, Nat)
  <1>1. PICK i \in S : \A j \in S : ~ (<<j, i>> \in R)
    <2>1. IsWellFoundedOn(R, Nat)
      BY NatLessThanWellFounded
    <2> HIDE DEF R
    <2> QED
      BY <2>1, WFMin
  <1>2. \A j \in S : <<j, i>> \in R <=> j < i
    BY DEF OpToRel
  <1> HIDE DEF R
  <1>3. \A j \in S : ~ (j < i)
    BY <1>1, <1>2
  <1>4. \A j \in S : i <= j
    BY <1>3
  <1> QED
    BY <1>4

(* mqvpn_addr_pool_alloc finds a free offset, or none is free. *)
LEMMA AllocOffsetFree ==
    ASSUME NEW p \in Pool
    PROVE  AllocOffset(p) \in Free(p) \cup {0}
  <1>1. CASE Free(p) = {}
    BY <1>1 DEF AllocOffset
  <1>2. CASE Free(p) # {}
    <2> DEFINE dist(o) == (o - p.next) % PoolSize
               D == {dist(o) : o \in Free(p)}
    <2>1. \A o \in Free(p) : dist(o) \in Nat
      BY PoolSizeAssumption DEF Free, Pool
    <2>2. D \subseteq Nat /\ D # {}
      BY <1>2, <2>1
    <2> HIDE DEF D
    <2>3. PICK d \in D : \A e \in D : d <= e
      BY <2>2, LeastExists
    <2>4. PICK o \in Free(p) : \A q \in Free(p) : dist(o) <= dist(q)
      BY <2>3 DEF D
    <2>5. AllocOffset(p) = CHOOSE x \in Free(p) : \A q \in Free(p) : dist(x) <= dist(q)
      BY <1>2 DEF AllocOffset
    <2> HIDE DEF dist
    <2> QED
      BY <2>4, <2>5
  <1> QED
    BY <1>1, <1>2

LEMMA FreeType ==
    ASSUME NEW p \in Pool
    PROVE  /\ Free(p) \subseteq Offsets
           /\ 0 \notin Free(p) /\ 1 \notin Free(p)
           /\ Free(p) \cap p.used = {}
  BY PoolSizeAssumption DEF Free, Offsets

(* Every operation on the pool leaves a pool, with the flags it should. *)
LEMMA PoolOperations ==
    ASSUME NEW p \in Pool
    PROVE  /\ PoolInit \in Pool
           /\ Alloc(p) \in Pool
           /\ AllocOffset(p) # 0 => Alloc(p).used = p.used \cup {AllocOffset(p)}
           /\ AllocOffset(p) = 0 => Alloc(p) = p
           /\ \A o \in Offsets : /\ AllocAt(p, o) \in Pool
                                 /\ AllocAt(p, o).used = p.used \cup {o}
                                 /\ Release(p, o) \in Pool
                                 /\ Release(p, o).used = p.used \ {o}
  <1>1. PoolInit \in Pool
    BY PoolSizeAssumption DEF PoolInit, Pool
  <1>2. AllocOffset(p) # 0 => AllocOffset(p) \in Offsets
    BY AllocOffsetFree, FreeType
  <1>3. Alloc(p) \in Pool
    BY <1>2, PoolSizeAssumption DEF Alloc, Pool, Offsets
  <1>4. AllocOffset(p) # 0 => Alloc(p).used = p.used \cup {AllocOffset(p)}
    BY DEF Alloc
  <1>5. AllocOffset(p) = 0 => Alloc(p) = p
    BY DEF Alloc
  <1>6. ASSUME NEW o \in Offsets
        PROVE  /\ AllocAt(p, o) \in Pool
               /\ AllocAt(p, o).used = p.used \cup {o}
               /\ Release(p, o) \in Pool
               /\ Release(p, o).used = p.used \ {o}
    BY DEF AllocAt, Release, Pool
  <1> QED
    BY <1>1, <1>3, <1>4, <1>5, <1>6

LEMMA LeaseSlotsNat == LeaseSlots \subseteq Nat
  <1>1. MaxUsers \in Nat
    BY ServerAssumption
  <1> QED
    BY <1>1 DEF LeaseSlots

LEMMA LeasedOffsetType ==
    ASSUME leases \in [LeaseSlots -> Lease], NEW u
    PROVE  LeasedOffset(u) \in 0 .. PoolSize
  <1>1. CASE LeasesOf(u) = {}
    BY <1>1, PoolSizeAssumption DEF LeasedOffset
  <1>2. CASE LeasesOf(u) # {}
    <2>0. LeasesOf(u) \subseteq LeaseSlots
      BY DEF LeasesOf
    <2>1. LeasesOf(u) \subseteq Nat
      BY <2>0, LeaseSlotsNat
    <2>2. PICK i \in LeasesOf(u) : \A j \in LeasesOf(u) : i <= j
      BY <1>2, <2>1, LeastExists
    <2> DEFINE k == CHOOSE x \in LeasesOf(u) : \A j \in LeasesOf(u) : x <= j
    <2>3. k \in LeasesOf(u)
      BY <2>2
    <2>4. LeasedOffset(u) = leases[k].offset
      BY <1>2 DEF LeasedOffset
    <2> HIDE DEF k
    <2> QED
      BY <2>0, <2>3, <2>4 DEF Lease
  <1> QED
    BY <1>1, <1>2

(* Step 2 of svr_masque_send_response finds a pinned address, takes a free *)
(* one from the pool, or finds none.                                       *)
LEMMA ChoiceCorrect ==
    ASSUME TypeOK, NEW u
    PROVE  /\ ChooseIp(u) \in Offsets \cup {0}
           /\ PoolAfterChoice(u) \in Pool
           /\ u # "" /\ PinsOf(u) # {} =>
                 /\ PoolAfterChoice(u) = pool
                 /\ \E q \in pinned_ips : q.username = u /\ ChooseIp(u) = q.offset
           /\ ~(u # "" /\ PinsOf(u) # {}) =>
                 /\ ChooseIp(u) # 0 => /\ ChooseIp(u) \in Free(pool)
                                       /\ PoolAfterChoice(u).used = pool.used \cup {ChooseIp(u)}
                 /\ ChooseIp(u) = 0 => PoolAfterChoice(u) = pool
  <1> DEFINE l == LeasedOffset(u)
  <1>0. pool \in Pool /\ pinned_ips \subseteq Pin /\ l \in 0 .. PoolSize
    BY LeasedOffsetType DEF TypeOK
  <1>1. CASE u # "" /\ PinsOf(u) # {}
    <2>1. PICK q \in PinsOf(u) : q = CHOOSE p \in PinsOf(u) : TRUE
      BY <1>1
    <2>2. q \in pinned_ips /\ q.username = u /\ q.offset \in Offsets
      BY <1>0 DEF PinsOf, Pin
    <2>3. ChooseIp(u) = q.offset /\ PoolAfterChoice(u) = pool
      BY <1>1, <2>1 DEF ChooseIp, PoolAfterChoice
    <2> QED
      BY <1>0, <1>1, <2>2, <2>3
  <1>2. CASE ~(u # "" /\ PinsOf(u) # {}) /\ u # "" /\ CanAllocAt(pool, l)
    <2>1. l \in Free(pool) /\ l \in Offsets /\ l # 0
      BY <1>0, <1>2, FreeType DEF CanAllocAt
    <2>2. ChooseIp(u) = l /\ PoolAfterChoice(u) = AllocAt(pool, l)
      BY <1>2 DEF ChooseIp, PoolAfterChoice
    <2> HIDE DEF l
    <2>3. AllocAt(pool, l) \in Pool /\ AllocAt(pool, l).used = pool.used \cup {l}
      BY <1>0, <2>1, PoolOperations
    <2>4. PinsOf(u) = {}
      BY <1>2
    <2> QED
      BY <2>1, <2>2, <2>3, <2>4
  <1>3. CASE ~(u # "" /\ PinsOf(u) # {}) /\ ~(u # "" /\ CanAllocAt(pool, l))
    <2>1. ChooseIp(u) = AllocOffset(pool) /\ PoolAfterChoice(u) = Alloc(pool)
      BY <1>3 DEF ChooseIp, PoolAfterChoice
    <2>2. AllocOffset(pool) \in Free(pool) \cup {0} /\ Free(pool) \subseteq Offsets
      BY <1>0, AllocOffsetFree, FreeType
    <2> QED
      BY <1>0, <1>3, <2>1, <2>2, PoolOperations
  <1> QED
    BY <1>1, <1>2, <1>3

(* cb_h3_conn_close writes one entry of the lease table, or none. *)
LEMMA SaveLeaseCases ==
    ASSUME leases \in [LeaseSlots -> Lease], NEW u, NEW o
    PROVE  \/ SaveLease(u, o) = leases
           \/ \E i \in LeaseEntry(u) :
                 /\ \A j \in LeaseEntry(u) : i <= j
                 /\ SaveLease(u, o) = [leases EXCEPT ![i] = [username |-> u, offset |-> o]]
  <1>1. CASE u = "" \/ LeaseEntry(u) = {}
    BY <1>1 DEF SaveLease
  <1>2. CASE ~(u = "" \/ LeaseEntry(u) = {})
    <2>0. LeaseEntry(u) \subseteq LeaseSlots
      BY DEF LeaseEntry
    <2>1. LeaseEntry(u) \subseteq Nat
      BY <2>0, LeaseSlotsNat
    <2>2. \E i \in LeaseEntry(u) : \A j \in LeaseEntry(u) : i <= j
      BY <1>2, <2>1, LeastExists
    <2> DEFINE k == CHOOSE i \in LeaseEntry(u) : \A j \in LeaseEntry(u) : i <= j
    <2>3. k \in LeaseEntry(u) /\ \A j \in LeaseEntry(u) : k <= j
      BY <2>2
    <2>4. SaveLease(u, o) = [leases EXCEPT ![k] = [username |-> u, offset |-> o]]
      BY <1>2 DEF SaveLease
    <2> HIDE DEF k
    <2> QED
      BY <2>3, <2>4
  <1> QED
    BY <1>1, <1>2

-----------------------------------------------------------------------------
(* What holds for every configuration *)

(* The empty entries of the lease table are the last ones. *)
LeasesPacked ==
    \A i, j \in LeaseSlots : leases[i].offset = 0 /\ i < j => leases[j].offset = 0

(* A connection gets its address with its request. *)
AddressNeedsRequest == \A c \in Conns : conns[c].requested = 0 => conns[c].assigned_ip = 0

(* n_sessions may count too much but never too little, so it does not      *)
(* become negative.                                                        *)
CountCovers == n_sessions >= Cardinality(Table)

LeaseInv == LeasesPacked /\ LeaseUnique

SafeInv == TypeOK /\ NoDanglingSession /\ AddressNeedsRequest /\ CountCovers /\ LeaseInv

(* The session table is finite; what one registration and one removal do   *)
(* to its size.                                                            *)
LEMMA TableSize ==
    ASSUME TypeOK
    PROVE  /\ IsFiniteSet(Table) /\ Cardinality(Table) \in Nat
           /\ \A o \in Offsets : o \in Table => Cardinality(Table) > 0
  <1>1. IsFiniteSet(Offsets)
    BY FS_Interval, PoolSizeAssumption DEF Offsets
  <1>2. Table \subseteq Offsets
    BY DEF Table
  <1>3. IsFiniteSet(Table) /\ Cardinality(Table) \in Nat
    BY <1>1, <1>2, FS_Subset, FS_CardinalityType
  <1>4. Cardinality(Table) = 0 => Table = {}
    BY <1>3, FS_EmptySet
  <1> QED
    BY <1>3, <1>4

LEMMA NoConnAndZero == NoConn \notin Conns /\ 0 \notin Offsets
  <1>1. NoConn \notin Conns
    BY ServerAssumption
  <1>2. 0 \notin Offsets
    BY PoolSizeAssumption DEF Offsets
  <1> QED
    BY <1>1, <1>2

(* The records a connection can be set to. *)
LEMMA NewConnType ==
    ASSUME NEW open \in {0, 1}
    PROVE  /\ NewConn(open) \in Conn
           /\ NewConn(open).open = open /\ NewConn(open).requested = 0
           /\ NewConn(open).assigned_ip = 0
  <1>1. "" \in Usernames /\ 0 \in 0 .. PoolSize
    BY PoolSizeAssumption DEF Usernames
  <1> QED
    BY <1>1 DEF NewConn, Conn

LEMMA RequestedConn ==
    ASSUME NEW r \in Conn, NEW u \in Usernames
    PROVE  LET cn == [r EXCEPT !.requested = 1, !.username = u]
           IN  /\ cn \in Conn /\ cn.requested = 1
               /\ cn.open = r.open /\ cn.assigned_ip = r.assigned_ip
  BY DEF Conn

LEMMA GrantedConn ==
    ASSUME NEW r \in Conn, NEW ip \in Offsets
    PROVE  LET cn == [r EXCEPT !.assigned_ip = ip, !.tunnel_established = 1]
           IN  /\ cn \in Conn /\ cn.assigned_ip = ip
               /\ cn.open = r.open /\ cn.requested = r.requested
  <1>1. ip \in 0 .. PoolSize
    BY PoolSizeAssumption DEF Offsets
  <1> QED
    BY <1>1 DEF Conn

LEMMA ConnSet ==
    ASSUME conns \in [Conns -> Conn], NEW c \in Conns, NEW r \in Conn,
           conns' = [conns EXCEPT ![c] = r]
    PROVE  /\ conns' \in [Conns -> Conn]
           /\ conns'[c] = r /\ \A d \in Conns \ {c} : conns'[d] = conns[d]
  OBVIOUS

LEMMA InitSafe == Init => SafeInv
  <1> SUFFICES ASSUME Init PROVE SafeInv
    OBVIOUS
  <1>1. TypeOK
    <2>1. conns \in [Conns -> Conn]
      BY NewConnType DEF Init
    <2>2. leases \in [LeaseSlots -> Lease]
      <3>1. "" \in Usernames /\ 0 \in 0 .. PoolSize
        BY PoolSizeAssumption DEF Usernames
      <3>2. [username |-> "", offset |-> 0] \in Lease
        BY <3>1 DEF Lease
      <3> QED
        BY <3>2 DEF Init
    <2>3. pool \in Pool
      <3>1. 2 \in 1 .. PoolSize + 1
        BY PoolSizeAssumption
      <3>2. [used |-> {}, next |-> 2] \in Pool
        BY <3>1 DEF Pool
      <3> QED
        BY <3>2 DEF Init, PoolInit
    <2> QED
      BY <2>1, <2>2, <2>3 DEF Init, TypeOK
  <1>2. Table = {}
    BY DEF Init, Table
  <1>3. CountCovers
    <2>1. Cardinality(Table) = 0
      BY <1>2, FS_EmptySet
    <2>2. n_sessions = 0
      BY DEF Init
    <2> QED
      BY <2>1, <2>2 DEF CountCovers
  <1>4. NoDanglingSession
    BY DEF Init, NoDanglingSession
  <1>5. AddressNeedsRequest
    BY NewConnType DEF Init, AddressNeedsRequest
  <1>6. LeaseInv
    BY DEF Init, LeaseInv, LeasesPacked, LeaseUnique
  <1> QED
    BY <1>1, <1>3, <1>4, <1>5, <1>6 DEF SafeInv

(* A step that leaves the table, the leases and the connections' addresses *)
(* alone.                                                                  *)
LEMMA SessionsKept ==
    ASSUME SafeInv, TypeOK', UNCHANGED <<sessions, n_sessions, leases>>,
           \A c \in Conns : /\ conns[c].open = 1 => conns'[c].open = 1
                            /\ conns[c].open = 1 => conns'[c].assigned_ip = conns[c].assigned_ip
                            /\ conns'[c].requested = 0 => conns'[c].assigned_ip = 0
    PROVE  SafeInv'
  <1>1. Table' = Table /\ CountCovers'
    BY DEF SafeInv, CountCovers, Table
  <1>2. NoDanglingSession'
    BY DEF SafeInv, NoDanglingSession, TypeOK
  <1>3. AddressNeedsRequest'
    BY DEF AddressNeedsRequest
  <1>4. LeaseInv'
    BY DEF SafeInv, LeaseInv, LeasesPacked, LeaseUnique
  <1> QED
    BY <1>1, <1>2, <1>3, <1>4 DEF SafeInv

LEMMA H3ConnCreateSafe ==
    ASSUME SafeInv, NEW c \in Conns, H3ConnCreate(c)
    PROVE  SafeInv'
  <1>0. /\ conns' \in [Conns -> Conn] /\ conns'[c] = NewConn(1)
        /\ \A d \in Conns \ {c} : conns'[d] = conns[d]
    BY NewConnType, ConnSet DEF H3ConnCreate, SafeInv, TypeOK
  <1>1. conns' \in [Conns -> Conn]
    BY <1>0
  <1>2. TypeOK'
    BY <1>1 DEF H3ConnCreate, SafeInv, TypeOK, addressVars
  <1>3. \A d \in Conns : /\ conns[d].open = 1 => conns'[d].open = 1
                         /\ conns[d].open = 1 => conns'[d].assigned_ip = conns[d].assigned_ip
                         /\ conns'[d].requested = 0 => conns'[d].assigned_ip = 0
    BY <1>0, NewConnType DEF H3ConnCreate, SafeInv, AddressNeedsRequest
  <1> QED
    BY <1>2, <1>3, SessionsKept DEF H3ConnCreate, addressVars

LEMMA RequestCloseSafe ==
    ASSUME SafeInv, NEW c \in Conns, RequestClose(c)
    PROVE  SafeInv'
  <1>1. conns' \in [Conns -> Conn]
    BY DEF RequestClose, SafeInv, TypeOK, Conn
  <1>2. TypeOK'
    BY <1>1 DEF RequestClose, SafeInv, TypeOK, addressVars
  <1>3. \A d \in Conns : /\ conns[d].open = 1 => conns'[d].open = 1
                         /\ conns[d].open = 1 => conns'[d].assigned_ip = conns[d].assigned_ip
                         /\ conns'[d].requested = 0 => conns'[d].assigned_ip = 0
    BY DEF RequestClose, SafeInv, TypeOK, Conn, AddressNeedsRequest
  <1> QED
    BY <1>2, <1>3, SessionsKept DEF RequestClose, addressVars

LEMMA IdentityType ==
    ASSUME NEW global, NEW n \in Names \cup {""}
    PROVE  Identity(global, n) \in Usernames
  BY DEF Identity, Usernames

(* A request that is turned down marks the connection and nothing else. *)
LEMMA RefusedSafe ==
    ASSUME SafeInv, NEW c \in Conns, NEW r \in Conn,
           r.open = conns[c].open, r.assigned_ip = conns[c].assigned_ip, r.requested = 1,
           conns' = [conns EXCEPT ![c] = r],
           pool' \in Pool, marred' \subseteq Offsets,
           UNCHANGED <<sessions, n_sessions, leases, pinned_ips, users>>
    PROVE  SafeInv'
  <1>1. /\ conns' \in [Conns -> Conn] /\ conns'[c] = r
        /\ \A d \in Conns \ {c} : conns'[d] = conns[d]
    BY ConnSet DEF SafeInv, TypeOK
  <1>2. TypeOK'
    BY <1>1 DEF SafeInv, TypeOK
  <1>3. \A d \in Conns : /\ conns[d].open = 1 => conns'[d].open = 1
                         /\ conns[d].open = 1 => conns'[d].assigned_ip = conns[d].assigned_ip
                         /\ conns'[d].requested = 0 => conns'[d].assigned_ip = 0
    BY <1>1 DEF SafeInv, AddressNeedsRequest
  <1> QED
    BY <1>2, <1>3, SessionsKept

(* A request that is granted: conn is entered at its address. *)
LEMMA GrantedSafe ==
    ASSUME SafeInv, NEW c \in Conns, NEW r \in Conn, NEW ip \in Offsets,
           conns[c].open = 1, conns[c].requested = 0,
           r.open = 1, r.requested = 1, r.assigned_ip = ip,
           conns' = [conns EXCEPT ![c] = r],
           sessions' = [sessions EXCEPT ![ip] = c], n_sessions' = n_sessions + 1,
           pool' \in Pool, marred' \subseteq Offsets,
           UNCHANGED <<leases, pinned_ips, users>>
    PROVE  SafeInv'
  <1>0. TypeOK /\ c # NoConn /\ 0 \notin Offsets
    BY NoConnAndZero DEF SafeInv
  <1>1. /\ conns' \in [Conns -> Conn] /\ conns'[c] = r
        /\ \A d \in Conns \ {c} : conns'[d] = conns[d]
    BY <1>0, ConnSet DEF TypeOK
  <1>2. TypeOK'
    BY <1>0, <1>1 DEF TypeOK
  <1>4. \A o \in Offsets : sessions[o] # c
    BY <1>0 DEF SafeInv, NoDanglingSession, AddressNeedsRequest
  <1>5. sessions'[ip] = c /\ \A o \in Offsets \ {ip} : sessions'[o] = sessions[o]
    BY <1>0 DEF TypeOK
  <1>6. NoDanglingSession'
    BY <1>0, <1>1, <1>4, <1>5 DEF SafeInv, NoDanglingSession, TypeOK
  <1>7. AddressNeedsRequest'
    BY <1>1 DEF SafeInv, AddressNeedsRequest
  <1>8. CountCovers'
    <2>1. Table' = Table \cup {ip}
      BY <1>0, <1>5 DEF Table
    <2>2. IsFiniteSet(Table) /\ Cardinality(Table) \in Nat
      BY <1>0, TableSize
    <2>3. Cardinality(Table \cup {ip}) = IF ip \in Table THEN Cardinality(Table) ELSE Cardinality(Table) + 1
      BY <2>2, FS_AddElement
    <2>4. Cardinality(Table') <= Cardinality(Table) + 1
      BY <2>1, <2>2, <2>3
    <2>5. n_sessions \in Nat /\ n_sessions >= Cardinality(Table)
      BY <1>0 DEF SafeInv, TypeOK, CountCovers
    <2>6. Cardinality(Table') \in Nat
      BY <2>1, <2>2, <2>3
    <2> QED
      BY <2>2, <2>4, <2>5, <2>6 DEF CountCovers
  <1>9. LeaseInv'
    BY DEF SafeInv, LeaseInv, LeasesPacked, LeaseUnique
  <1> QED
    BY <1>2, <1>6, <1>7, <1>8, <1>9 DEF SafeInv

(* Addresses are marred for good. *)
LEMMA RequestMars ==
    ASSUME TypeOK, NEW c \in Conns, NEW global, NEW n, NEW sent,
           ConnectIpRequest(c, global, n, sent)
    PROVE  marred \subseteq marred' /\ marred' \subseteq Offsets
  <1> DEFINE ip == ChooseIp(Identity(global, n))
  <1>1. ip \in Offsets \cup {0} /\ marred \subseteq Offsets
    BY ChoiceCorrect DEF TypeOK
  <1>2. marred' = marred \/ (ip # 0 /\ marred' = marred \cup {ip})
    BY DEF ConnectIpRequest, MasqueSendResponse
  <1> QED
    BY <1>1, <1>2

LEMMA ConnectIpRequestSafe ==
    ASSUME SafeInv, NEW c \in Conns, NEW global, NEW n \in Names \cup {""}, NEW sent,
           ConnectIpRequest(c, global, n, sent)
    PROVE  SafeInv'
  <1> DEFINE u == Identity(global, n)
             ip == ChooseIp(u)
             cn == [conns[c] EXCEPT !.requested = 1, !.username = u]
             up == [cn EXCEPT !.assigned_ip = ip, !.tunnel_established = 1]
             no == [conns[c] EXCEPT !.requested = 1]
  <1>0. /\ TypeOK /\ u \in Usernames
        /\ conns[c] \in Conn /\ conns[c].open = 1 /\ conns[c].requested = 0
        /\ UNCHANGED <<leases, pinned_ips, users>> /\ marred' \subseteq Offsets
    BY IdentityType, RequestMars DEF SafeInv, TypeOK, ConnectIpRequest
  <1>1. ip \in Offsets \cup {0} /\ PoolAfterChoice(u) \in Pool /\ pool \in Pool
    BY <1>0, ChoiceCorrect DEF TypeOK
  <1>2. /\ cn \in Conn /\ cn.requested = 1
        /\ cn.open = conns[c].open /\ cn.assigned_ip = conns[c].assigned_ip
    BY <1>0, RequestedConn
  <1>3. /\ no \in Conn /\ no.requested = 1
        /\ no.open = conns[c].open /\ no.assigned_ip = conns[c].assigned_ip
    BY <1>0 DEF Conn
  <1>4. CASE AuthRequired /\ ~AuthCheck(global, n)
    <2>1. conns' = [conns EXCEPT ![c] = no] /\ UNCHANGED <<sessions, n_sessions, pool>>
      BY <1>4 DEF ConnectIpRequest
    <2> HIDE DEF no
    <2> QED
      BY <1>0, <1>1, <1>3, <2>1, RefusedSafe
  <1>5. CASE ~(AuthRequired /\ ~AuthCheck(global, n))
    <2>1. MasqueSendResponse(c, u, sent)
      BY <1>5 DEF ConnectIpRequest
    <2>2. \/ conns' = [conns EXCEPT ![c] = cn] /\ UNCHANGED <<sessions, n_sessions, pool>>
          \/ /\ ip # 0 /\ conns' = [conns EXCEPT ![c] = cn]
             /\ pool' = Release(PoolAfterChoice(u), ip)
             /\ UNCHANGED <<sessions, n_sessions>>
          \/ /\ ip # 0 /\ conns' = [conns EXCEPT ![c] = up]
             /\ pool' = PoolAfterChoice(u)
             /\ sessions' = [sessions EXCEPT ![ip] = c] /\ n_sessions' = n_sessions + 1
      BY <2>1 DEF MasqueSendResponse
    <2>3. ip # 0 => /\ ip \in Offsets /\ up \in Conn /\ up.assigned_ip = ip
                    /\ up.open = cn.open /\ up.requested = cn.requested
      <3> HIDE DEF cn, ip
      <3> QED
        BY <1>1, <1>2, GrantedConn
    <2>4. ip # 0 => Release(PoolAfterChoice(u), ip) \in Pool
      <3> HIDE DEF ip, u
      <3> QED
        BY <1>1, PoolOperations
    <2> HIDE DEF cn, ip, up, u
    <2>5. CASE conns' = [conns EXCEPT ![c] = cn] /\ UNCHANGED <<sessions, n_sessions, pool>>
      BY <1>0, <1>1, <1>2, <2>5, RefusedSafe
    <2>6. CASE /\ ip # 0 /\ conns' = [conns EXCEPT ![c] = cn]
               /\ pool' = Release(PoolAfterChoice(u), ip)
               /\ UNCHANGED <<sessions, n_sessions>>
      BY <1>0, <1>1, <1>2, <2>4, <2>6, RefusedSafe
    <2>7. CASE /\ ip # 0 /\ conns' = [conns EXCEPT ![c] = up]
               /\ pool' = PoolAfterChoice(u)
               /\ sessions' = [sessions EXCEPT ![ip] = c] /\ n_sessions' = n_sessions + 1
      BY <1>0, <1>1, <1>2, <2>3, <2>7, GrantedSafe
    <2> QED
      BY <2>2, <2>5, <2>6, <2>7
  <1> QED
    BY <1>4, <1>5

(* Writing the first entry that is empty or the user's keeps one entry per *)
(* name.                                                                   *)
LEMMA SaveLeaseInv ==
    ASSUME leases \in [LeaseSlots -> Lease], LeaseInv,
           NEW u \in Usernames, NEW o \in Offsets,
           leases' = SaveLease(u, o)
    PROVE  leases' \in [LeaseSlots -> Lease] /\ LeaseInv'
  <1>1. CASE leases' = leases
    BY <1>1 DEF LeaseInv, LeasesPacked, LeaseUnique
  <1>2. CASE leases' # leases
    <2>1. PICK i \in LeaseEntry(u) :
             /\ \A j \in LeaseEntry(u) : i <= j
             /\ leases' = [leases EXCEPT ![i] = [username |-> u, offset |-> o]]
      BY <1>2, SaveLeaseCases
    <2>2. i \in LeaseSlots /\ (leases[i].offset = 0 \/ leases[i].username = u)
      BY DEF LeaseEntry
    <2> DEFINE e == [username |-> u, offset |-> o]
    <2>3. e \in Lease /\ e.username = u /\ e.offset = o /\ o # 0
      <3>1. o \in 0 .. PoolSize /\ o # 0
        BY PoolSizeAssumption DEF Offsets
      <3> QED
        BY <3>1 DEF Lease
    <2>4. leases' = [leases EXCEPT ![i] = e]
      BY <2>1
    <2> HIDE DEF e
    <2>5. /\ leases' \in [LeaseSlots -> Lease] /\ leases'[i] = e
          /\ \A j \in LeaseSlots \ {i} : leases'[j] = leases[j]
      BY <2>2, <2>3, <2>4
    <2>6. \A j \in LeaseSlots : j < i => leases[j].offset # 0 /\ leases[j].username # u
      <3>1. \A j \in LeaseSlots : leases[j].offset = 0 \/ leases[j].username = u => j \in LeaseEntry(u)
        BY DEF LeaseEntry
      <3>2. \A j \in LeaseSlots : j \in LeaseEntry(u) => i <= j
        BY <2>1
      <3>3. \A j \in LeaseSlots : j < i => ~(i <= j)
        BY <2>2, LeaseSlotsNat
      <3> QED
        BY <3>1, <3>2, <3>3
    <2>7. LeasesPacked'
      <3> SUFFICES ASSUME NEW a \in LeaseSlots, NEW b \in LeaseSlots,
                          leases'[a].offset = 0, a < b
                   PROVE  leases'[b].offset = 0
        BY DEF LeasesPacked
      <3>1. a # i /\ leases[a].offset = 0
        BY <2>3, <2>5
      <3>2. ~(a < i)
        BY <2>6, <3>1
      <3>3. b # i
        BY <2>2, <3>1, <3>2, LeaseSlotsNat
      <3>4. leases[b].offset = 0
        BY <3>1 DEF LeaseInv, LeasesPacked
      <3> QED
        BY <2>5, <3>3, <3>4
    <2>8. \A j \in LeaseSlots \ {i} : leases[j].offset # 0 => leases[j].username # u
      <3> SUFFICES ASSUME NEW j \in LeaseSlots \ {i}, leases[j].offset # 0
                   PROVE  leases[j].username # u
        OBVIOUS
      <3>1. CASE j < i
        BY <2>6, <3>1
      <3>2. CASE i < j
        <4>1. leases[i].offset # 0
          BY <2>2, <3>2 DEF LeaseInv, LeasesPacked
        <4>2. leases[i].username = u
          BY <2>2, <4>1
        <4> QED
          BY <2>2, <4>1, <4>2 DEF LeaseInv, LeaseUnique
      <3>3. j < i \/ i < j
        BY <2>2, LeaseSlotsNat
      <3> QED
        BY <3>1, <3>2, <3>3
    <2>9. LeaseUnique'
      BY <2>2, <2>3, <2>5, <2>8 DEF LeaseInv, LeaseUnique
    <2> QED
      BY <2>5, <2>7, <2>9 DEF LeaseInv
  <1> QED
    BY <1>1, <1>2

LEMMA ReleaseType ==
    ASSUME TypeOK
    PROVE  pool \in Pool /\ \A o \in Offsets : Release(pool, o) \in Pool
  <1>1. pool \in Pool
    BY DEF TypeOK
  <1> QED
    BY <1>1, PoolOperations

LEMMA H3ConnCloseSafe ==
    ASSUME SafeInv, NEW c \in Conns, H3ConnClose(c)
    PROVE  SafeInv'
  <1> DEFINE o == conns[c].assigned_ip
  <1>0. TypeOK /\ NoConn \notin Conns /\ 0 \notin Offsets
    BY NoConnAndZero DEF SafeInv
  <1>1. conns[c] \in Conn /\ o \in 0 .. PoolSize /\ conns[c].username \in Usernames
    BY <1>0 DEF TypeOK, Conn
  <1>2. o # 0 => o \in Offsets
    BY <1>1, PoolSizeAssumption DEF Offsets
  <1>3. /\ conns' \in [Conns -> Conn] /\ conns'[c] = NewConn(0)
        /\ \A d \in Conns \ {c} : conns'[d] = conns[d]
    BY <1>0, NewConnType, ConnSet DEF H3ConnClose, TypeOK
  <1>4. leases' \in [LeaseSlots -> Lease] /\ LeaseInv'
    <2>1. CASE leases' = leases
      BY <1>0, <2>1 DEF TypeOK, SafeInv, LeaseInv, LeasesPacked, LeaseUnique
    <2>2. CASE o # 0 /\ leases' = SaveLease(conns[c].username, o)
      <3> HIDE DEF o
      <3> QED
        BY <1>0, <1>1, <1>2, <2>2, SaveLeaseInv DEF TypeOK, SafeInv
    <2> QED
      BY <2>1, <2>2 DEF H3ConnClose
  <1>5. pool' \in Pool
    <2>1. pool' = pool \/ (o # 0 /\ pool' = Release(pool, o))
      BY DEF H3ConnClose
    <2>2. pool \in Pool /\ \A p \in Offsets : Release(pool, p) \in Pool
      BY <1>0, ReleaseType
    <2> HIDE DEF o
    <2> QED
      BY <1>2, <2>1, <2>2
  <1>6. CASE HasSession(c)
    <2>1. o \in Offsets /\ sessions[o] = c
      BY <1>2, <1>6 DEF HasSession
    <2>2. sessions' = [sessions EXCEPT ![o] = NoConn] /\ n_sessions' = n_sessions - 1
      BY <1>6 DEF H3ConnClose
    <2> HIDE DEF o
    <2>3. /\ sessions' \in [Offsets -> Conns \cup {NoConn}] /\ sessions'[o] = NoConn
          /\ \A p \in Offsets \ {o} : sessions'[p] = sessions[p]
      BY <1>0, <2>1, <2>2 DEF TypeOK
    <2>4. \A p \in Offsets \ {o} : sessions[p] # c
      BY <1>0, <1>1, <2>1 DEF SafeInv, NoDanglingSession, o
    <2>5. Table' = Table \ {o} /\ o \in Table
      BY <1>0, <2>1, <2>3 DEF Table
    <2>6. IsFiniteSet(Table) /\ Cardinality(Table) \in Nat /\ Cardinality(Table) > 0
      BY <1>0, <2>1, <2>5, TableSize
    <2>7. Cardinality(Table') = Cardinality(Table) - 1
      BY <2>5, <2>6, FS_RemoveElement
    <2>8. n_sessions \in Nat /\ n_sessions >= Cardinality(Table)
      BY <1>0 DEF SafeInv, TypeOK, CountCovers
    <2>9. n_sessions' \in Nat /\ CountCovers'
      BY <2>2, <2>6, <2>7, <2>8 DEF CountCovers
    <2>10. TypeOK'
      BY <1>0, <1>3, <1>4, <1>5, <2>3, <2>9 DEF TypeOK, H3ConnClose
    <2>11. NoDanglingSession'
      BY <1>0, <1>3, <2>3, <2>4 DEF SafeInv, NoDanglingSession, TypeOK
    <2>12. AddressNeedsRequest'
      BY <1>3, NewConnType DEF SafeInv, AddressNeedsRequest
    <2> QED
      BY <1>4, <2>9, <2>10, <2>11, <2>12 DEF SafeInv
  <1>7. CASE ~HasSession(c)
    <2>1. sessions' = sessions /\ n_sessions' = n_sessions
      BY <1>7 DEF H3ConnClose
    <2>2. \A p \in Offsets : sessions[p] # c
      BY <1>0, <1>7 DEF SafeInv, NoDanglingSession, HasSession
    <2>3. Table' = Table /\ CountCovers'
      BY <2>1 DEF SafeInv, CountCovers, Table
    <2>4. TypeOK'
      BY <1>0, <1>3, <1>4, <1>5, <2>1 DEF TypeOK, H3ConnClose
    <2>5. NoDanglingSession'
      BY <1>0, <1>3, <2>1, <2>2 DEF SafeInv, NoDanglingSession, TypeOK
    <2>6. AddressNeedsRequest'
      BY <1>3, NewConnType DEF SafeInv, AddressNeedsRequest
    <2> QED
      BY <1>4, <2>3, <2>4, <2>5, <2>6 DEF SafeInv
  <1> QED
    BY <1>6, <1>7

(* Giving up a pin leaves a pool. *)
LEMMA PoolWithoutPinType ==
    ASSUME TypeOK, NEW u
    PROVE  PoolWithoutPin(u) \in Pool /\ pinned_ips \ PinsOf(u) \subseteq Pin
  <1>0. /\ pool \in Pool /\ \A p \in Offsets : Release(pool, p) \in Pool
        /\ pinned_ips \ PinsOf(u) \subseteq Pin
    BY ReleaseType DEF TypeOK
  <1>1. CASE PinsOf(u) # {} /\ ~IsConnected(u)
    <2>1. PICK q \in PinsOf(u) : q = CHOOSE p \in PinsOf(u) : TRUE
      BY <1>1
    <2>2. q.offset \in Offsets
      BY <2>1 DEF PinsOf, TypeOK, Pin
    <2>3. PoolWithoutPin(u) = Release(pool, q.offset)
      BY <1>1, <2>1 DEF PoolWithoutPin
    <2> QED
      BY <1>0, <2>2, <2>3
  <1>2. CASE ~(PinsOf(u) # {} /\ ~IsConnected(u))
    BY <1>0, <1>2 DEF PoolWithoutPin
  <1> QED
    BY <1>0, <1>1, <1>2

LEMMA AddUserSafe ==
    ASSUME SafeInv, NEW u \in Names, AddUser(u)
    PROVE  SafeInv'
  <1>1. TypeOK'
    BY DEF AddUser, SafeInv, TypeOK, sessionVars, addressVars
  <1> QED
    BY <1>1, SessionsKept DEF AddUser, SafeInv, AddressNeedsRequest, sessionVars, addressVars

LEMMA RemoveUserSafe ==
    ASSUME SafeInv, NEW u \in Names, RemoveUser(u)
    PROVE  SafeInv'
  <1>0. TypeOK /\ conns' = DisconnectSessions(u)
    BY DEF SafeInv, RemoveUser
  <1>1. \A c \in Conns : /\ [conns[c] EXCEPT !.closing = 1] \in Conn
                         /\ [conns[c] EXCEPT !.closing = 1].open = conns[c].open
                         /\ [conns[c] EXCEPT !.closing = 1].assigned_ip = conns[c].assigned_ip
                         /\ [conns[c] EXCEPT !.closing = 1].requested = conns[c].requested
    BY <1>0 DEF TypeOK, Conn
  <1>2. \A c \in Conns : conns'[c] = conns[c] \/ conns'[c] = [conns[c] EXCEPT !.closing = 1]
    BY <1>0 DEF DisconnectSessions
  <1>3. \A c \in Conns : conns'[c] \in Conn
    BY <1>0, <1>1, <1>2 DEF TypeOK
  <1>4. conns' \in [Conns -> Conn]
    BY <1>0, <1>3 DEF DisconnectSessions
  <1>5. TypeOK'
    BY <1>0, <1>4, PoolWithoutPinType DEF TypeOK, RemoveUser
  <1>6. \A c \in Conns : /\ conns[c].open = 1 => conns'[c].open = 1
                         /\ conns[c].open = 1 => conns'[c].assigned_ip = conns[c].assigned_ip
                         /\ conns'[c].requested = 0 => conns'[c].assigned_ip = 0
    BY <1>1, <1>2 DEF SafeInv, AddressNeedsRequest
  <1> QED
    BY <1>5, <1>6, SessionsKept DEF RemoveUser

LEMMA ClearUserFixedIpSafe ==
    ASSUME SafeInv, NEW u \in Names, ClearUserFixedIp(u)
    PROVE  SafeInv'
  <1>1. TypeOK'
    BY PoolWithoutPinType DEF ClearUserFixedIp, SafeInv, TypeOK, sessionVars
  <1> QED
    BY <1>1, SessionsKept DEF ClearUserFixedIp, SafeInv, AddressNeedsRequest, sessionVars

LEMMA SetUserFixedIpSafe ==
    ASSUME SafeInv, NEW u \in Names, NEW o \in FixedIps, SetUserFixedIp(u, o)
    PROVE  SafeInv'
  <1>1. TypeOK /\ o \in Offsets
    BY ServerAssumption DEF SafeInv
  <1>2. PoolWithoutPin(u) \in Pool /\ pinned_ips \ PinsOf(u) \subseteq Pin
    BY <1>1, PoolWithoutPinType
  <1>3. AllocAt(PoolWithoutPin(u), o) \in Pool /\ [username |-> u, offset |-> o] \in Pin
    BY <1>1, <1>2, PoolOperations DEF Pin
  <1>4. pool' \in Pool /\ pinned_ips' \subseteq Pin
    BY <1>2, <1>3 DEF SetUserFixedIp
  <1>5. TypeOK'
    BY <1>1, <1>4 DEF SetUserFixedIp, TypeOK, sessionVars
  <1> QED
    BY <1>5, SessionsKept DEF SetUserFixedIp, SafeInv, AddressNeedsRequest, sessionVars

LEMMA NextSafe == SafeInv /\ [Next]_vars => SafeInv'
  <1> SUFFICES ASSUME SafeInv, [Next]_vars PROVE SafeInv'
    OBVIOUS
  <1>1. ASSUME NEW c \in Conns, H3ConnCreate(c) PROVE SafeInv'
    BY <1>1, H3ConnCreateSafe
  <1>2. ASSUME NEW c \in Conns, NEW global \in {0, AuthKey}, NEW n \in Names \cup {""},
               NEW sent \in {"all", "headers", "nothing"}, ConnectIpRequest(c, global, n, sent)
        PROVE  SafeInv'
    BY <1>2, ConnectIpRequestSafe
  <1>3. ASSUME NEW c \in Conns, RequestClose(c) PROVE SafeInv'
    BY <1>3, RequestCloseSafe
  <1>4. ASSUME NEW c \in Conns, H3ConnClose(c) PROVE SafeInv'
    BY <1>4, H3ConnCloseSafe
  <1>5. ASSUME NEW u \in Names, AddUser(u) PROVE SafeInv'
    BY <1>5, AddUserSafe
  <1>6. ASSUME NEW u \in Names, RemoveUser(u) PROVE SafeInv'
    BY <1>6, RemoveUserSafe
  <1>7. ASSUME NEW u \in Names, ClearUserFixedIp(u) PROVE SafeInv'
    BY <1>7, ClearUserFixedIpSafe
  <1>8. ASSUME NEW u \in Names, NEW o \in FixedIps, SetUserFixedIp(u, o) PROVE SafeInv'
    BY <1>8, SetUserFixedIpSafe
  <1>9. CASE UNCHANGED vars
    <2>1. TypeOK'
      BY <1>9 DEF SafeInv, TypeOK, vars, sessionVars, addressVars
    <2> QED
      BY <1>9, <2>1, SessionsKept DEF SafeInv, AddressNeedsRequest, vars, sessionVars, addressVars
  <1> QED
    BY <1>1, <1>2, <1>3, <1>4, <1>5, <1>6, <1>7, <1>8, <1>9 DEF Next

(* SafeInv is an invariant of mqvpn_server.c in every configuration: pins, *)
(* overlapping connections and responses that fail included.               *)
THEOREM SafeInvariant == Spec => []SafeInv
  BY InitSafe, NextSafe, PTL DEF Spec

(* Type correctness; n_sessions, a counter that is decremented in the      *)
(* close callback only, never goes below zero.                             *)
THEOREM ServerTypeCorrect == Spec => []TypeOK
  <1>1. SafeInv => TypeOK
    BY DEF SafeInv
  <1> QED
    BY <1>1, SafeInvariant, PTL

(* The session table never holds a freed connection, in any configuration: *)
(* with pins, overlapping connections of a user and failing responses.     *)
THEOREM SessionsValid == Spec => []NoDanglingSession
  <1>1. SafeInv => NoDanglingSession
    BY DEF SafeInv
  <1> QED
    BY <1>1, SafeInvariant, PTL

(* The lease table has one entry per name, in any configuration. *)
THEOREM LeasesCorrect == Spec => []LeaseUnique
  <1>1. SafeInv => LeaseUnique
    BY DEF SafeInv, LeaseInv
  <1> QED
    BY <1>1, SafeInvariant, PTL

-----------------------------------------------------------------------------
(* What holds without pinned addresses *)

(* Every connection that has an address is in the table under it. *)
Registered ==
    \A c \in Conns : conns[c].assigned_ip # 0 => sessions[conns[c].assigned_ip] = c

(* The pool's flags are the occupied entries of the table; the server's    *)
(* address is not given out.                                               *)
UsedIsTable == pool.used = Table /\ 1 \notin Table

DynInv == SafeInv /\ pinned_ips = {} /\ Registered /\ UsedIsTable /\ SessionCount

(* What one step may do to the table. *)
Enter(c, ip) ==
    /\ ip # 1 /\ sessions[ip] = NoConn /\ (\A o \in Offsets : sessions[o] # c)
    /\ n_sessions < MaxClients
    /\ sessions' = [sessions EXCEPT ![ip] = c]

Leave(o) ==
    /\ o # 1 /\ sessions[o] # NoConn
    /\ sessions' = [sessions EXCEPT ![o] = NoConn]

TableStep ==
    \/ UNCHANGED sessions
    \/ \E c \in Conns, ip \in Offsets : Enter(c, ip)
    \/ \E o \in Offsets : Leave(o)

LEMMA InitDyn == Init => DynInv
  <1> SUFFICES ASSUME Init PROVE DynInv
    OBVIOUS
  <1>1. SafeInv
    BY InitSafe
  <1>2. Table = {}
    BY DEF Init, Table
  <1>3. pool.used = {}
    BY DEF Init, PoolInit
  <1>4. n_sessions = 0 /\ pinned_ips = {}
    BY DEF Init
  <1>5. Cardinality(Table) = 0
    BY <1>2, FS_EmptySet
  <1>6. Registered
    BY NewConnType DEF Init, Registered
  <1> QED
    BY <1>1, <1>2, <1>3, <1>4, <1>5, <1>6 DEF DynInv, UsedIsTable, SessionCount

(* A step that changes neither the table nor anybody's address. *)
LEMMA AddressesKept ==
    ASSUME DynInv, SafeInv', pinned_ips' = {}, pool'.used = pool.used,
           UNCHANGED <<sessions, n_sessions>>,
           \A c \in Conns : conns'[c].assigned_ip \in {0, conns[c].assigned_ip}
    PROVE  DynInv' /\ TableStep
  <1>1. Table' = Table
    BY DEF Table
  <1>2. UsedIsTable' /\ SessionCount'
    BY <1>1 DEF DynInv, UsedIsTable, SessionCount
  <1>3. Registered'
    BY DEF DynInv, Registered
  <1> QED
    BY <1>2, <1>3 DEF DynInv, TableStep

(* A connection without an address is entered at a free entry of the table. *)
LEMMA EnterTable ==
    ASSUME SafeInv, Registered, SessionCount, NEW c \in Conns, NEW ip \in Offsets,
           conns[c].requested = 0, sessions[ip] = NoConn,
           conns'[c].assigned_ip = ip,
           \A d \in Conns \ {c} : conns'[d] = conns[d],
           sessions' = [sessions EXCEPT ![ip] = c], n_sessions' = n_sessions + 1
    PROVE  Table' = Table \cup {ip} /\ Registered' /\ SessionCount'
  <1>0. TypeOK /\ c # NoConn /\ ip \notin Table
    BY NoConnAndZero DEF SafeInv, Table
  <1>1. sessions'[ip] = c /\ \A o \in Offsets \ {ip} : sessions'[o] = sessions[o]
    BY <1>0 DEF TypeOK
  <1>2. Table' = Table \cup {ip}
    BY <1>0, <1>1 DEF Table
  <1>3. SessionCount'
    <2>1. IsFiniteSet(Table) /\ Cardinality(Table) \in Nat
      BY <1>0, TableSize
    <2>2. Cardinality(Table \cup {ip}) = Cardinality(Table) + 1
      BY <1>0, <2>1, FS_AddElement
    <2> QED
      BY <1>2, <2>2 DEF SessionCount
  <1>4. Registered'
    <2> SUFFICES ASSUME NEW d \in Conns, conns'[d].assigned_ip # 0
                 PROVE  sessions'[conns'[d].assigned_ip] = d
      BY DEF Registered
    <2>1. CASE d = c
      BY <1>1, <2>1
    <2>2. CASE d # c
      <3>1. conns'[d] = conns[d] /\ sessions[conns[d].assigned_ip] = d
        BY <2>2 DEF Registered
      <3>2. conns[d].assigned_ip \in Offsets
        BY <1>0, <3>1, PoolSizeAssumption DEF TypeOK, Conn, Offsets
      <3>3. conns[d].assigned_ip # ip
        BY <3>1, NoConnAndZero
      <3> QED
        BY <1>1, <3>1, <3>2, <3>3
    <2> QED
      BY <2>1, <2>2
  <1> QED
    BY <1>2, <1>3, <1>4

(* A connection is taken out of the table and loses its address. *)
LEMMA LeaveTable ==
    ASSUME SafeInv, Registered, SessionCount, NEW c \in Conns, NEW o \in Offsets,
           sessions[o] = c, conns'[c].assigned_ip = 0,
           \A d \in Conns \ {c} : conns'[d] = conns[d],
           sessions' = [sessions EXCEPT ![o] = NoConn], n_sessions' = n_sessions - 1
    PROVE  Table' = Table \ {o} /\ Registered' /\ SessionCount'
  <1>0. TypeOK /\ c # NoConn /\ o \in Table
    BY NoConnAndZero DEF SafeInv, Table
  <1>1. sessions'[o] = NoConn /\ \A p \in Offsets \ {o} : sessions'[p] = sessions[p]
    BY <1>0 DEF TypeOK
  <1>2. Table' = Table \ {o}
    BY <1>0, <1>1 DEF Table
  <1>3. SessionCount'
    <2>1. IsFiniteSet(Table) /\ Cardinality(Table) \in Nat
      BY <1>0, TableSize
    <2>2. Cardinality(Table \ {o}) = Cardinality(Table) - 1
      BY <1>0, <2>1, FS_RemoveElement
    <2> QED
      BY <1>2, <2>2 DEF SessionCount
  <1>4. Registered'
    <2> SUFFICES ASSUME NEW d \in Conns, conns'[d].assigned_ip # 0
                 PROVE  sessions'[conns'[d].assigned_ip] = d
      BY DEF Registered
    <2>1. d # c /\ conns'[d] = conns[d]
      OBVIOUS
    <2>2. sessions[conns[d].assigned_ip] = d
      BY <2>1 DEF Registered
    <2>3. conns[d].assigned_ip \in 0 .. PoolSize
      BY <1>0 DEF TypeOK, Conn
    <2>4. conns[d].assigned_ip \in Offsets /\ conns[d].assigned_ip # o
      BY <2>1, <2>2, <2>3, PoolSizeAssumption DEF Offsets
    <2> QED
      BY <1>1, <2>1, <2>2, <2>4
  <1> QED
    BY <1>2, <1>3, <1>4

(* A connection takes a free address. *)
LEMMA EnterDyn ==
    ASSUME DynInv, SafeInv', pinned_ips' = {}, NEW c \in Conns, NEW ip \in Free(pool),
           conns[c].requested = 0, n_sessions < MaxClients,
           conns'[c].assigned_ip = ip,
           \A d \in Conns \ {c} : conns'[d] = conns[d],
           sessions' = [sessions EXCEPT ![ip] = c], n_sessions' = n_sessions + 1,
           pool'.used = pool.used \cup {ip}
    PROVE  DynInv' /\ TableStep
  <1>0. /\ TypeOK /\ c # NoConn /\ 0 \notin Offsets
        /\ ip \in Offsets /\ ip # 0 /\ ip # 1 /\ ip \notin pool.used
    BY NoConnAndZero, FreeType DEF DynInv, SafeInv, TypeOK
  <1>1. ip \notin Table /\ sessions[ip] = NoConn
    BY <1>0 DEF DynInv, UsedIsTable, Table
  <1>2. \A o \in Offsets : sessions[o] # c
    BY <1>0 DEF DynInv, SafeInv, NoDanglingSession, AddressNeedsRequest
  <1>3. Table' = Table \cup {ip} /\ Registered' /\ SessionCount'
    BY <1>0, <1>1, EnterTable DEF DynInv
  <1>4. UsedIsTable'
    BY <1>0, <1>3 DEF DynInv, UsedIsTable
  <1>5. Enter(c, ip)
    BY <1>0, <1>1, <1>2 DEF Enter
  <1> QED
    BY <1>0, <1>3, <1>4, <1>5 DEF DynInv, TableStep

LEMMA BelowMax ==
    ASSUME TypeOK, ~AtMaxClients
    PROVE  n_sessions < MaxClients
  <1>1. n_sessions \in Nat /\ MaxClients \in Nat
    BY ServerAssumption DEF TypeOK
  <1> QED
    BY <1>1 DEF AtMaxClients

LEMMA ConnectIpRequestDyn ==
    ASSUME DynInv, SafeInv', NEW c \in Conns, NEW global, NEW n \in Names \cup {""}, NEW sent,
           ConnectIpRequest(c, global, n, sent)
    PROVE  DynInv' /\ TableStep
  <1> DEFINE u == Identity(global, n)
             ip == ChooseIp(u)
             cn == [conns[c] EXCEPT !.requested = 1, !.username = u]
             up == [cn EXCEPT !.assigned_ip = ip, !.tunnel_established = 1]
             no == [conns[c] EXCEPT !.requested = 1]
  <1>0. /\ TypeOK /\ u \in Usernames /\ conns \in [Conns -> Conn]
        /\ conns[c] \in Conn /\ conns[c].requested = 0
        /\ pinned_ips = {} /\ pinned_ips' = {} /\ pool \in Pool
    BY IdentityType DEF DynInv, SafeInv, TypeOK, ConnectIpRequest
  <1>1. /\ PoolAfterChoice(u) \in Pool /\ ip \in Offsets \cup {0}
        /\ ip # 0 => /\ ip \in Free(pool)
                     /\ PoolAfterChoice(u).used = pool.used \cup {ip}
    <2>1. PinsOf(u) = {}
      BY <1>0 DEF PinsOf
    <2> HIDE DEF u
    <2> QED
      BY <1>0, <2>1, ChoiceCorrect
  <1>2. cn \in Conn /\ cn.assigned_ip = conns[c].assigned_ip
    BY <1>0, RequestedConn
  <1>3. no \in Conn /\ no.assigned_ip = conns[c].assigned_ip
    BY <1>0 DEF Conn
  <1>4. CASE AuthRequired /\ ~AuthCheck(global, n)
    <2>1. conns' = [conns EXCEPT ![c] = no] /\ UNCHANGED <<sessions, n_sessions, pool>>
      BY <1>4 DEF ConnectIpRequest
    <2> HIDE DEF no
    <2>2. conns'[c] = no /\ \A d \in Conns \ {c} : conns'[d] = conns[d]
      BY <1>0, <1>3, <2>1, ConnSet
    <2>3. \A d \in Conns : conns'[d].assigned_ip \in {0, conns[d].assigned_ip}
      BY <1>3, <2>2
    <2> QED
      BY <1>0, <2>1, <2>3, AddressesKept
  <1>5. CASE ~(AuthRequired /\ ~AuthCheck(global, n))
    <2>1. MasqueSendResponse(c, u, sent)
      BY <1>5 DEF ConnectIpRequest
    <2>2. \/ conns' = [conns EXCEPT ![c] = cn] /\ UNCHANGED <<sessions, n_sessions, pool>>
          \/ /\ ip # 0 /\ conns' = [conns EXCEPT ![c] = cn]
             /\ pool' = Release(PoolAfterChoice(u), ip)
             /\ UNCHANGED <<sessions, n_sessions>>
          \/ /\ ip # 0 /\ conns' = [conns EXCEPT ![c] = up] /\ ~AtMaxClients
             /\ pool' = PoolAfterChoice(u)
             /\ sessions' = [sessions EXCEPT ![ip] = c] /\ n_sessions' = n_sessions + 1
      BY <2>1 DEF MasqueSendResponse
    <2>3. ip # 0 => up \in Conn /\ up.assigned_ip = ip
      <3> HIDE DEF cn, ip
      <3> QED
        BY <1>1, <1>2, GrantedConn
    <2>4. ip # 0 => Release(PoolAfterChoice(u), ip).used = pool.used
      <3> HIDE DEF ip, u
      <3>1. ip # 0 => /\ ip \in Offsets
                      /\ Release(PoolAfterChoice(u), ip).used = PoolAfterChoice(u).used \ {ip}
        BY <1>1, PoolOperations
      <3>2. ip # 0 => ip \notin pool.used
        BY <1>0, <1>1, FreeType
      <3> QED
        BY <1>1, <3>1, <3>2
    <2> HIDE DEF cn, ip, up, u
    <2>5. ASSUME conns' = [conns EXCEPT ![c] = cn], UNCHANGED <<sessions, n_sessions>>,
                 pool'.used = pool.used
          PROVE  DynInv' /\ TableStep
      <3>1. conns'[c] = cn /\ \A d \in Conns \ {c} : conns'[d] = conns[d]
        BY <1>0, <1>2, <2>5, ConnSet
      <3>2. \A d \in Conns : conns'[d].assigned_ip \in {0, conns[d].assigned_ip}
        BY <1>2, <3>1
      <3> QED
        BY <1>0, <2>5, <3>2, AddressesKept
    <2>6. ASSUME ip # 0, conns' = [conns EXCEPT ![c] = up], ~AtMaxClients,
                 pool' = PoolAfterChoice(u),
                 sessions' = [sessions EXCEPT ![ip] = c], n_sessions' = n_sessions + 1
          PROVE  DynInv' /\ TableStep
      <3>1. conns'[c] = up /\ \A d \in Conns \ {c} : conns'[d] = conns[d]
        BY <1>0, <2>3, <2>6, ConnSet
      <3>2. n_sessions < MaxClients
        BY <1>0, <2>6, BelowMax
      <3>3. conns'[c].assigned_ip = ip /\ pool'.used = pool.used \cup {ip} /\ ip \in Free(pool)
        BY <1>1, <2>3, <2>6, <3>1
      <3> QED
        BY <1>0, <2>6, <3>1, <3>2, <3>3, EnterDyn
    <2> QED
      BY <2>2, <2>4, <2>5, <2>6
  <1> QED
    BY <1>4, <1>5

LEMMA H3ConnCloseDyn ==
    ASSUME DynInv, SafeInv', NEW c \in Conns, H3ConnClose(c)
    PROVE  DynInv' /\ TableStep
  <1> DEFINE o == conns[c].assigned_ip
  <1>0. TypeOK /\ pinned_ips = {} /\ pinned_ips' = {} /\ pool \in Pool
    BY DEF DynInv, SafeInv, TypeOK, H3ConnClose
  <1>1. /\ conns'[c].assigned_ip = 0
        /\ \A d \in Conns \ {c} : conns'[d] = conns[d]
    BY <1>0, NewConnType, ConnSet DEF H3ConnClose, TypeOK
  <1>2. CASE o = 0
    <2>1. ~HasSession(c)
      BY <1>2 DEF HasSession
    <2>2. UNCHANGED <<sessions, n_sessions, pool>>
      BY <1>2, <2>1 DEF H3ConnClose
    <2>3. \A d \in Conns : conns'[d].assigned_ip \in {0, conns[d].assigned_ip}
      BY <1>1
    <2> QED
      BY <1>0, <2>2, <2>3, AddressesKept
  <1>3. CASE o # 0
    <2>1. o \in Offsets /\ sessions[o] = c /\ HasSession(c) /\ c # NoConn
      <3>1. o \in 0 .. PoolSize
        BY <1>0 DEF TypeOK, Conn
      <3>2. o \in Offsets
        BY <1>3, <3>1, PoolSizeAssumption DEF Offsets
      <3> QED
        BY <1>3, <3>2, NoConnAndZero DEF DynInv, Registered, HasSession
    <2>2. /\ sessions' = [sessions EXCEPT ![o] = NoConn] /\ n_sessions' = n_sessions - 1
          /\ pool' = Release(pool, o)
      BY <1>0, <1>3, <2>1 DEF H3ConnClose, IsPinned
    <2>3. conns'[c].assigned_ip = 0 /\ \A d \in Conns \ {c} : conns'[d] = conns[d]
      BY <1>1
    <2> HIDE DEF o
    <2>4. Table' = Table \ {o} /\ Registered' /\ SessionCount'
      BY <2>1, <2>2, <2>3, LeaveTable DEF DynInv
    <2>5. pool'.used = pool.used \ {o} /\ o \in Table
      BY <1>0, <2>1, <2>2, PoolOperations DEF Table
    <2>6. UsedIsTable'
      BY <2>4, <2>5 DEF DynInv, UsedIsTable
    <2>7. Leave(o)
      BY <2>1, <2>2, <2>5 DEF Leave, DynInv, UsedIsTable
    <2> QED
      BY <1>0, <2>1, <2>4, <2>6, <2>7 DEF DynInv, TableStep
  <1> QED
    BY <1>2, <1>3

LEMMA NextDyn ==
    ASSUME FixedIps = {}, DynInv, [Next]_vars
    PROVE  DynInv' /\ TableStep
  <1>0. SafeInv' /\ TypeOK /\ pinned_ips = {}
    BY NextSafe DEF DynInv, SafeInv
  <1> DEFINE Same == \A d \in Conns : conns'[d].assigned_ip \in {0, conns[d].assigned_ip}
  <1>1. ASSUME NEW c \in Conns, H3ConnCreate(c) PROVE DynInv' /\ TableStep
    <2>1. Same
      BY <1>0, <1>1, NewConnType, ConnSet DEF H3ConnCreate, TypeOK
    <2> QED
      BY <1>0, <1>1, <2>1, AddressesKept DEF H3ConnCreate, addressVars
  <1>2. ASSUME NEW c \in Conns, NEW global \in {0, AuthKey}, NEW n \in Names \cup {""},
               NEW sent \in {"all", "headers", "nothing"}, ConnectIpRequest(c, global, n, sent)
        PROVE  DynInv' /\ TableStep
    BY <1>0, <1>2, ConnectIpRequestDyn
  <1>3. ASSUME NEW c \in Conns, RequestClose(c) PROVE DynInv' /\ TableStep
    <2>1. Same
      BY <1>0, <1>3 DEF RequestClose, TypeOK, Conn
    <2> QED
      BY <1>0, <1>3, <2>1, AddressesKept DEF RequestClose, addressVars
  <1>4. ASSUME NEW c \in Conns, H3ConnClose(c) PROVE DynInv' /\ TableStep
    BY <1>0, <1>4, H3ConnCloseDyn
  <1>5. ASSUME NEW u \in Names, AddUser(u) PROVE DynInv' /\ TableStep
    <2>1. Same
      BY <1>5 DEF AddUser, sessionVars
    <2> QED
      BY <1>0, <1>5, <2>1, AddressesKept DEF AddUser, sessionVars, addressVars
  <1>6. \A u : PoolWithoutPin(u) = pool /\ pinned_ips \ PinsOf(u) = {}
    BY <1>0 DEF PoolWithoutPin, PinsOf
  <1>7. ASSUME NEW u \in Names, RemoveUser(u) PROVE DynInv' /\ TableStep
    <2>1. \A d \in Conns : conns'[d] = conns[d] \/ conns'[d] = [conns[d] EXCEPT !.closing = 1]
      BY <1>7 DEF RemoveUser, DisconnectSessions
    <2>2. \A d \in Conns : [conns[d] EXCEPT !.closing = 1].assigned_ip = conns[d].assigned_ip
      BY <1>0 DEF TypeOK, Conn
    <2>3. Same
      BY <2>1, <2>2
    <2>4. pool' = pool /\ pinned_ips' = {} /\ UNCHANGED <<sessions, n_sessions>>
      BY <1>6, <1>7 DEF RemoveUser
    <2> QED
      BY <1>0, <2>3, <2>4, AddressesKept
  <1>8. ASSUME NEW u \in Names, ClearUserFixedIp(u) PROVE DynInv' /\ TableStep
    <2>1. Same
      BY <1>8 DEF ClearUserFixedIp, sessionVars
    <2>2. pool' = pool /\ pinned_ips' = {} /\ UNCHANGED <<sessions, n_sessions>>
      BY <1>6, <1>8 DEF ClearUserFixedIp, sessionVars
    <2> QED
      BY <1>0, <2>1, <2>2, AddressesKept
  <1>9. CASE UNCHANGED vars
    <2>1. Same
      BY <1>9 DEF vars, sessionVars
    <2> QED
      BY <1>0, <1>9, <2>1, AddressesKept DEF vars, sessionVars, addressVars
  <1>10. ~ \E u \in Names, o \in FixedIps : SetUserFixedIp(u, o)
    OBVIOUS
  <1> QED
    BY <1>1, <1>2, <1>3, <1>4, <1>5, <1>7, <1>8, <1>9, <1>10 DEF Next

(* Without fixed addresses table, counter and pool agree after every call  *)
(* and callback of mqvpn_server.c: DynInv is an invariant.                 *)
THEOREM DynInvariant ==
    ASSUME FixedIps = {} PROVE Spec => []DynInv
  BY InitDyn, NextDyn, PTL DEF Spec

(* Without pinned addresses no two connections ever have the same address. *)
THEOREM AddressesExclusive ==
    ASSUME FixedIps = {} PROVE Spec => []AddressExclusive
  <1>1. DynInv => AddressExclusive
    BY DEF DynInv, Registered, AddressExclusive
  <1> QED
    BY <1>1, DynInvariant, PTL

(* Without pinned addresses n_sessions is the number of sessions. *)
THEOREM SessionsCounted ==
    ASSUME FixedIps = {} PROVE Spec => []SessionCount
  <1>1. DynInv => SessionCount
    BY DEF DynInv
  <1> QED
    BY <1>1, DynInvariant, PTL

(* Without pinned addresses the pool is exact: no address is leaked by any *)
(* order of requests, failed responses, closes and user changes.           *)
THEOREM PoolNeverLeaks ==
    ASSUME FixedIps = {} PROVE Spec => []PoolExact
  <1>1. ASSUME DynInv PROVE PoolExact
    <2>1. PinnedOffsets = {}
      BY <1>1 DEF DynInv, PinnedOffsets
    <2>2. HeldOffsets \subseteq Table
      <3> SUFFICES ASSUME NEW c \in Conns, conns[c].assigned_ip # 0
                   PROVE  conns[c].assigned_ip \in Table
        BY DEF HeldOffsets
      <3>1. conns[c].assigned_ip \in Offsets
        BY <1>1, PoolSizeAssumption DEF DynInv, SafeInv, TypeOK, Conn, Offsets
      <3>2. sessions[conns[c].assigned_ip] = c /\ c # NoConn
        BY <1>1, NoConnAndZero DEF DynInv, Registered
      <3> QED
        BY <3>1, <3>2 DEF Table
    <2>3. Table \subseteq HeldOffsets
      <3> SUFFICES ASSUME NEW o \in Table PROVE o \in HeldOffsets
        OBVIOUS
      <3>1. o \in Offsets /\ sessions[o] # NoConn
        BY DEF Table
      <3>2. sessions[o] \in Conns /\ conns[sessions[o]].assigned_ip = o /\ o # 0
        BY <1>1, <3>1, NoConnAndZero DEF DynInv, SafeInv, TypeOK, NoDanglingSession
      <3> QED
        BY <3>2 DEF HeldOffsets
    <2> QED
      BY <1>1, <2>1, <2>2, <2>3 DEF DynInv, UsedIsTable, PoolExact
  <1> QED
    BY <1>1, DynInvariant, PTL

-----------------------------------------------------------------------------
(* Without pinned addresses the server implements AddressAssignment *)

Clientside == Offsets \ {1}

(* The holder of an address is the connection in the table. *)
LEMMA HolderIsTable ==
    ASSUME DynInv
    PROVE  Holder = [o \in Clientside |-> sessions[o]]
  <1> SUFFICES ASSUME NEW o \in Clientside
               PROVE  (IF \E c \in Conns : conns[c].assigned_ip = o
                       THEN CHOOSE c \in Conns : conns[c].assigned_ip = o ELSE NoConn) = sessions[o]
    BY DEF Holder, Clientside
  <1>0. o \in Offsets /\ o # 0
    BY NoConnAndZero DEF Clientside
  <1>1. \A c \in Conns : conns[c].assigned_ip = o => c = sessions[o]
    BY <1>0 DEF DynInv, Registered
  <1>2. CASE \E c \in Conns : conns[c].assigned_ip = o
    BY <1>1, <1>2
  <1>3. CASE ~ \E c \in Conns : conns[c].assigned_ip = o
    <2>1. sessions[o] = NoConn
      BY <1>0, <1>3 DEF DynInv, SafeInv, TypeOK, NoDanglingSession
    <2> QED
      BY <1>3, <2>1
  <1> QED
    BY <1>2, <1>3

LEMMA HeldIsTable ==
    ASSUME DynInv
    PROVE  Promise!Held = Table
  <1>1. Promise!Held = {a \in Clientside : Holder[a] # NoConn}
    BY DEF Promise!Held, Clientside
  <1>2. \A a \in Clientside : Holder[a] = sessions[a]
    BY HolderIsTable
  <1>3. 1 \notin Table
    BY DEF DynInv, UsedIsTable
  <1> QED
    BY <1>1, <1>2, <1>3 DEF Table, Clientside

(* A step of the table is a step of AddressAssignment, or none. *)
LEMMA TableStepRefines ==
    ASSUME DynInv, DynInv', TableStep
    PROVE  Promise!Next \/ UNCHANGED Holder
  <1>1. Holder = [o \in Clientside |-> sessions[o]] /\ Holder' = [o \in Clientside |-> sessions'[o]]
    <2>1. Holder = [o \in Clientside |-> sessions[o]]
      BY HolderIsTable
    <2>2. (Holder = [o \in Clientside |-> sessions[o]])'
      BY HolderIsTable, PTL
    <2> QED
      BY <2>1, <2>2 DEF Clientside
  <1>2. CASE UNCHANGED sessions
    BY <1>1, <1>2
  <1>3. ASSUME NEW c \in Conns, NEW ip \in Offsets, Enter(c, ip)
        PROVE  Promise!Next
    <2>1. ip \in Clientside
      BY <1>3 DEF Enter, Clientside
    <2>2. Holder[ip] = NoConn /\ \A b \in Clientside : Holder[b] # c
      BY <1>1, <1>3, <2>1 DEF Enter, Clientside
    <2>3. Cardinality(Promise!Held) < MaxClients
      <3>1. n_sessions = Cardinality(Table) /\ n_sessions < MaxClients
        BY <1>3 DEF Enter, DynInv, SessionCount
      <3> QED
        BY <3>1, HeldIsTable
    <2>4. Holder' = [Holder EXCEPT ![ip] = c]
      <3>1. sessions \in [Offsets -> Conns \cup {NoConn}]
        BY DEF DynInv, SafeInv, TypeOK
      <3>2. sessions' = [sessions EXCEPT ![ip] = c]
        BY <1>3 DEF Enter
      <3> QED
        BY <1>1, <2>1, <3>1, <3>2 DEF Clientside
    <2>5. Promise!Assign(ip, c)
      <3>1. Holder[ip] = NoConn /\ \A b \in Offsets \ {1} : Holder[b] # c
        BY <2>2 DEF Clientside
      <3>2. Promise!Cardinality(Promise!Held) = Cardinality(Promise!Held)
        BY Zenon DEF Promise!Cardinality, Cardinality
      <3> QED
        BY <2>3, <2>4, <3>1, <3>2, Zenon DEF Promise!Assign
    <2> QED
      BY <2>1, <2>5 DEF Promise!Next, Clientside
  <1>4. ASSUME NEW o \in Offsets, Leave(o)
        PROVE  Promise!Next
    <2>1. o \in Clientside
      BY <1>4 DEF Leave, Clientside
    <2>2. Holder[o] # NoConn
      BY <1>1, <1>4, <2>1 DEF Leave
    <2>3. Holder' = [Holder EXCEPT ![o] = NoConn]
      <3>1. sessions \in [Offsets -> Conns \cup {NoConn}]
        BY DEF DynInv, SafeInv, TypeOK
      <3>2. sessions' = [sessions EXCEPT ![o] = NoConn]
        BY <1>4 DEF Leave
      <3> QED
        BY <1>1, <2>1, <3>1, <3>2 DEF Clientside
    <2>4. Promise!GiveBack(o)
      BY <2>2, <2>3 DEF Promise!GiveBack
    <2> QED
      BY <2>1, <2>4 DEF Promise!Next, Clientside
  <1> QED
    BY <1>2, <1>3, <1>4 DEF TableStep

LEMMA InitRefines == Init => Promise!Init
  <1> SUFFICES ASSUME Init PROVE Promise!Init
    OBVIOUS
  <1>1. \A o \in Clientside : ~ \E c \in Conns : conns[c].assigned_ip = o
    BY NewConnType, NoConnAndZero DEF Init, Clientside
  <1>2. Holder = [o \in Clientside |-> NoConn]
    BY <1>1 DEF Holder, Clientside
  <1> QED
    BY <1>2 DEF Promise!Init, Clientside

(* Without fixed addresses the server's tables agree in every reachable    *)
(* state, whatever the pool, the connections and their number.             *)
THEOREM TablesAreExact ==
    ASSUME FixedIps = {} PROVE Spec => []TablesExact
  <1>1. TypeOK /\ NoDanglingSession /\ SessionCount /\ AddressExclusive /\ PoolExact
          => TablesExact
    BY DEF TablesExact
  <1> QED
    BY <1>1, ServerTypeCorrect, SessionsValid, SessionsCounted, AddressesExclusive,
       PoolNeverLeaks, PTL

(* Without pinned addresses the server keeps its promise: an address       *)
(* belongs to one connection until that is closed, and no more than        *)
(* max_clients are out.                                                    *)
THEOREM ServerImplements ==
    ASSUME FixedIps = {} PROVE Spec => KeepsPromise
  <1>1. DynInv /\ [Next]_vars => DynInv' /\ (Promise!Next \/ UNCHANGED Holder)
    BY NextDyn, TableStepRefines
  <1>2. DynInv /\ [Next]_vars => [Promise!Next]_Holder
    BY <1>1
  <1> QED
    BY <1>2, InitRefines, DynInvariant, PTL DEF Spec, KeepsPromise, Promise!Spec

-----------------------------------------------------------------------------
(* With pinned addresses.  A response that fails half-way gives a pinned    *)
(* address back to the pool, and a connection of a pinned user takes the    *)
(* entry of his older one.  Both mar that address, and what follows holds   *)
(* of every address that is not marred.                                     *)

(* Every connection with an address outside S is in the table under it. *)
RegisteredBut(S) ==
    \A c \in Conns : conns[c].assigned_ip \notin S \cup {0} => sessions[conns[c].assigned_ip] = c

CountUntilMarred == marred = {} => SessionCount

PinInv ==
    /\ SafeInv
    /\ RegisteredBut(marred) /\ CountUntilMarred
    /\ PinnedExclusiveBut(marred) /\ HeldIsUsedBut(marred)

LEMMA InitPins == Init => PinInv
  <1> SUFFICES ASSUME Init PROVE PinInv
    OBVIOUS
  <1>1. SafeInv /\ Registered /\ SessionCount /\ pinned_ips = {}
    BY InitDyn DEF DynInv
  <1>2. PinnedExclusiveBut(marred)
    BY <1>1 DEF PinnedExclusiveBut
  <1>3. HeldOffsets = {}
    BY NewConnType DEF Init, HeldOffsets
  <1> QED
    BY <1>1, <1>2, <1>3 DEF PinInv, HeldIsUsedBut, Registered, RegisteredBut, CountUntilMarred

(* No connection has another address, or this one under another name. *)
AddressKept(c) ==
    \/ conns'[c].assigned_ip = 0
    \/ /\ conns'[c].assigned_ip = conns[c].assigned_ip
       /\ conns'[c].username = conns[c].username

(* A set of pins and a set of used addresses that go with the connections,  *)
(* the addresses of bad aside.                                              *)
PinsFit(pins, used, bad) ==
    /\ \A p \in pins : p.offset \notin bad =>
          /\ p.offset \in used
          /\ \A q \in pins : q.offset = p.offset => q.username = p.username
          /\ \A c \in Conns : conns[c].assigned_ip = p.offset => conns[c].username = p.username
    /\ \A c \in Conns : conns[c].assigned_ip \notin bad \cup {0} => conns[c].assigned_ip \in used

LEMMA PinsFitNow ==
    ASSUME PinInv
    PROVE  PinsFit(pinned_ips, pool.used, marred)
  BY DEF PinInv, PinnedExclusiveBut, HeldIsUsedBut, HeldOffsets, PinsFit

LEMMA PinsFitThen ==
    ASSUME PinsFit(pinned_ips, pool.used, marred)'
    PROVE  PinnedExclusiveBut(marred)' /\ HeldIsUsedBut(marred)'
  BY DEF PinsFit, PinnedExclusiveBut, HeldIsUsedBut, HeldOffsets

(* A step that changes no session. *)
LEMMA SessionsKeptPins ==
    ASSUME PinInv, SafeInv', UNCHANGED <<sessions, n_sessions>>, marred \subseteq marred',
           \A c \in Conns : AddressKept(c),
           PinsFit(pinned_ips', pool'.used, marred')
    PROVE  PinInv'
  <1>0. pinned_ips' \subseteq Pin /\ 0 \notin Offsets
    BY NoConnAndZero DEF SafeInv, TypeOK
  <1>1. RegisteredBut(marred)'
    BY DEF PinInv, RegisteredBut, AddressKept
  <1>2. Table' = Table /\ CountUntilMarred'
    BY DEF PinInv, CountUntilMarred, SessionCount, Table
  <1>3. \A p \in pinned_ips' : p.offset # 0
    BY <1>0 DEF Pin
  <1>4. PinsFit(pinned_ips, pool.used, marred)'
    BY <1>3 DEF PinsFit, AddressKept
  <1> QED
    BY <1>1, <1>2, <1>4, PinsFitThen DEF PinInv

(* Giving up the pin of u: what remains fits.  The address is released only *)
(* if u is not connected, and nobody else can have it unless it is marred.  *)
LEMMA PinGivenUp ==
    ASSUME PinInv, NEW u \in Names
    PROVE  /\ PoolWithoutPin(u) \in Pool
           /\ PinsFit(pinned_ips \ PinsOf(u), PoolWithoutPin(u).used, marred)
  <1>0. TypeOK /\ PinsFit(pinned_ips, pool.used, marred) /\ pool \in Pool
    BY PinsFitNow DEF PinInv, SafeInv, TypeOK
  <1>1. PoolWithoutPin(u) \in Pool
    BY <1>0, PoolWithoutPinType
  <1>2. CASE PinsOf(u) # {} /\ ~IsConnected(u)
    <2>1. PICK q \in PinsOf(u) : q = CHOOSE p \in PinsOf(u) : TRUE
      BY <1>2
    <2>2. q \in pinned_ips /\ q.username = u /\ q.offset \in Offsets
      BY <1>0, <2>1 DEF PinsOf, TypeOK, Pin
    <2>3. PoolWithoutPin(u) = Release(pool, q.offset)
      BY <1>2, <2>1 DEF PoolWithoutPin
    <2>4. PoolWithoutPin(u).used = pool.used \ {q.offset}
      BY <1>0, <2>2, <2>3, PoolOperations
    <2>5. \A p \in pinned_ips \ PinsOf(u) :
             p \in pinned_ips /\ (p.offset \notin marred => p.offset # q.offset)
      BY <1>0, <2>2 DEF PinsFit, PinsOf
    <2>6. ASSUME NEW c \in Conns, conns[c].assigned_ip \notin marred
          PROVE  conns[c].assigned_ip # q.offset
      <3> SUFFICES ASSUME conns[c].assigned_ip = q.offset PROVE FALSE
        OBVIOUS
      <3>1. conns[c].username = u
        BY <1>0, <2>2, <2>6 DEF PinsFit
      <3>2. sessions[q.offset] = c
        BY <2>2, <2>6, NoConnAndZero DEF PinInv, RegisteredBut
      <3>3. IsConnected(u)
        BY <2>2, <3>1, <3>2, NoConnAndZero DEF IsConnected
      <3> QED
        BY <1>2, <3>3
    <2> QED
      BY <1>0, <1>1, <2>4, <2>5, <2>6 DEF PinsFit
  <1>3. CASE ~(PinsOf(u) # {} /\ ~IsConnected(u))
    <2>1. PoolWithoutPin(u) = pool
      BY <1>3 DEF PoolWithoutPin
    <2> QED
      BY <1>0, <1>1, <2>1 DEF PinsFit
  <1> QED
    BY <1>2, <1>3

(* mqvpn_server_set_user_fixed_ip *)
LEMMA SetUserFixedIpPins ==
    ASSUME PinInv, SafeInv', NEW u \in Names, NEW o \in FixedIps, SetUserFixedIp(u, o)
    PROVE  PinInv'
  <1> DEFINE pool1 == PoolWithoutPin(u)
             pins1 == pinned_ips \ PinsOf(u)
             pin   == [username |-> u, offset |-> o]
  <1>1. pool1 \in Pool /\ PinsFit(pins1, pool1.used, marred) /\ o \in Offsets
    BY PinGivenUp, ServerAssumption
  <1>2. /\ UNCHANGED <<conns, sessions, n_sessions, marred>>
        /\ \/ pool' = pool1 /\ pinned_ips' = pins1
           \/ /\ CanAllocAt(pool1, o)
              /\ pool' = AllocAt(pool1, o) /\ pinned_ips' = pins1 \cup {pin}
    BY DEF SetUserFixedIp, sessionVars
  <1>3. pin.username = u /\ pin.offset = o
    OBVIOUS
  <1> HIDE DEF pool1, pins1, pin
  <1>4. PinsFit(pinned_ips', pool'.used, marred')
    <2>1. CASE pool' = pool1 /\ pinned_ips' = pins1
      BY <1>1, <1>2, <2>1
    <2>2. CASE CanAllocAt(pool1, o) /\ pool' = AllocAt(pool1, o) /\ pinned_ips' = pins1 \cup {pin}
      <3>1. o \notin pool1.used /\ o # 0 /\ pool'.used = pool1.used \cup {o}
        BY <1>1, <2>2, FreeType, PoolOperations, NoConnAndZero DEF CanAllocAt
      <3>2. \A p \in pins1 : p.offset \notin marred => p.offset # o
        BY <1>1, <3>1 DEF PinsFit
      <3>3. \A c \in Conns : conns[c].assigned_ip \notin marred => conns[c].assigned_ip # o
        BY <1>1, <3>1 DEF PinsFit
      <3> QED
        BY <1>1, <1>2, <1>3, <2>2, <3>1, <3>2, <3>3 DEF PinsFit
    <2> QED
      BY <1>2, <2>1, <2>2
  <1>5. \A c \in Conns : AddressKept(c)
    BY <1>2 DEF AddressKept
  <1> QED
    BY <1>2, <1>4, <1>5, SessionsKeptPins

(* mqvpn_server_set_user_fixed_ip with an empty address *)
LEMMA ClearUserFixedIpPins ==
    ASSUME PinInv, SafeInv', NEW u \in Names, ClearUserFixedIp(u)
    PROVE  PinInv'
  <1>1. /\ pool' = PoolWithoutPin(u) /\ pinned_ips' = pinned_ips \ PinsOf(u)
        /\ UNCHANGED <<conns, sessions, n_sessions, marred>>
    BY DEF ClearUserFixedIp, sessionVars
  <1>2. PinsFit(pinned_ips', pool'.used, marred')
    BY <1>1, PinGivenUp
  <1>3. \A c \in Conns : AddressKept(c)
    BY <1>1 DEF AddressKept
  <1> QED
    BY <1>1, <1>2, <1>3, SessionsKeptPins

(* Closing the sessions of a user leaves their addresses until the close    *)
(* callback.                                                                *)
LEMMA DisconnectKeeps ==
    ASSUME TypeOK, NEW u, conns' = DisconnectSessions(u), NEW c \in Conns
    PROVE  /\ conns'[c].assigned_ip = conns[c].assigned_ip
           /\ conns'[c].username = conns[c].username
           /\ conns[c].closing = 1 => conns'[c].closing = 1
           /\ conns[c].username = u /\ (\E o \in Offsets : sessions[o] = c) => conns'[c].closing = 1
  <1>1. /\ [conns[c] EXCEPT !.closing = 1].assigned_ip = conns[c].assigned_ip
        /\ [conns[c] EXCEPT !.closing = 1].username = conns[c].username
        /\ [conns[c] EXCEPT !.closing = 1].closing = 1
    BY DEF TypeOK, Conn
  <1>2. conns'[c] = IF conns[c].username = u /\ \E o \in Offsets : sessions[o] = c
                    THEN [conns[c] EXCEPT !.closing = 1] ELSE conns[c]
    BY DEF DisconnectSessions
  <1> QED
    BY <1>1, <1>2

(* mqvpn_server_remove_user *)
LEMMA RemoveUserPins ==
    ASSUME PinInv, SafeInv', NEW u \in Names, RemoveUser(u)
    PROVE  PinInv'
  <1>1. /\ pool' = PoolWithoutPin(u) /\ pinned_ips' = pinned_ips \ PinsOf(u)
        /\ conns' = DisconnectSessions(u) /\ UNCHANGED <<sessions, n_sessions, marred>>
    BY DEF RemoveUser
  <1>2. PinsFit(pinned_ips', pool'.used, marred')
    BY <1>1, PinGivenUp
  <1>3. \A c \in Conns : AddressKept(c)
    BY <1>1, DisconnectKeeps DEF AddressKept, PinInv, SafeInv
  <1> QED
    BY <1>1, <1>2, <1>3, SessionsKeptPins

(* An address that a connection has is an offset of the pool. *)
LEMMA AddressIsOffset ==
    ASSUME TypeOK, NEW c \in Conns, conns[c].assigned_ip # 0
    PROVE  conns[c].assigned_ip \in Offsets
  <1>1. conns[c].assigned_ip \in 0 .. PoolSize
    BY DEF TypeOK, Conn
  <1> QED
    BY <1>1, PoolSizeAssumption DEF Offsets

(* cb_h3_conn_close: the address is released unless it is pinned, and only  *)
(* this connection had it, or it is marred.                                 *)
LEMMA H3ConnClosePins ==
    ASSUME PinInv, SafeInv', NEW c \in Conns, H3ConnClose(c)
    PROVE  PinInv'
  <1> DEFINE o == conns[c].assigned_ip
  <1>0. /\ TypeOK /\ SafeInv /\ UNCHANGED <<pinned_ips, marred>> /\ pool \in Pool /\ 0 \notin Offsets
        /\ PinsFit(pinned_ips, pool.used, marred) /\ pinned_ips \subseteq Pin
    BY PinsFitNow, NoConnAndZero DEF PinInv, SafeInv, TypeOK, H3ConnClose
  <1>1. conns'[c].assigned_ip = 0 /\ \A d \in Conns \ {c} : conns'[d] = conns[d]
    BY <1>0, NewConnType, ConnSet DEF H3ConnClose, TypeOK
  <1>2. CASE o = 0
    <2>1. ~HasSession(c)
      BY <1>2 DEF HasSession
    <2>2. UNCHANGED <<sessions, n_sessions, pool>>
      BY <1>2, <2>1 DEF H3ConnClose
    <2>3. \A d \in Conns : AddressKept(d)
      BY <1>1 DEF AddressKept
    <2>4. PinsFit(pinned_ips', pool'.used, marred')
      BY <1>0, <2>2
    <2> QED
      BY <1>0, <2>2, <2>3, <2>4, SessionsKeptPins
  <1>3. CASE o # 0
    <2>1. o \in Offsets
      BY <1>0, <1>3, AddressIsOffset
    <2>2. /\ HasSession(c) => sessions' = [sessions EXCEPT ![o] = NoConn] /\ n_sessions' = n_sessions - 1
          /\ ~HasSession(c) => UNCHANGED <<sessions, n_sessions>>
          /\ IsPinned(o) => pool' = pool
          /\ ~IsPinned(o) => pool' = Release(pool, o)
      BY <1>3 DEF H3ConnClose
    <2>3. o \notin marred => sessions[o] = c /\ HasSession(c)
      BY <1>3 DEF PinInv, RegisteredBut, HasSession
    <2>4. o \notin marred => \A d \in Conns \ {c} : conns[d].assigned_ip # o
      BY <1>3, <2>3 DEF PinInv, RegisteredBut
    <2>5. CountUntilMarred'
      <3> SUFFICES ASSUME marred = {} PROVE SessionCount'
        BY <1>0 DEF CountUntilMarred
      <3>1. Registered /\ SessionCount
        BY DEF PinInv, RegisteredBut, Registered, CountUntilMarred
      <3> HIDE DEF o
      <3> QED
        BY <1>0, <1>1, <2>1, <2>2, <2>3, <3>1, LeaveTable
    <2> HIDE DEF o
    <2>6. \A p \in Offsets \ {o} : sessions'[p] = sessions[p]
      BY <1>0, <2>2 DEF TypeOK
    <2>7. RegisteredBut(marred)'
      <3> SUFFICES ASSUME NEW d \in Conns, conns'[d].assigned_ip \notin marred \cup {0}
                   PROVE  sessions'[conns'[d].assigned_ip] = d
        BY <1>0 DEF RegisteredBut
      <3>1. d # c /\ conns'[d] = conns[d]
        BY <1>1
      <3>2. conns[d].assigned_ip \in Offsets /\ sessions[conns[d].assigned_ip] = d
        BY <1>0, <3>1, AddressIsOffset DEF PinInv, RegisteredBut
      <3>3. conns[d].assigned_ip # o
        BY <2>4, <3>1
      <3> QED
        BY <2>6, <3>1, <3>2, <3>3
    <2>8. pool.used \ {o} \subseteq pool'.used /\ (IsPinned(o) => pool'.used = pool.used)
      BY <1>0, <2>1, <2>2, PoolOperations
    <2>9. \A p \in pinned_ips : p.offset \notin marred => p.offset \in pool'.used
      BY <1>0, <2>8 DEF PinsFit, IsPinned
    <2>10. \A p \in pinned_ips : p.offset # 0
      BY <1>0 DEF Pin
    <2>11. PinsFit(pinned_ips, pool.used, marred)'
      BY <1>0, <1>1, <2>4, <2>8, <2>9, <2>10 DEF PinsFit
    <2> QED
      BY <2>5, <2>7, <2>11, PinsFitThen DEF PinInv
  <1> QED
    BY <1>2, <1>3

(* The address chosen for a user, unless it is marred, is reserved for him  *)
(* or nobody's; only a pinned one is marked used before.                    *)
LEMMA ChoiceFits ==
    ASSUME PinInv, NEW u, ChooseIp(u) # 0
    PROVE  /\ ChooseIp(u) \in Offsets
           /\ PoolAfterChoice(u) \in Pool
           /\ PoolAfterChoice(u).used \ {ChooseIp(u)} = pool.used \ {ChooseIp(u)}
           /\ ChooseIp(u) \notin marred =>
                 /\ ChooseIp(u) \in PoolAfterChoice(u).used
                 /\ \A p \in pinned_ips : p.offset = ChooseIp(u) => p.username = u
  <1> DEFINE ip == ChooseIp(u)
  <1>0. /\ TypeOK /\ pool \in Pool /\ ip \in Offsets /\ PoolAfterChoice(u) \in Pool
        /\ PinsFit(pinned_ips, pool.used, marred)
    BY ChoiceCorrect, PinsFitNow, NoConnAndZero DEF PinInv, SafeInv, TypeOK
  <1>1. CASE u # "" /\ PinsOf(u) # {}
    <2>1. PICK q \in pinned_ips : q.username = u /\ ip = q.offset
      BY <1>0, <1>1, ChoiceCorrect
    <2>2. PoolAfterChoice(u) = pool
      BY <1>0, <1>1, ChoiceCorrect
    <2> HIDE DEF ip
    <2>3. ip \notin marred =>
             ip \in pool.used /\ \A p \in pinned_ips : p.offset = ip => p.username = u
      BY <1>0, <2>1 DEF PinsFit
    <2> QED
      BY <1>0, <2>2, <2>3 DEF ip
  <1>2. CASE ~(u # "" /\ PinsOf(u) # {})
    <2>1. ip \in Free(pool) /\ PoolAfterChoice(u).used = pool.used \cup {ip}
      BY <1>0, <1>2, ChoiceCorrect
    <2> HIDE DEF ip
    <2>2. ip \notin pool.used
      BY <1>0, <2>1, FreeType
    <2>3. ip \notin marred => \A p \in pinned_ips : p.offset # ip
      BY <1>0, <2>2 DEF PinsFit
    <2> QED
      BY <1>0, <2>1, <2>3 DEF ip
  <1> QED
    BY <1>1, <1>2

(* The response of user u fails after the 200. *)
HalfSent(c, u) ==
    /\ ChooseIp(u) # 0
    /\ pool' = Release(PoolAfterChoice(u), ChooseIp(u))
    /\ ChooseIp(u) \in pool.used => ChooseIp(u) \in marred'
    /\ UNCHANGED <<sessions, n_sessions>>

(* The connection of user u is given an address. *)
Admitted(c, u) ==
    /\ ChooseIp(u) # 0
    /\ conns'[c].assigned_ip = ChooseIp(u) /\ conns'[c].username = u
    /\ pool' = PoolAfterChoice(u)
    /\ sessions' = [sessions EXCEPT ![ChooseIp(u)] = c]
    /\ n_sessions' = n_sessions + 1
    /\ ChooseIp(u) \in HeldOffsets => ChooseIp(u) \in marred'

(* What a request can do. *)
LEMMA RequestCases ==
    ASSUME TypeOK, NEW c \in Conns, NEW global,
           NEW n \in Names \cup {""}, NEW sent, ConnectIpRequest(c, global, n, sent)
    PROVE  /\ conns[c].requested = 0 /\ UNCHANGED <<leases, pinned_ips, users>>
           /\ conns' \in [Conns -> Conn] /\ \A d \in Conns \ {c} : conns'[d] = conns[d]
           /\ \/ /\ conns'[c].assigned_ip = conns[c].assigned_ip
                 /\ UNCHANGED <<sessions, n_sessions, pool>>
              \/ /\ conns'[c].assigned_ip = conns[c].assigned_ip
                 /\ HalfSent(c, Identity(global, n))
              \/ Admitted(c, Identity(global, n)) /\ ~(AuthRequired /\ ~AuthCheck(global, n))
  <1> DEFINE u  == Identity(global, n)
             ip == ChooseIp(u)
             cn == [conns[c] EXCEPT !.requested = 1, !.username = u]
             up == [cn EXCEPT !.assigned_ip = ip, !.tunnel_established = 1]
             no == [conns[c] EXCEPT !.requested = 1]
  <1>0. /\ u \in Usernames /\ conns \in [Conns -> Conn] /\ conns[c] \in Conn
        /\ ip \in Offsets \cup {0}
    BY IdentityType, ChoiceCorrect DEF TypeOK
  <1>1. /\ conns[c].requested = 0 /\ UNCHANGED <<leases, pinned_ips, users>>
    BY DEF ConnectIpRequest
  <1>2. /\ cn \in Conn /\ cn.assigned_ip = conns[c].assigned_ip /\ cn.username = u
        /\ no \in Conn /\ no.assigned_ip = conns[c].assigned_ip
    BY <1>0 DEF Conn
  <1>3. ip # 0 => up \in Conn /\ up.assigned_ip = ip /\ up.username = u
    <2>1. ip # 0 => up \in Conn /\ up.assigned_ip = ip
      <3> HIDE DEF cn, ip
      <3> QED
        BY <1>0, <1>2, GrantedConn
    <2>2. up.username = cn.username
      BY <1>2 DEF Conn
    <2> QED
      BY <1>2, <2>1, <2>2
  <1>4. \/ conns' = [conns EXCEPT ![c] = no] /\ UNCHANGED <<sessions, n_sessions, pool>>
        \/ conns' = [conns EXCEPT ![c] = cn] /\ UNCHANGED <<sessions, n_sessions, pool>>
        \/ conns' = [conns EXCEPT ![c] = cn] /\ HalfSent(c, u)
        \/ /\ ip # 0 /\ ~(AuthRequired /\ ~AuthCheck(global, n))
           /\ conns' = [conns EXCEPT ![c] = up]
           /\ pool' = PoolAfterChoice(u)
           /\ sessions' = [sessions EXCEPT ![ip] = c] /\ n_sessions' = n_sessions + 1
           /\ ip \in HeldOffsets => ip \in marred'
    BY DEF ConnectIpRequest, MasqueSendResponse, HalfSent
  <1> HIDE DEF u, ip, cn, up, no
  <1>5. CASE conns' = [conns EXCEPT ![c] = no] /\ UNCHANGED <<sessions, n_sessions, pool>>
    BY <1>0, <1>1, <1>2, <1>5, ConnSet
  <1>6. CASE conns' = [conns EXCEPT ![c] = cn] /\ UNCHANGED <<sessions, n_sessions, pool>>
    BY <1>0, <1>1, <1>2, <1>6, ConnSet
  <1>7. CASE conns' = [conns EXCEPT ![c] = cn] /\ HalfSent(c, u)
    BY <1>0, <1>1, <1>2, <1>7, ConnSet DEF u
  <1>8. CASE /\ ip # 0 /\ ~(AuthRequired /\ ~AuthCheck(global, n))
             /\ conns' = [conns EXCEPT ![c] = up]
             /\ pool' = PoolAfterChoice(u)
             /\ sessions' = [sessions EXCEPT ![ip] = c] /\ n_sessions' = n_sessions + 1
             /\ ip \in HeldOffsets => ip \in marred'
    <2>1. /\ conns' \in [Conns -> Conn] /\ conns'[c] = up
          /\ \A d \in Conns \ {c} : conns'[d] = conns[d]
      BY <1>0, <1>3, <1>8, ConnSet
    <2>2. conns'[c].assigned_ip = ip /\ conns'[c].username = u
      BY <1>3, <1>8, <2>1
    <2> QED
      BY <1>1, <1>8, <2>1, <2>2 DEF Admitted, ip, u
  <1> QED
    BY <1>4, <1>5, <1>6, <1>7, <1>8

(* A connection that is given an address. *)
LEMMA AdmittedPins ==
    ASSUME PinInv, SafeInv', NEW c \in Conns, NEW u, Admitted(c, u), conns[c].requested = 0,
           pinned_ips' = pinned_ips, marred \subseteq marred',
           \A d \in Conns \ {c} : conns'[d] = conns[d]
    PROVE  PinInv'
  <1> DEFINE ip == ChooseIp(u)
  <1>0. /\ TypeOK /\ SafeInv /\ PinsFit(pinned_ips, pool.used, marred)
        /\ RegisteredBut(marred) /\ CountUntilMarred
    BY PinsFitNow DEF PinInv, SafeInv
  <1>1. /\ ip # 0 /\ conns'[c].assigned_ip = ip /\ conns'[c].username = u
        /\ pool' = PoolAfterChoice(u)
        /\ sessions' = [sessions EXCEPT ![ip] = c] /\ n_sessions' = n_sessions + 1
        /\ ip \in HeldOffsets => ip \in marred'
    BY DEF Admitted
  <1>2. /\ ip \in Offsets /\ pool'.used \ {ip} = pool.used \ {ip}
        /\ ip \notin marred => /\ ip \in pool'.used
                               /\ \A p \in pinned_ips : p.offset = ip => p.username = u
    BY <1>1, ChoiceFits
  <1> HIDE DEF ip
  <1>3. ip \notin marred' => \A d \in Conns : conns[d].assigned_ip # ip
    BY <1>1 DEF HeldOffsets
  <1>4. ip \notin marred' => sessions[ip] = NoConn
    BY <1>0, <1>2, <1>3 DEF SafeInv, NoDanglingSession, TypeOK
  <1>5. sessions'[ip] = c /\ \A o \in Offsets \ {ip} : sessions'[o] = sessions[o]
    BY <1>0, <1>1, <1>2 DEF TypeOK
  <1>6. RegisteredBut(marred)'
    <2> SUFFICES ASSUME NEW d \in Conns, conns'[d].assigned_ip \notin marred' \cup {0}
                 PROVE  sessions'[conns'[d].assigned_ip] = d
      BY DEF RegisteredBut
    <2>1. CASE d = c
      BY <1>1, <1>5, <2>1
    <2>2. CASE d # c
      <3>1. conns'[d] = conns[d] /\ conns[d].assigned_ip \notin marred \cup {0}
        BY <2>2
      <3>2. sessions[conns[d].assigned_ip] = d /\ conns[d].assigned_ip \in Offsets
        BY <1>0, <3>1, AddressIsOffset DEF RegisteredBut
      <3>3. conns[d].assigned_ip # ip
        BY <1>3, <3>1
      <3> QED
        BY <1>5, <3>1, <3>2, <3>3
    <2> QED
      BY <2>1, <2>2
  <1>7. CountUntilMarred'
    <2> SUFFICES ASSUME marred' = {} PROVE SessionCount'
      BY DEF CountUntilMarred
    <2>1. marred = {} /\ sessions[ip] = NoConn
      BY <1>4
    <2>2. Registered /\ SessionCount
      BY <1>0, <2>1 DEF RegisteredBut, Registered, CountUntilMarred
    <2> QED
      BY <1>0, <1>1, <1>2, <2>1, <2>2, EnterTable
  <1>8. ASSUME NEW p \in pinned_ips, p.offset \notin marred'
        PROVE  /\ p.offset \in pool'.used
               /\ \A q \in pinned_ips : q.offset = p.offset => q.username = p.username
               /\ \A d \in Conns : conns'[d].assigned_ip = p.offset
                                     => conns'[d].username = p.username
    <2>0. p.offset \notin marred
      BY <1>8
    <2>1. /\ p.offset \in pool.used
          /\ \A q \in pinned_ips : q.offset = p.offset => q.username = p.username
          /\ \A d \in Conns : conns[d].assigned_ip = p.offset => conns[d].username = p.username
      BY <1>0, <2>0 DEF PinsFit
    <2>2. p.offset \in pool'.used
      BY <1>2, <2>0, <2>1
    <2>3. conns'[c].assigned_ip = p.offset => conns'[c].username = p.username
      BY <1>1, <1>2, <2>0
    <2>4. \A d \in Conns \ {c} : conns'[d].assigned_ip = p.offset => conns'[d].username = p.username
      BY <2>1
    <2> QED
      BY <2>1, <2>2, <2>3, <2>4
  <1>9. ASSUME NEW d \in Conns, conns'[d].assigned_ip \notin marred' \cup {0}
        PROVE  conns'[d].assigned_ip \in pool'.used
    <2>1. CASE d = c
      BY <1>1, <1>2, <1>9, <2>1
    <2>2. CASE d # c
      <3>1. conns'[d] = conns[d] /\ conns[d].assigned_ip \in pool.used
        BY <1>0, <1>9, <2>2 DEF PinsFit
      <3>2. conns[d].assigned_ip # ip
        BY <1>3, <1>9, <3>1
      <3> QED
        BY <1>2, <3>1, <3>2
    <2> QED
      BY <2>1, <2>2
  <1>10. PinsFit(pinned_ips, pool.used, marred)'
    BY <1>8, <1>9 DEF PinsFit
  <1> QED
    BY <1>6, <1>7, <1>10, PinsFitThen DEF PinInv

(* A response that fails half-way: the address goes back to the pool.  If   *)
(* it was reserved before, it is marred.                                    *)
LEMMA HalfSentFits ==
    ASSUME PinInv, NEW c \in Conns, NEW u, HalfSent(c, u), marred \subseteq marred'
    PROVE  PinsFit(pinned_ips, pool'.used, marred')
  <1> DEFINE ip == ChooseIp(u)
  <1>0. PinsFit(pinned_ips, pool.used, marred)
    BY PinsFitNow
  <1>1. /\ ip # 0 /\ pool' = Release(PoolAfterChoice(u), ip)
        /\ ip \in pool.used => ip \in marred'
    BY DEF HalfSent
  <1>2. /\ ip \in Offsets /\ PoolAfterChoice(u) \in Pool
        /\ PoolAfterChoice(u).used \ {ip} = pool.used \ {ip}
    BY <1>1, ChoiceFits
  <1> HIDE DEF ip
  <1>3. pool'.used = pool.used \ {ip}
    BY <1>1, <1>2, PoolOperations
  <1>4. pool.used \ marred' \subseteq pool'.used
    BY <1>1, <1>3
  <1> QED
    BY <1>0, <1>4 DEF PinsFit

(* svr_connect_ip_on_request *)
LEMMA ConnectIpRequestPins ==
    ASSUME PinInv, SafeInv', NEW c \in Conns, NEW global,
           NEW n \in Names \cup {""}, NEW sent, ConnectIpRequest(c, global, n, sent)
    PROVE  PinInv'
  <1> DEFINE u == Identity(global, n)
  <1>0. TypeOK /\ marred \subseteq marred' /\ PinsFit(pinned_ips, pool.used, marred)
    BY PinsFitNow, RequestMars DEF PinInv, SafeInv
  <1>1. /\ conns[c].requested = 0 /\ pinned_ips' = pinned_ips
        /\ \A d \in Conns \ {c} : conns'[d] = conns[d]
        /\ \/ /\ conns'[c].assigned_ip = conns[c].assigned_ip
              /\ UNCHANGED <<sessions, n_sessions, pool>>
           \/ conns'[c].assigned_ip = conns[c].assigned_ip /\ HalfSent(c, u)
           \/ Admitted(c, u)
    BY <1>0, RequestCases
  <1> HIDE DEF u
  <1>2. ASSUME conns'[c].assigned_ip = conns[c].assigned_ip
        PROVE  \A d \in Conns : AddressKept(d)
    BY <1>1, <1>2 DEF PinInv, SafeInv, AddressNeedsRequest, AddressKept
  <1>3. CASE conns'[c].assigned_ip = conns[c].assigned_ip /\ UNCHANGED <<sessions, n_sessions, pool>>
    <2>1. PinsFit(pinned_ips', pool'.used, marred')
      BY <1>0, <1>1, <1>3 DEF PinsFit
    <2> QED
      BY <1>0, <1>2, <1>3, <2>1, SessionsKeptPins
  <1>4. CASE conns'[c].assigned_ip = conns[c].assigned_ip /\ HalfSent(c, u)
    <2>1. PinsFit(pinned_ips', pool'.used, marred')
      BY <1>0, <1>1, <1>4, HalfSentFits
    <2>2. UNCHANGED <<sessions, n_sessions>>
      BY <1>4 DEF HalfSent
    <2> QED
      BY <1>0, <1>2, <1>4, <2>1, <2>2, SessionsKeptPins
  <1>5. CASE Admitted(c, u)
    BY <1>0, <1>1, <1>5, AdmittedPins
  <1> QED
    BY <1>1, <1>3, <1>4, <1>5

LEMMA NextPins ==
    ASSUME PinInv, [Next]_vars
    PROVE  PinInv'
  <1>0. SafeInv' /\ TypeOK /\ PinsFit(pinned_ips, pool.used, marred)
    BY NextSafe, PinsFitNow DEF PinInv, SafeInv
  <1>1. ASSUME UNCHANGED <<sessions, n_sessions, pool, pinned_ips, marred>>,
               \A c \in Conns : AddressKept(c)
        PROVE  PinInv'
    <2>1. PinsFit(pinned_ips', pool'.used, marred')
      BY <1>0, <1>1
    <2> QED
      BY <1>0, <1>1, <2>1, SessionsKeptPins
  <1>2. ASSUME NEW c \in Conns, H3ConnCreate(c) PROVE PinInv'
    <2>1. /\ UNCHANGED <<sessions, n_sessions, pool, pinned_ips, marred>>
          /\ conns' = [conns EXCEPT ![c] = NewConn(1)]
      BY <1>2 DEF H3ConnCreate, addressVars
    <2>2. \A d \in Conns : AddressKept(d)
      BY <1>0, <2>1, NewConnType, ConnSet DEF AddressKept, TypeOK
    <2> QED
      BY <1>1, <2>1, <2>2
  <1>3. ASSUME NEW c \in Conns, NEW global \in {0, AuthKey}, NEW n \in Names \cup {""},
               NEW sent \in {"all", "headers", "nothing"}, ConnectIpRequest(c, global, n, sent)
        PROVE  PinInv'
    BY <1>0, <1>3, ConnectIpRequestPins
  <1>4. ASSUME NEW c \in Conns, RequestClose(c) PROVE PinInv'
    <2>1. UNCHANGED <<sessions, n_sessions, pool, pinned_ips, marred>>
      BY <1>4 DEF RequestClose, addressVars
    <2>2. \A d \in Conns : AddressKept(d)
      BY <1>0, <1>4 DEF RequestClose, AddressKept, TypeOK, Conn
    <2> QED
      BY <1>1, <2>1, <2>2
  <1>5. ASSUME NEW c \in Conns, H3ConnClose(c) PROVE PinInv'
    BY <1>0, <1>5, H3ConnClosePins
  <1>6. ASSUME NEW u \in Names, AddUser(u) PROVE PinInv'
    <2>1. UNCHANGED <<conns, sessions, n_sessions, pool, pinned_ips, marred>>
      BY <1>6 DEF AddUser, sessionVars, addressVars
    <2>2. \A d \in Conns : AddressKept(d)
      BY <2>1 DEF AddressKept
    <2> QED
      BY <1>1, <2>1, <2>2
  <1>7. ASSUME NEW u \in Names, RemoveUser(u) PROVE PinInv'
    BY <1>0, <1>7, RemoveUserPins
  <1>8. ASSUME NEW u \in Names, ClearUserFixedIp(u) PROVE PinInv'
    BY <1>0, <1>8, ClearUserFixedIpPins
  <1>9. ASSUME NEW u \in Names, NEW o \in FixedIps, SetUserFixedIp(u, o) PROVE PinInv'
    BY <1>0, <1>9, SetUserFixedIpPins
  <1>10. CASE UNCHANGED vars
    <2>1. UNCHANGED <<conns, sessions, n_sessions, pool, pinned_ips, marred>>
      BY <1>10 DEF vars, sessionVars, addressVars
    <2>2. \A d \in Conns : AddressKept(d)
      BY <2>1 DEF AddressKept
    <2> QED
      BY <1>1, <2>1, <2>2
  <1> QED
    BY <1>2, <1>3, <1>4, <1>5, <1>6, <1>7, <1>8, <1>9, <1>10 DEF Next

(* The inductive invariant behind PinsAreSafe: every connection with an     *)
(* address that is not marred is in the table of cb_h3_conn_close under it, *)
(* whatever the order of requests, failing responses, overlapping           *)
(* connections, closes and changes of fixed addresses.                      *)
THEOREM PinInvariant == Spec => []PinInv
  BY InitPins, NextPins, PTL DEF Spec

(* Fixed addresses that mqvpn_server_set_user_fixed_ip and remove_user set, *)
(* move and take back while clients connect, fail half-way, connect again   *)
(* and leave: what a half-failed response or a second connection of a       *)
(* pinned user does wrong stays with that address.  Every other pinned one  *)
(* is its user's alone and nothing in use can be given away, with any       *)
(* users, connections, pool and keys.                                       *)
THEOREM PinsAreSafe == Spec => []PinsSafe
  <1>1. PinInv => PinsSafe
    BY DEF PinInv, SafeInv, LeaseInv, CountCovers, CountUntilMarred, PinsSafe
  <1> QED
    BY <1>1, PinInvariant, PTL

-----------------------------------------------------------------------------
(* Removed users *)

(* Without a global key a connection is given an address under the name of *)
(* a configured user, or under no name.                                    *)
LEMMA NamedIsUser ==
    ASSUME AuthKey = 0, NEW global \in {0, AuthKey}, NEW n,
           ~(AuthRequired /\ ~AuthCheck(global, n))
    PROVE  Identity(global, n) = "" \/ Identity(global, n) \in users
  <1>1. global # 1 /\ AuthKey # 1
    OBVIOUS
  <1> QED
    BY <1>1 DEF Identity, AuthCheck, AuthRequired

(* The connections that remove_user is to find. *)
Reachable(c) == HasSession(c) \/ conns[c].assigned_ip \notin marred

(* A step that removes no user, enters no connection of a removed one and   *)
(* gives none its place in the table back.                                  *)
LEMMA UsersKept ==
    ASSUME RemovedUserDisconnected, users \subseteq users',
           \A c \in Conns : \/ conns'[c].assigned_ip = 0
                            \/ conns'[c].username \notin Names \ users'
                            \/ /\ conns'[c].assigned_ip = conns[c].assigned_ip
                               /\ conns'[c].username = conns[c].username
                               /\ conns'[c].closing = conns[c].closing
                               /\ Reachable(c)' => Reachable(c)
    PROVE  RemovedUserDisconnected'
  <1> SUFFICES ASSUME NEW c \in Conns, conns'[c].assigned_ip # 0,
                      conns'[c].username \in Names \ users', Reachable(c)'
               PROVE  conns'[c].closing = 1
    BY DEF RemovedUserDisconnected, Reachable
  <1>1. /\ conns'[c].assigned_ip = conns[c].assigned_ip
        /\ conns'[c].username = conns[c].username
        /\ conns'[c].closing = conns[c].closing
        /\ Reachable(c)
    OBVIOUS
  <1>2. conns[c].assigned_ip # 0 /\ conns[c].username \in Names \ users
    BY <1>1
  <1> QED
    BY <1>1, <1>2 DEF RemovedUserDisconnected, Reachable

(* A connection of an earlier step is found later only if it was before. *)
LEMMA ReachableKept ==
    ASSUME NEW c \in Conns, TypeOK, conns'[c].assigned_ip = conns[c].assigned_ip,
           conns[c].assigned_ip # 0, marred \subseteq marred',
           \A o \in Offsets : sessions'[o] = c => sessions[o] = c
    PROVE  Reachable(c)' => Reachable(c)
  <1>1. conns[c].assigned_ip \in Offsets
    BY AddressIsOffset
  <1> QED
    BY <1>1 DEF Reachable, HasSession

LEMMA RemoveUserDisconnects ==
    ASSUME PinInv, RemovedUserDisconnected, NEW u \in Names, RemoveUser(u)
    PROVE  RemovedUserDisconnected'
  <1>0. /\ TypeOK /\ conns' = DisconnectSessions(u) /\ users' = users \ {u}
        /\ UNCHANGED <<sessions, marred>>
    BY DEF PinInv, SafeInv, RemoveUser
  <1> SUFFICES ASSUME NEW c \in Conns, conns'[c].assigned_ip # 0,
                      conns'[c].username \in Names \ users', Reachable(c)'
               PROVE  conns'[c].closing = 1
    BY DEF RemovedUserDisconnected, Reachable
  <1>1. /\ conns'[c].assigned_ip = conns[c].assigned_ip /\ conns[c].assigned_ip # 0
        /\ conns'[c].username = conns[c].username
    BY <1>0, DisconnectKeeps
  <1>2. Reachable(c)
    BY <1>0, <1>1, ReachableKept
  <1>3. CASE conns[c].username = u
    <2>1. sessions[conns[c].assigned_ip] = c
      BY <1>1, <1>2 DEF PinInv, RegisteredBut, Reachable, HasSession
    <2>2. conns[c].assigned_ip \in Offsets
      BY <1>0, <1>1, AddressIsOffset
    <2> QED
      BY <1>0, <1>3, <2>1, <2>2, DisconnectKeeps
  <1>4. CASE conns[c].username # u
    <2>1. conns[c].username \in Names \ users
      BY <1>0, <1>1, <1>4
    <2>2. conns[c].closing = 1
      BY <1>1, <1>2, <2>1 DEF RemovedUserDisconnected, Reachable
    <2> QED
      BY <1>0, <2>2, DisconnectKeeps
  <1> QED
    BY <1>3, <1>4

LEMMA NextRemoved ==
    ASSUME AuthKey = 0, PinInv, RemovedUserDisconnected, [Next]_vars
    PROVE  RemovedUserDisconnected'
  <1>0. TypeOK /\ SafeInv
    BY DEF PinInv, SafeInv
  <1>a. ASSUME NEW c \in Conns, conns'[c].assigned_ip = 0, users' = users, marred \subseteq marred',
               \A d \in Conns \ {c} : conns'[d] = conns[d],
               \A d \in Conns \ {c}, o \in Offsets : sessions'[o] = d => sessions[o] = d
        PROVE  RemovedUserDisconnected'
    BY <1>0, <1>a, ReachableKept, UsersKept
  <1>b. ASSUME UNCHANGED <<sessions, marred>>, users \subseteq users',
               \A d \in Conns : /\ conns'[d].assigned_ip = conns[d].assigned_ip
                                /\ conns'[d].username = conns[d].username
                                /\ conns'[d].closing = conns[d].closing
        PROVE  RemovedUserDisconnected'
    BY <1>0, <1>b, ReachableKept, UsersKept
  <1>1. ASSUME NEW c \in Conns, H3ConnCreate(c) PROVE RemovedUserDisconnected'
    <2>1. /\ UNCHANGED <<users, sessions, marred>> /\ conns'[c].assigned_ip = 0
          /\ \A d \in Conns \ {c} : conns'[d] = conns[d]
      BY <1>0, <1>1, NewConnType, ConnSet DEF H3ConnCreate, TypeOK
    <2> QED
      BY <1>a, <2>1
  <1>2. ASSUME NEW c \in Conns, NEW global \in {0, AuthKey}, NEW n \in Names \cup {""},
               NEW sent \in {"all", "headers", "nothing"}, ConnectIpRequest(c, global, n, sent)
        PROVE  RemovedUserDisconnected'
    <2> DEFINE u == Identity(global, n)
    <2>1. /\ conns[c].assigned_ip = 0 /\ users' = users /\ marred \subseteq marred'
          /\ \A d \in Conns \ {c} : conns'[d] = conns[d]
          /\ \/ conns'[c].assigned_ip = 0 /\ UNCHANGED sessions
             \/ Admitted(c, u) /\ ~(AuthRequired /\ ~AuthCheck(global, n))
      BY <1>0, <1>2, RequestCases, RequestMars DEF SafeInv, AddressNeedsRequest, HalfSent
    <2>2. CASE conns'[c].assigned_ip = 0 /\ UNCHANGED sessions
      BY <1>a, <2>1, <2>2
    <2>3. CASE Admitted(c, u) /\ ~(AuthRequired /\ ~AuthCheck(global, n))
      <3>1. u = "" \/ u \in users
        BY <2>3, NamedIsUser
      <3> HIDE DEF u
      <3>2. conns'[c].username = u
        BY <2>3 DEF Admitted
      <3>3. conns'[c].username \notin Names \ users'
        BY <2>1, <3>1, <3>2, ServerAssumption
      <3>4. \A d \in Conns \ {c}, o \in Offsets : sessions'[o] = d => sessions[o] = d
        BY <1>0, <2>3 DEF Admitted, TypeOK
      <3> QED
        BY <1>0, <2>1, <3>3, <3>4, ReachableKept, UsersKept
    <2> QED
      BY <2>1, <2>2, <2>3
  <1>3. ASSUME NEW c \in Conns, RequestClose(c) PROVE RemovedUserDisconnected'
    <2>1. \A d \in Conns : /\ conns'[d].assigned_ip = conns[d].assigned_ip
                           /\ conns'[d].username = conns[d].username
                           /\ conns'[d].closing = conns[d].closing
      BY <1>0, <1>3 DEF RequestClose, TypeOK, Conn
    <2> QED
      BY <1>b, <1>3, <2>1 DEF RequestClose
  <1>4. ASSUME NEW c \in Conns, H3ConnClose(c) PROVE RemovedUserDisconnected'
    <2>1. /\ UNCHANGED <<users, marred>> /\ conns'[c].assigned_ip = 0
          /\ \A d \in Conns \ {c} : conns'[d] = conns[d]
      BY <1>0, <1>4, NewConnType, ConnSet DEF H3ConnClose, TypeOK
    <2>2. \A d \in Conns \ {c}, o \in Offsets : sessions'[o] = d => sessions[o] = d
      BY <1>0, <1>4, NoConnAndZero DEF H3ConnClose, TypeOK
    <2> QED
      BY <1>a, <2>1, <2>2
  <1>5. ASSUME NEW u \in Names, AddUser(u) PROVE RemovedUserDisconnected'
    BY <1>b, <1>5 DEF AddUser, sessionVars
  <1>6. ASSUME NEW u \in Names, RemoveUser(u) PROVE RemovedUserDisconnected'
    BY <1>6, RemoveUserDisconnects
  <1>7. ASSUME NEW u \in Names, ClearUserFixedIp(u) PROVE RemovedUserDisconnected'
    BY <1>b, <1>7 DEF ClearUserFixedIp, sessionVars
  <1>8. ASSUME NEW u \in Names, NEW o \in FixedIps, SetUserFixedIp(u, o)
        PROVE  RemovedUserDisconnected'
    BY <1>b, <1>8 DEF SetUserFixedIp, sessionVars
  <1>9. CASE UNCHANGED vars
    BY <1>b, <1>9 DEF vars, sessionVars
  <1> QED
    BY <1>1, <1>2, <1>3, <1>4, <1>5, <1>6, <1>7, <1>8, <1>9 DEF Next

(* mqvpn_server_remove_user: without a global key nobody keeps a tunnel     *)
(* under the name of a user who was removed.  The sessions it closes are    *)
(* all there are, because a connection with an address is in the table,     *)
(* also while others of the same user fail, overlap and close; only the     *)
(* older one of two at a marred address is missed.                          *)
THEOREM RemovedAreDisconnected ==
    ASSUME AuthKey = 0 PROVE Spec => []RemovedUserDisconnected
  <1>1. Init => RemovedUserDisconnected
    BY NewConnType DEF Init, RemovedUserDisconnected
  <1>2. PinInv /\ RemovedUserDisconnected /\ [Next]_vars => RemovedUserDisconnected'
    BY NextRemoved
  <1> QED
    BY <1>1, <1>2, PinInvariant, PTL DEF Spec
=============================================================================
