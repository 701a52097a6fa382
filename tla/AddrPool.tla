------------------------------ MODULE AddrPool ------------------------------
(***************************************************************************)
(* The address pool of the server (src/addr_pool.c) as operators on a pool *)
(* record: used is the set of the offsets whose flag is set, next the      *)
(* offset the search starts from.  Offset 1 is the server's address.  The  *)
(* IPv6 address of a client has the offset of its IPv4 address, so one     *)
(* offset stands for both.                                                 *)
(***************************************************************************)
EXTENDS Integers

CONSTANT PoolSize       \* pool->pool_size

ASSUME PoolSizeAssumption == PoolSize \in Nat \ {0, 1}

Offsets == 1 .. PoolSize
Pool    == [used : SUBSET Offsets, next : 1 .. PoolSize + 1]

(* mqvpn_addr_pool_init *)
PoolInit == [used |-> {}, next |-> 2]

(* Offsets that can be given out: the server's is not one of them. *)
Free(pool) == (2 .. PoolSize) \ pool.used

(* The offset mqvpn_addr_pool_alloc finds: the first free one in a walk    *)
(* that starts at next and wraps.  0 is "exhausted".                       *)
AllocOffset(pool) ==
    IF Free(pool) = {} THEN 0
    ELSE CHOOSE o \in Free(pool) :
            \A p \in Free(pool) : (o - pool.next) % PoolSize <= (p - pool.next) % PoolSize

(* mqvpn_addr_pool_alloc *)
Alloc(pool) ==
    LET o == AllocOffset(pool)
    IN  IF o = 0 THEN pool ELSE [used |-> pool.used \cup {o}, next |-> o + 1]

(* mqvpn_addr_pool_alloc_at: when it succeeds, and what it does then. *)
CanAllocAt(pool, o) == o \in Free(pool)

AllocAt(pool, o) == [pool EXCEPT !.used = @ \cup {o}]

(* Mutant: the last address is not released. *)
ReleaseBelowLast(pool, o) ==
    IF o \in Offsets /\ o < PoolSize THEN [pool EXCEPT !.used = @ \ {o}] ELSE pool

(* mqvpn_addr_pool_release *)
Release(pool, o) == IF o \in Offsets THEN [pool EXCEPT !.used = @ \ {o}] ELSE pool
=============================================================================
