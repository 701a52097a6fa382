------------------------------ MODULE ReorderRx ------------------------------
(***************************************************************************)
(* The receive side of the reorder shim, src/src/reorder_rx.c.  Datagrams  *)
(* of one inner flow carry a sequence number; the engine delivers them in  *)
(* order, holds the ones that arrive early in a ring indexed by sequence   *)
(* number, and gives up on a missing one when the gap timer fires or space *)
(* runs out.  One engine serves many flows, which share a pool of bytes.   *)
(*                                                                         *)
(* Clocks are left out.  Whether a deadline has passed, a flow has been    *)
(* idle for long enough or is the least recently used one is an input of   *)
(* the step that asks, so every timing the clock allows is covered.        *)
(***************************************************************************)
EXTENDS Integers, FiniteSets, Sequences, FiniteSetsExt

CONSTANTS
    Keys,            \* inner five-tuples
    ZeroWait,        \* keys whose rule resolves to wait 0: never reordered
    MaxSeq,          \* bound: sequence numbers a peer puts on the wire
    Lens,            \* lengths of inner packets
    HdrLen,          \* IP and UDP headers of an inner packet
    Cap,             \* cap_packets_per_flow
    MaxFlows,        \* max_flows, 0 for no limit
    FlowBytes,       \* max_buffer_bytes_per_flow
    PoolBytes,       \* global_max_buffer_bytes
    Window,          \* classify_window, 0 for no demotion
    MaxLarge,        \* ack_demote_max_large_packets
    SmallThreshold   \* small_packet_threshold_bytes

Seqs  == 0..MaxSeq
Sizes == {w \in 1..Cap : \E n \in 0..Cap : w = 2^n}

ASSUME ReorderAssumption ==
    /\ ZeroWait \subseteq Keys
    /\ MaxSeq \in Nat /\ MaxFlows \in Nat /\ FlowBytes \in Nat /\ PoolBytes \in Nat
    /\ Window \in Nat /\ MaxLarge \in Nat /\ HdrLen \in Nat /\ SmallThreshold \in Nat
    /\ Lens \subseteq Nat \ {0}
    /\ Cap \in Nat \ {0} /\ Cap \in Sizes

VARIABLES
    table,   \* the keys that have a flow
    flow,    \* the flow of each key; NewFlow where there is none
    pool,    \* pool_bytes_used
    out      \* what the last step delivered for each key, in order

vars == <<table, flow, pool, out>>

-----------------------------------------------------------------------------
(* The ring.  A slot of length 0 has no packet; slots past size are unused. *)

Index == 0..(Cap - 1)
Slot  == [seq : Nat, len : Nat]
Empty == [seq |-> 0, len |-> 0]
Ring  == [size : Sizes \union {0}, slots : [Index -> Slot], count : Int, bytes : Int]

NewRing == [size |-> 0, slots |-> [i \in Index |-> Empty], count |-> 0, bytes |-> 0]

Occupied(r) == {i \in Index : r.slots[i].len > 0}
Held(r)     == {r.slots[i].seq : i \in Occupied(r)}

RingContains(r, s) ==
    /\ r.size > 0
    /\ r.slots[s % r.size].len > 0
    /\ r.slots[s % r.size].seq = s

FarAhead(s, expected) == s - expected >= Cap

(* The size doubles until it covers the span or reaches the cap. *)
GrownSize(r, span) ==
    Min({w \in Sizes : w >= r.size /\ (w > span \/ w = Cap)})

(* Every packet moves to its place in the larger array; of two packets for *)
(* one place the later one stays.                                          *)
Rehashed(r, size) ==
    [i \in Index |->
        LET from == {j \in Occupied(r) : r.slots[j].seq % size = i}
        IN  IF from = {} THEN Empty ELSE r.slots[Max(from)]]

(* Mutant: the packets stay where they were in the smaller array. *)
GrowInPlace(r, span) ==
    IF r.size > span THEN r ELSE [r EXCEPT !.size = GrownSize(r, span)]

GrowToCover(r, span) ==
    IF r.size > span
    THEN r
    ELSE LET size == GrownSize(r, span)
         IN  [r EXCEPT !.size = size, !.slots = Rehashed(r, size)]

RingInsert(r, s, len, expected) ==
    LET g == GrowToCover(r, s - expected)
    IN  [g EXCEPT !.slots[s % g.size] = [seq |-> s, len |-> len],
                  !.count = @ + 1, !.bytes = @ + len]

(* The packets of the sequence numbers in S leave the ring. *)
BytesOf(r, S) ==
    SumFunction([s \in S |-> r.slots[s % r.size].len])

RingRemove(r, S) ==
    [r EXCEPT !.slots = [i \in Index |-> IF i \in Occupied(r) /\ @[i].seq \in S
                                         THEN Empty ELSE @[i]],
              !.count = @ - Cardinality(S),
              !.bytes = @ - BytesOf(r, S)]

LowestSeq(r, expected) ==
    LET found == {s \in expected..(expected + r.size - 1) : RingContains(r, s)}
    IN  IF found = {} THEN expected ELSE Min(found)

-----------------------------------------------------------------------------
(* A flow.  gaps is gap_count less the five counters of ended periods. *)

Flow == [initialized : BOOLEAN, expected : Nat, buffer : Ring, timer : BOOLEAN,
         pass_through : BOOLEAN, seen : Nat, large : Nat, gaps : Int]

NewFlow == [initialized |-> FALSE, expected |-> 0, buffer |-> NewRing,
            timer |-> FALSE, pass_through |-> FALSE, seen |-> 0, large |-> 0,
            gaps |-> 0]

(* A step on one flow works on x: the flow f, the pool, what has been      *)
(* delivered so far and what became of the packet (result).                *)

ArmTimer(x)  == [x EXCEPT !.f.timer = TRUE, !.f.gaps = @ + 1]
StopTimer(x) == [x EXCEPT !.f.timer = FALSE]

(* The period in progress, if any, is over and is charged to a counter. *)
EndPeriod(x) ==
    [StopTimer(x) EXCEPT !.f.gaps = IF x.f.timer THEN @ - 1 ELSE @]

PoolRelease(p, n) == IF p >= n THEN p - n ELSE 0

DeliverCurrent(x, s) ==
    [x EXCEPT !.out = Append(@, s), !.f.expected = s + 1]

(* The numbers of S in the order in which the loops hand them up. *)
Ascending(S) ==
    CHOOSE q \in [1..Cardinality(S) -> S] : \A i, j \in DOMAIN q : i < j => q[i] < q[j]

(* The packets of S are delivered in ascending order and expected follows. *)
DeliverHeld(x, S) ==
    IF S = {} THEN x
    ELSE [x EXCEPT !.out = @ \o Ascending(S),
                   !.pool = PoolRelease(@, BytesOf(x.f.buffer, S)),
                   !.f.expected = Max(S) + 1,
                   !.f.buffer = RingRemove(@, S)]

(* The packets held without a hole from sequence number s on. *)
RunFrom(r, s) ==
    {t \in s..(s + r.size) : \A u \in s..t : RingContains(r, u)}

DrainContiguous(x) == DeliverHeld(x, RunFrom(x.f.buffer, x.f.expected))

SkipToLowestAndDrain(x) ==
    DrainContiguous([x EXCEPT !.f.expected = LowestSeq(x.f.buffer, @)])

(* Mutant: the timer is not armed again after a skip. *)
OnlyGapTimeout(x) ==
    IF x.f.buffer.count = 0 THEN StopTimer(x) ELSE EndPeriod(SkipToLowestAndDrain(x))

OnGapTimeout(x) ==
    IF x.f.buffer.count = 0
    THEN StopTimer(x)
    ELSE LET y == EndPeriod(SkipToLowestAndDrain(x))
         IN  IF y.f.buffer.count = 0 THEN y ELSE ArmTimer(y)

(* Mutant: a partial flush is charged as the end of the period. *)
FlushCharged(x) ==
    LET y == SkipToLowestAndDrain(x)
    IN  IF y.f.buffer.count = 0 THEN EndPeriod(y) ELSE [y EXCEPT !.f.gaps = @ - 1]

(* A partial flush keeps the period, and its deadline, in progress. *)
OverflowFlush(x) ==
    LET y == SkipToLowestAndDrain(x)
    IN  IF y.f.buffer.count = 0 THEN EndPeriod(y) ELSE y

-----------------------------------------------------------------------------
(* Processing one packet. *)

Result(x, r) == [x EXCEPT !.result = r]

InOrder(x, s) ==
    LET y == DrainContiguous(DeliverCurrent(x, s))
    IN  Result(IF y.f.buffer.count = 0 THEN EndPeriod(y) ELSE y, "delivered")

ColdStart(x, s) ==
    Result([DeliverCurrent(x, s) EXCEPT !.f.initialized = TRUE], "delivered")

WouldExceedPerFlowLimits(f, len) ==
    f.buffer.count >= Cap \/ f.buffer.bytes + len > FlowBytes

PoolWouldExhaust(x, len) == x.pool + len > PoolBytes

(* ok is FALSE when the copy or the slots cannot be allocated. *)
BufferInsertCommitted(x, s, len, ok) ==
    IF ~ok
    THEN Result(x, "limit")
    ELSE LET y == [x EXCEPT !.f.buffer = RingInsert(@, s, len, x.f.expected),
                            !.pool = @ + len]
         IN  Result(IF x.f.buffer.count = 0 THEN ArmTimer(y) ELSE y, "buffered")

(* The window has moved under the packet; "buffered" asks for admission. *)
ReclassifyAfterFlush(x, s) ==
    CASE s < x.f.expected                          -> Result(x, "late")
      [] s = x.f.expected                          -> InOrder(x, s)
      [] s > x.f.expected /\ FarAhead(s, x.f.expected)   -> Result(x, "far_ahead")
      [] s > x.f.expected /\ ~FarAhead(s, x.f.expected)  ->
             Result(x, IF RingContains(x.f.buffer, s) THEN "limit" ELSE "buffered")

PoolAdmit(x, s, len, ok) ==
    IF ~PoolWouldExhaust(x, len)
    THEN BufferInsertCommitted(x, s, len, ok)
    ELSE IF x.f.buffer.count = 0
    THEN Result(x, "limit")
    ELSE LET y == ReclassifyAfterFlush(OverflowFlush(x), s)
         IN  IF y.result # "buffered" THEN y
             ELSE IF PoolWouldExhaust(y, len) THEN Result(y, "limit")
             ELSE BufferInsertCommitted(y, s, len, ok)

BufferAdmit(x, s, len, ok) ==
    IF RingContains(x.f.buffer, s)
    THEN Result(x, "limit")
    ELSE IF ~WouldExceedPerFlowLimits(x.f, len)
    THEN PoolAdmit(x, s, len, ok)
    ELSE IF x.f.buffer.count = 0
    THEN Result(x, "limit")
    ELSE LET y == ReclassifyAfterFlush(OverflowFlush(x), s)
         IN  IF y.result # "buffered" THEN y ELSE PoolAdmit(y, s, len, ok)

ProcessReorderPacket(x, s, len, ok) ==
    CASE ~x.f.initialized                       -> ColdStart(x, s)
      [] x.f.initialized /\ s = x.f.expected    -> InOrder(x, s)
      [] x.f.initialized /\ s < x.f.expected    -> Result(x, "late")
      [] x.f.initialized /\ s > x.f.expected    ->
             IF FarAhead(s, x.f.expected)
             THEN Result(x, "far_ahead")
             ELSE BufferAdmit(x, s, len, ok)

(* The classifier looks at the inner payload, without its headers. *)
InnerUdpPayloadLen(len) == IF len <= HdrLen THEN 0 ELSE len - HdrLen

ClassifyUpdate(x, len) ==
    IF x.f.seen >= Window
    THEN x
    ELSE [x EXCEPT !.f.seen = @ + 1,
                   !.f.large = IF InnerUdpPayloadLen(len) >= SmallThreshold
                               THEN @ + 1 ELSE @]

(* The packet that closes the window decides. *)
Demotes(x, len) ==
    /\ x.f.seen < Window
    /\ ClassifyUpdate(x, len).f.seen = Window
    /\ ClassifyUpdate(x, len).f.large <= MaxLarge

(* Mutant: the ring is freed with what it holds. *)
FreeForDemote(x) ==
    LET y == EndPeriod(x)
    IN  [y EXCEPT !.pool = PoolRelease(@, BytesOf(x.f.buffer, Held(x.f.buffer))),
                  !.f.buffer = NewRing]

FlushBufferForDemote(x) ==
    LET y == DeliverHeld(EndPeriod(x), Held(x.f.buffer))
    IN  [y EXCEPT !.f.buffer = NewRing]

Classified(x, len) ==
    IF x.result \notin {"delivered", "buffered", "late"}
    THEN x
    ELSE LET y == ClassifyUpdate(x, len)
         IN  IF Demotes(x, len)
             THEN [FlushBufferForDemote(y) EXCEPT !.f.pass_through = TRUE]
             ELSE y

(* The held packets of the old epoch are dropped, not delivered. *)
DiscardBufferForReset(x) ==
    LET y == EndPeriod(x)
    IN  [y EXCEPT !.pool = PoolRelease(@, BytesOf(x.f.buffer, Held(x.f.buffer))),
                  !.f.buffer = NewRing]

ResetReorderFlow(x) ==
    [DiscardBufferForReset(x) EXCEPT !.f.pass_through = FALSE,
                                     !.f.seen = 0, !.f.large = 0]

(* A reset mark counts only on a flow that is new or has been idle. *)
HonoursReset(f, reset, idle) == reset /\ (~f.initialized \/ idle)

OnReordered(x, s, reset, idle, len, ok) ==
    IF HonoursReset(x.f, reset, idle)
    THEN ColdStart(ResetReorderFlow(x), s)
    ELSE IF x.f.pass_through
    THEN [x EXCEPT !.out = Append(@, s)]
    ELSE Classified(ProcessReorderPacket(x, s, len, ok), len)

-----------------------------------------------------------------------------
(* The table and the calls of the engine. *)

Start(f, p) == [f |-> f, pool |-> p, out |-> <<>>, result |-> "none"]

Nothing == [k \in Keys |-> <<>>]

Init ==
    /\ table = {}
    /\ flow = [k \in Keys |-> NewFlow]
    /\ pool = 0
    /\ out = Nothing

(* The bytes the flows of D hand back when they are destroyed. *)
BytesHeldBy(D) ==
    SumFunction([k \in D |-> BytesOf(flow[k].buffer, Held(flow[k].buffer))])

TableFull == MaxFlows > 0 /\ Cardinality(table) >= MaxFlows

(* victims is what evict_lru_flow takes out before a flow is created. *)
Evictable(k, victims) ==
    IF k \notin table /\ TableFull
    THEN \E v \in table : victims = {v}
    ELSE victims = {}

(* A datagram for key k.  The first choice a step makes is the memory it   *)
(* gets: none for a new flow ("no_flow"), none for the copy ("no_copy").   *)
(* A flow that exists needs no memory of its own; a new one is not idle.   *)
OnPacket(k, s, reset, len, idle, memory) ==
    /\ k \notin ZeroWait
    /\ IF k \in table THEN memory # "no_flow" ELSE ~idle
    /\ \E victims \in SUBSET table :
         /\ Evictable(k, victims)
         /\ LET left == PoolRelease(pool, BytesHeldBy(victims))
                x == OnReordered(Start(flow[k], left), s, reset, idle, len,
                                 memory # "no_copy")
                dropped == k \notin table /\ memory = "no_flow"
            IN  /\ table' = (table \ victims) \union (IF dropped THEN {} ELSE {k})
                /\ flow' = [j \in Keys |-> IF j \in victims THEN NewFlow
                                           ELSE IF j = k /\ ~dropped THEN x.f
                                           ELSE flow[j]]
                /\ pool' = IF dropped THEN left ELSE x.pool
                /\ out' = IF dropped THEN Nothing ELSE [Nothing EXCEPT ![k] = x.out]

PassThrough(k, s) ==
    /\ k \in ZeroWait
    /\ out' = [Nothing EXCEPT ![k] = <<s>>]
    /\ UNCHANGED <<table, flow, pool>>

(* One tick: the gap timers of the keys in fired have run out and, after   *)
(* that, the flows of idle have made no progress for the idle timeout.  A  *)
(* timer that fires is progress, so no flow is in both.                    *)
Tick(fired, idle) ==
    /\ fired \subseteq {k \in table : flow[k].timer}
    /\ idle \subseteq table \ fired
    /\ fired \union idle # {}
    /\ LET after == [k \in Keys |-> OnGapTimeout(Start(flow[k], pool))]
           given == SumFunction([k \in fired |-> pool - after[k].pool])
       IN  /\ table' = table \ idle
           /\ flow' = [k \in Keys |-> IF k \in idle THEN NewFlow
                                      ELSE IF k \in fired THEN after[k].f
                                      ELSE flow[k]]
           /\ pool' = PoolRelease(PoolRelease(pool, given), BytesHeldBy(idle))
           /\ out' = [k \in Keys |-> IF k \in fired THEN after[k].out ELSE <<>>]

(* The connection goes down and a new one starts with a new engine. *)
RxFreeAndNew ==
    /\ table # {}
    /\ table' = {}
    /\ flow' = [k \in Keys |-> NewFlow]
    /\ pool' = 0
    /\ out' = Nothing

Next ==
    \/ \E k \in Keys, s \in Seqs, reset, idle \in BOOLEAN, len \in Lens,
          memory \in {"enough", "no_flow", "no_copy"} :
            OnPacket(k, s, reset, len, idle, memory)
    \/ \E k \in Keys, s \in Seqs : PassThrough(k, s)
    \/ \E fired, idle \in SUBSET Keys : Tick(fired, idle)
    \/ RxFreeAndNew

Spec == Init /\ [][Next]_vars

(* The event loop calls the tick again and again, and the deadline of an   *)
(* armed timer passes: a timer that stays armed fires.  This is the weak   *)
(* fairness of Fires(k), which is possible exactly while the timer is      *)
(* armed, with that condition written out.                                 *)
Fires(k) == \E fired, idle \in SUBSET Keys : k \in fired /\ Tick(fired, idle)

Fairness == \A k \in Keys \ ZeroWait : []<>~flow[k].timer \/ []<><<Fires(k)>>_vars

LiveSpec == Spec /\ Fairness

-----------------------------------------------------------------------------
(* Properties. *)

(* The state has its type: a flow's fields, the ring and the pool. *)
TypeOK ==
    /\ table \subseteq Keys
    /\ flow \in [Keys -> Flow]
    /\ pool \in Nat
    /\ out \in [Keys -> Seq(Seqs)]

(* The gap timer runs exactly while packets are held (section 11.1): every *)
(* in-order arrival, timeout, flush, demotion and reset keeps the two      *)
(* together, so no held packet waits for a timer that nobody set.          *)
TimerMatchesBuffer ==
    \A k \in table : flow[k].timer <=> Held(flow[k].buffer) # {}

(* Each period armed ends in exactly one counter (section 17): the counts  *)
(* of a flow differ by the period in progress and by nothing else, also    *)
(* when a flush ends a period and the same packet arms the next.           *)
GapIdentity ==
    \A k \in table : flow[k].gaps = IF flow[k].timer THEN 1 ELSE 0

(* The ring is what ring_contains and ring_lowest_seq rely on: each packet *)
(* sits in the slot of its number, inside the window above expected, and   *)
(* count and bytes are those of the packets, whatever growth, drain and    *)
(* skip came before.                                                       *)
RingSound ==
    \A k \in table :
        LET r == flow[k].buffer
        IN  /\ \A i \in Occupied(r) :
                  /\ r.slots[i].seq % r.size = i
                  /\ r.slots[i].seq \in (flow[k].expected + 1)..(flow[k].expected + r.size - 1)
            /\ r.count = Cardinality(Held(r))
            /\ r.bytes = BytesOf(r, Held(r))

(* The shared pool is charged for the packets held and for no others, over *)
(* drops, evictions and resets of every flow, and is never overdrawn.      *)
PoolExact == pool = BytesHeldBy(table) /\ pool <= PoolBytes

(* Ring, counts and pool describe the same packets after any arrival,      *)
(* growth, flush, demotion, eviction and reset.                            *)
BuffersExact == TypeOK /\ RingSound /\ PoolExact

(* A gap period is in progress exactly while packets are held, and each is *)
(* counted once (sections 11.1 and 17).                                    *)
GapPeriods == TimerMatchesBuffer /\ GapIdentity

(* A flow never holds more than max_buffer_bytes_per_flow, reorder.h:408   *)
(* "per-flow byte limit".  It may: the limit is not checked again when a   *)
(* flush has made some room.                                               *)
FlowBytesKept == \A k \in table : flow[k].buffer.bytes <= FlowBytes

(* What a flow delivers in one step lies in the window it moves across, in *)
(* ascending order, and expected never goes back: no packet of an epoch is *)
(* delivered twice or after a later one.  A demoted flow and an honoured   *)
(* reset are the two exceptions.                                           *)
Ascends(k) ==
    /\ \A i \in 1..Len(out'[k]) :
          out'[k][i] \in flow[k].expected..(flow'[k].expected - 1)
    /\ \A i, j \in 1..Len(out'[k]) : i < j => out'[k][i] < out'[k][j]
    /\ flow[k].expected <= flow'[k].expected

HonouredReset(k) ==
    \E s \in Seqs, len \in Lens : OnPacket(k, s, TRUE, len, TRUE, "enough")

DeliversInOrder ==
    [][\A k \in table \intersect table' :
            flow[k].initialized /\ ~flow[k].pass_through
                => Ascends(k) \/ HonouredReset(k)]_vars

(* A held packet leaves the ring only by being delivered: arrivals, drops, *)
(* flushes, ring growth and demotion lose none.  Only an honoured reset    *)
(* and the end of the flow discard.                                        *)
HeldNotLost ==
    [][\A k \in table \intersect table' :
            \/ Held(flow[k].buffer) \subseteq Held(flow'[k].buffer) \union Range(out'[k])
            \/ HonouredReset(k)]_vars

(* What is sent through the shim comes out once and in order, or is still  *)
(* held.                                                                   *)
DeliverySound == DeliversInOrder /\ HeldNotLost

(* No packet is held for ever: one that waits for a missing predecessor is *)
(* delivered, or its flow reset or evicted.  (The keys that are reordered  *)
(* are interchangeable, so one of them stands for all.)                    *)
HeldEnds ==
    LET k == CHOOSE j \in Keys \ ZeroWait : TRUE
    IN  \A s \in Seqs : s \in Held(flow[k].buffer) ~> s \notin Held(flow[k].buffer)
=============================================================================
