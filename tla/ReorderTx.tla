------------------------------ MODULE ReorderTx ------------------------------
(***************************************************************************)
(* The send side of the reorder shim (src/reorder_tx.c): a table of the    *)
(* flows that were seen, each with its next sequence number, the reset     *)
(* marks it still owes and the time since it was last used.  A packet is   *)
(* first looked at (Peek), which may create or evict an entry, and only a  *)
(* datagram the transport accepted advances the numbering (Commit).        *)
(* The table is a function on flows; hash buckets are left out.  Ages      *)
(* stand for now - last_activity_us and stop at IdleTicks + 1, so all idle *)
(* entries are equally old: the one evicted is any of them.                *)
(***************************************************************************)
EXTENDS Integers, FiniteSets

CONSTANTS
    Flows,       \* 5-tuples of the packets that meet the tunnel
    Unparsed,    \* those that are not a whole UDP packet
    Unmatched,   \* those no rule matches
    Plain,       \* those whose first matching rule has no preset
    NRules,      \* number of configured rules
    Mode,        \* "off" or "on": the master switch
    MaxFlows,    \* table limit, 0 for none
    ResetMarks,  \* packets of a new flow that carry FLOW_RESET
    IdleTicks,   \* egress idle timeout
    Hdr          \* length of the reorder header

ASSUME TxAssumption ==
    /\ Unparsed \subseteq Flows /\ Unmatched \subseteq Flows /\ Plain \subseteq Flows
    /\ Mode \in {"off", "on"}
    /\ {NRules, MaxFlows, ResetMarks, IdleTicks, Hdr} \subseteq Nat

NoSendFlow == [live |-> FALSE, seq |-> 0, marks |-> 0, idle |-> 0]

EmptyTable == [f \in Flows |-> NoSendFlow]

(* compute_eligible: cached when the flow is created, the rules being fixed *)
Eligible(f) ==
    IF f \in Unmatched THEN NRules = 0 /\ Mode # "off" ELSE f \notin Plain

NFlows(t) == Cardinality({f \in Flows : t[f].live})

(* evict_one_idle: the tables that can result; none when nobody is idle *)
EvictOneIdle(t) ==
    {[t EXCEPT ![f] = NoSendFlow] :
        f \in {g \in Flows : t[g].live /\ t[g].idle > IdleTicks}}

Create(t, f) ==
    [t EXCEPT ![f] = [live |-> TRUE, seq |-> 0, marks |-> ResetMarks, idle |-> 0]]

(* get_or_create: the tables that can result.  It returned NULL when f has *)
(* no entry in them: the table is full of active flows, or there is no     *)
(* memory for the entry, perhaps after another flow was evicted for it     *)
GetOrCreate(t, f) ==
    LET full == MaxFlows # 0 /\ NFlows(t) >= MaxFlows
        room == IF full THEN EvictOneIdle(t) ELSE {t}
    IN  IF t[f].live \/ room = {} THEN {t}
        ELSE room \cup {Create(u, f) : u \in room}

(* mqvpn_reorder_tx_peek: what is to be done with the packet, and the table *)
(* afterwards; the numbering itself is not advanced                         *)
Peek(t, f, len, mss) ==
    IF Mode = "off" \/ f \in Unparsed
    THEN {[tab |-> t, act |-> "raw", seq |-> 0, reset |-> FALSE]}
    ELSE {[tab |-> u,
           act |-> IF ~u[f].live \/ ~Eligible(f) THEN "raw"
                   ELSE IF Hdr + len > mss THEN "drop_mtu" ELSE "stamp",
           seq |-> u[f].seq, reset |-> u[f].marks > 0] : u \in GetOrCreate(t, f)}

(* mqvpn_reorder_tx_commit, for a stamped packet the transport accepted *)
Commit(t, f) ==
    [t EXCEPT ![f] = [t[f] EXCEPT !.seq = @ + 1,
                                  !.marks = IF @ > 0 THEN @ - 1 ELSE 0,
                                  !.idle = 0]]

Aged(t) ==
    [f \in Flows |-> IF t[f].live /\ t[f].idle <= IdleTicks
                     THEN [t[f] EXCEPT !.idle = @ + 1] ELSE t[f]]

TableType ==
    [Flows -> [live : BOOLEAN, seq : Nat, marks : 0..ResetMarks, idle : 0..IdleTicks + 1]]
=============================================================================
