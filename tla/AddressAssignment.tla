-------------------------- MODULE AddressAssignment --------------------------
(***************************************************************************)
(* What the server promises about inner addresses: a connection has at     *)
(* most one, an address belongs to one connection until it is given back,  *)
(* and no more than Limit are out at a time.                               *)
(***************************************************************************)
EXTENDS Integers, FiniteSets

CONSTANTS
    Clients,        \* connections
    Nobody,         \* no connection
    Addresses,
    Limit           \* config.max_clients

VARIABLE holder     \* whose an address is

Held == {a \in Addresses : holder[a] # Nobody}

Init == holder = [a \in Addresses |-> Nobody]

Assign(a, c) ==
    /\ holder[a] = Nobody
    /\ \A b \in Addresses : holder[b] # c
    /\ Cardinality(Held) < Limit
    /\ holder' = [holder EXCEPT ![a] = c]

GiveBack(a) ==
    /\ holder[a] # Nobody
    /\ holder' = [holder EXCEPT ![a] = Nobody]

Next == \E a \in Addresses : GiveBack(a) \/ \E c \in Clients : Assign(a, c)

Spec == Init /\ [][Next]_holder
=============================================================================
