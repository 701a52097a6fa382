---------------------------- MODULE PathLifecycle ----------------------------
(***************************************************************************)
(* The per-path lifecycle machine of src/path_state_machine.c.             *)
(*                                                                         *)
(* A path slot (path_entry_t) is a record and every event handler that     *)
(* path_on_event dispatches to is an operator from records to records: a   *)
(* handler touches its slot only, so the modules that own a slot table     *)
(* apply these operators to one entry of it.                               *)
(*                                                                         *)
(* Time stamps are kept as 0 ("not set") or 1 ("set"): recreate_after_us   *)
(* and path_stable_since_us are only compared with 0 and with the clock,   *)
(* and whether the clock has reached one is a choice of the owner.  fd is  *)
(* -1 or 0, 0 standing for any open descriptor.  The public status field   *)
(* is a function of the state (PublicStatus) and is not kept.              *)
(***************************************************************************)
EXTENDS Integers

CONSTANTS
    MaxRetries,     \* PATH_RECREATE_MAX_RETRIES
    MaxPathId,      \* the greatest path id xquic gives out in a connection
    Weights         \* values of path_entry_t.weight; 0 is "default"

ASSUME MaxRetriesAssumption == MaxRetries \in Nat \ {0}
ASSUME MaxPathIdAssumption == MaxPathId \in Nat
ASSUME WeightsAssumption == Weights \subseteq Nat /\ 0 \in Weights

PathIds == 0 .. MaxPathId

Lifecycle ==
    {"PENDING", "CREATE_WAIT", "VALIDATING", "ACTIVE", "STANDBY", "DEGRADED",
     "CLOSED_RECOVERABLE", "CLOSED_DROPPED", "CLOSED_FREE"}

(* path_entry_t; recreate_retries stops at MaxRetries, see CountFailure.    *)
PathEntry ==
    [state             : Lifecycle,
     platform_attached : {0, 1},
     fd                : {-1, 0},
     backup            : {0, 1},
     weight            : Weights,
     xquic_path_live   : {0, 1},
     xqc_path_id       : PathIds,
     recreate_after    : {0, 1},
     recreate_retries  : 0 .. MaxRetries,
     path_stable       : {0, 1}]

ActivateResult == {"OK", "TRANSIENT_FAIL", "PERMANENT_FAIL"}

(* path_public_status_from_lifecycle *)
PublicStatus(s) ==
    CASE s \in {"PENDING", "CREATE_WAIT", "VALIDATING"} -> "PENDING"
      [] s \in {"ACTIVE", "STANDBY", "DEGRADED"}        -> s
      [] OTHER                                          -> "CLOSED"

(* The asserts of path_invariant_check, per lifecycle state. *)
PathInvariant(p) ==
    /\ p.state \notin {"CLOSED_DROPPED", "CLOSED_FREE"} =>
           p.platform_attached = 1 /\ p.fd >= 0
    /\ p.state \in {"CLOSED_DROPPED", "CLOSED_FREE"} => p.platform_attached = 0
    /\ p.state \in {"VALIDATING", "ACTIVE", "STANDBY"} => p.xquic_path_live = 1
    /\ p.state \in {"PENDING", "CREATE_WAIT", "DEGRADED", "CLOSED_RECOVERABLE",
                    "CLOSED_FREE"} => p.xquic_path_live = 0
    /\ p.state \in {"PENDING", "DEGRADED", "CLOSED_RECOVERABLE", "CLOSED_FREE"} =>
           p.xqc_path_id = 0 /\ p.path_stable = 0
    /\ p.state = "CLOSED_DROPPED" => p.path_stable = 0
    /\ p.recreate_after = (IF p.state \in {"CREATE_WAIT", "DEGRADED"} THEN 1 ELSE 0)
    /\ p.state = "CLOSED_FREE" => p.fd = -1

-----------------------------------------------------------------------------

(* path_entry_init: also the value of the slots that were never used. *)
PathEntryInit ==
    [state |-> "CLOSED_FREE", platform_attached |-> 0, fd |-> -1, backup |-> 0,
     weight |-> 0, xquic_path_live |-> 0, xqc_path_id |-> 0,
     recreate_after |-> 0, recreate_retries |-> 0, path_stable |-> 0]

(* The counter is read only by the comparison with MaxRetries, and by the  *)
(* backoff while it is below: it may stop there.                           *)
CountFailure(n) == IF n < MaxRetries THEN n + 1 ELSE n

(* apply_failure_with_retry_check *)
ApplyFailure(p, retryTarget) ==
    LET n == CountFailure(p.recreate_retries)
        spent == n >= MaxRetries
    IN  [p EXCEPT !.xquic_path_live  = 0,
                  !.xqc_path_id      = 0,
                  !.path_stable      = 0,
                  !.recreate_retries = n,
                  !.recreate_after   = IF spent THEN 0 ELSE 1,
                  !.state = IF spent THEN "CLOSED_RECOVERABLE" ELSE retryTarget]

(* The ACTIVATE_OK and ACTIVATE_PERMANENT_FAIL arms the handlers share. *)
Bind(p, id) ==
    [p EXCEPT !.xqc_path_id = id, !.xquic_path_live = 1, !.recreate_after = 0,
              !.state = "VALIDATING"]

GiveUp(p) ==
    [p EXCEPT !.xquic_path_live = 0, !.xqc_path_id = 0, !.path_stable = 0,
              !.recreate_after = 0, !.state = "CLOSED_RECOVERABLE"]

(* Mutant: a failed activation is only logged. *)
OnActivateRequestedIgnoresFailure(p, result, id) ==
    IF p.state = "PENDING" /\ result = "OK" THEN Bind(p, id) ELSE p

(* path_on_activate_requested *)
OnActivateRequested(p, result, id) ==
    CASE p.state # "PENDING"         -> p
      [] p.state = "PENDING" /\ result = "OK"             -> Bind(p, id)
      [] p.state = "PENDING" /\ result = "TRANSIENT_FAIL" -> ApplyFailure(p, "CREATE_WAIT")
      [] p.state = "PENDING" /\ result = "PERMANENT_FAIL" -> GiveUp(p)

(* path_on_retry_timer: a transient failure stays in the state it was in. *)
OnRetryTimer(p, result, id) ==
    LET retrying == p.state \in {"CREATE_WAIT", "DEGRADED"}
    IN  CASE ~retrying                                -> p
          [] retrying /\ result = "OK"                -> Bind(p, id)
          [] retrying /\ result = "TRANSIENT_FAIL"    -> ApplyFailure(p, p.state)
          [] retrying /\ result = "PERMANENT_FAIL"    -> GiveUp(p)

(* path_on_validation_ok; a late one is ignored. *)
OnValidationOk(p, target) ==
    IF p.state = "VALIDATING"
    THEN [p EXCEPT !.path_stable = 1, !.state = target]
    ELSE p

(* maybe_transition_dropped_to_free *)
MaybeFree(p) ==
    IF p.state = "CLOSED_DROPPED" /\ p.fd < 0 /\ p.xquic_path_live = 0 /\ p.xqc_path_id = 0
    THEN [p EXCEPT !.state = "CLOSED_FREE"]
    ELSE p

(* path_on_xquic_removed *)
OnXquicRemoved(p) ==
    CASE p.state = "VALIDATING"            -> ApplyFailure(p, "CREATE_WAIT")
      [] p.state \in {"ACTIVE", "STANDBY"} -> ApplyFailure(p, "DEGRADED")
      [] p.state = "CLOSED_DROPPED"        ->
             MaybeFree([p EXCEPT !.xquic_path_live = 0, !.xqc_path_id = 0])
      [] OTHER                             -> p

(* path_on_manual_reactivate: a failure changes nothing, and the retry     *)
(* counter is never touched.                                               *)
OnManualReactivate(p, result, id) ==
    IF p.state \in {"CLOSED_RECOVERABLE", "CREATE_WAIT", "DEGRADED"} /\ result = "OK"
    THEN Bind(p, id)
    ELSE p

(* path_on_platform_drop and path_on_remove_api, which do the same to the  *)
(* slot: the xquic side and the descriptor are left for later events.      *)
OnDrop(p) ==
    IF p.state \in {"CLOSED_DROPPED", "CLOSED_FREE"}
    THEN p
    ELSE [p EXCEPT !.platform_attached = 0, !.recreate_after = 0, !.path_stable = 0,
                   !.state = "CLOSED_DROPPED"]

(* path_on_add_fd *)
OnAddFd(p) ==
    IF p.state = "CLOSED_FREE"
    THEN [p EXCEPT !.platform_attached = 1, !.state = "PENDING"]
    ELSE p

(* path_on_conn_reset *)
OnConnReset(p) ==
    LET q == [p EXCEPT !.xquic_path_live = 0, !.xqc_path_id = 0,
                       !.recreate_after = 0, !.recreate_retries = 0,
                       !.path_stable = 0]
    IN  IF p.platform_attached = 1 THEN [q EXCEPT !.state = "PENDING"] ELSE MaybeFree(q)

(* path_on_fd_closed *)
OnFdClosed(p) ==
    IF p.state = "CLOSED_DROPPED" THEN MaybeFree([p EXCEPT !.fd = -1]) ELSE p

(* path_fsm_tick_confirm_stable, once PATH_STABLE_THRESHOLD_US has passed. *)
ConfirmStable(p) ==
    IF p.state \in {"ACTIVE", "STANDBY"} /\ p.path_stable = 1 /\ p.xquic_path_live = 1
    THEN [p EXCEPT !.recreate_retries = 0]
    ELSE p
=============================================================================
