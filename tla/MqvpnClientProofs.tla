------------------------- MODULE MqvpnClientProofs ---------------------------
(***************************************************************************)
(* The safety properties of MqvpnClient for every number of paths, retry   *)
(* budget, path budget and range of path ids.                              *)
(***************************************************************************)
EXTENDS MqvpnClient, FiniteSetTheorems, WellFoundedInduction, TLAPS

-----------------------------------------------------------------------------
(* PathLifecycle: every event handler of src/path_state_machine.c keeps a  *)
(* slot well formed, one lemma per handler.                                *)

(* What the asserts of path_invariant_check need to be inductive: a slot   *)
(* without an xquic path keeps no id (else a dropped slot could never be   *)
(* freed), the stability timer runs in usable states only, and an armed    *)
(* retry is within the budget.                                             *)
WellFormed(p) ==
    /\ p \in PathEntry
    /\ PathInvariant(p)
    /\ p.xquic_path_live = 0 => p.xqc_path_id = 0
    /\ p.path_stable = 1 => p.state \in {"ACTIVE", "STANDBY"}
    /\ p.recreate_after = 1 => p.recreate_retries \in 1 .. MaxRetries - 1

(* Path ids include the initial path's. *)
LEMMA ZeroPathId == 0 \in PathIds
  BY MaxPathIdAssumption DEF PathIds

(* A slot fresh from path_entry_init is well formed. *)
LEMMA InitWellFormed == WellFormed(PathEntryInit)
  BY MaxRetriesAssumption, ZeroPathId, WeightsAssumption
  DEF WellFormed, PathEntry, PathInvariant, PathEntryInit, Lifecycle

(* apply_failure_with_retry_check keeps an attached slot well formed, and  *)
(* leaves it without an xquic path.                                        *)
LEMMA ApplyFailureWellFormed ==
  ASSUME NEW p, WellFormed(p), NEW t \in {"CREATE_WAIT", "DEGRADED"},
         p.platform_attached = 1, p.fd >= 0
  PROVE  /\ WellFormed(ApplyFailure(p, t))
         /\ ApplyFailure(p, t).xquic_path_live = 0
         /\ ApplyFailure(p, t).state # "PENDING"
<1> DEFINE n == CountFailure(p.recreate_retries)
           q == ApplyFailure(p, t)
<1>1. n \in 1 .. MaxRetries /\ n \in 0 .. MaxRetries
  BY MaxRetriesAssumption DEF WellFormed, PathEntry, CountFailure
<1>2. p \in PathEntry /\ PathInvariant(p)
  BY DEF WellFormed
<1>3. CASE n >= MaxRetries
  <2>1. q = [p EXCEPT !.xquic_path_live = 0, !.xqc_path_id = 0, !.path_stable = 0,
                      !.recreate_retries = n, !.recreate_after = 0,
                      !.state = "CLOSED_RECOVERABLE"]
    BY <1>3 DEF ApplyFailure
  <2> HIDE DEF q, n
  <2>2. q \in PathEntry
    BY <1>1, <1>2, <2>1, ZeroPathId DEF PathEntry, Lifecycle
  <2>3. WellFormed(q)
    BY <1>2, <2>1, <2>2 DEF WellFormed, PathEntry, PathInvariant
  <2> QED BY <1>2, <2>1, <2>3 DEF q, PathEntry
<1>4. CASE ~(n >= MaxRetries)
  <2>1. q = [p EXCEPT !.xquic_path_live = 0, !.xqc_path_id = 0, !.path_stable = 0,
                      !.recreate_retries = n, !.recreate_after = 1, !.state = t]
    BY <1>4 DEF ApplyFailure
  <2>2. n \in 1 .. MaxRetries - 1
    BY <1>1, <1>4, MaxRetriesAssumption
  <2> HIDE DEF q, n
  <2>3. q \in PathEntry
    BY <1>1, <1>2, <2>1, ZeroPathId DEF PathEntry, Lifecycle
  <2>4. WellFormed(q)
    BY <1>2, <2>1, <2>2, <2>3 DEF WellFormed, PathEntry, PathInvariant
  <2> QED BY <1>2, <2>1, <2>4 DEF q, PathEntry
<1> QED BY <1>3, <1>4

(* Binding a slot that waits to be activated keeps it well formed. *)
LEMMA BindWellFormed ==
  ASSUME NEW p, WellFormed(p), NEW id \in PathIds,
         p.state \in {"PENDING", "CREATE_WAIT", "DEGRADED", "CLOSED_RECOVERABLE"}
  PROVE  /\ WellFormed(Bind(p, id))
         /\ Bind(p, id).xquic_path_live = 1
         /\ Bind(p, id).xqc_path_id = id
         /\ Bind(p, id).state = "VALIDATING"
  BY DEF WellFormed, PathEntry, PathInvariant, Bind, Lifecycle

(* Giving up on such a slot keeps it well formed. *)
LEMMA GiveUpWellFormed ==
  ASSUME NEW p, WellFormed(p), p.platform_attached = 1, p.fd >= 0
  PROVE  /\ WellFormed(GiveUp(p))
         /\ GiveUp(p).xquic_path_live = 0
         /\ GiveUp(p).state # "PENDING"
<1> DEFINE q == GiveUp(p)
<1>1. p \in PathEntry /\ PathInvariant(p)
  BY DEF WellFormed
<1>2. q = [p EXCEPT !.xquic_path_live = 0, !.xqc_path_id = 0, !.path_stable = 0,
                    !.recreate_after = 0, !.state = "CLOSED_RECOVERABLE"]
  BY DEF GiveUp
<1> HIDE DEF q
<1>3. q \in PathEntry
  BY <1>1, <1>2, ZeroPathId DEF PathEntry, Lifecycle
<1>4. WellFormed(q)
  BY <1>1, <1>2, <1>3 DEF WellFormed, PathEntry, PathInvariant
<1> QED BY <1>1, <1>2, <1>4 DEF q, PathEntry

(* path_on_activate_requested: a PENDING slot is well formed afterwards,   *)
(* no longer PENDING, and bound to the new path exactly on success.        *)
LEMMA ActivateWellFormed ==
  ASSUME NEW p, WellFormed(p), p.state = "PENDING",
         NEW r \in ActivateResult, NEW id, r = "OK" => id \in PathIds
  PROVE  LET q == OnActivateRequested(p, r, id)
         IN  /\ WellFormed(q)
             /\ q.state # "PENDING"
             /\ q.xquic_path_live = 1 <=> r = "OK"
             /\ r = "OK" => q.xqc_path_id = id
<1>1. p.platform_attached = 1 /\ p.fd >= 0
  BY DEF WellFormed, PathInvariant
<1>2. CASE r = "OK"
  BY <1>2, BindWellFormed DEF OnActivateRequested
<1>3. CASE r = "TRANSIENT_FAIL"
  BY <1>1, <1>3, ApplyFailureWellFormed DEF OnActivateRequested
<1>4. CASE r = "PERMANENT_FAIL"
  BY <1>1, <1>4, GiveUpWellFormed DEF OnActivateRequested
<1> QED BY <1>2, <1>3, <1>4 DEF ActivateResult

(* path_on_retry_timer, the same for a slot that waits for a retry. *)
LEMMA RetryWellFormed ==
  ASSUME NEW p, WellFormed(p), p.state \in {"CREATE_WAIT", "DEGRADED"},
         NEW r \in ActivateResult, NEW id, r = "OK" => id \in PathIds
  PROVE  LET q == OnRetryTimer(p, r, id)
         IN  /\ WellFormed(q)
             /\ q.state # "PENDING"
             /\ q.xquic_path_live = 1 <=> r = "OK"
             /\ r = "OK" => q.xqc_path_id = id
<1>1. p.platform_attached = 1 /\ p.fd >= 0
  BY DEF WellFormed, PathInvariant
<1>2. CASE r = "OK"
  BY <1>2, BindWellFormed DEF OnRetryTimer
<1>3. CASE r = "TRANSIENT_FAIL"
  BY <1>1, <1>3, ApplyFailureWellFormed DEF OnRetryTimer
<1>4. CASE r = "PERMANENT_FAIL"
  BY <1>1, <1>4, GiveUpWellFormed DEF OnRetryTimer
<1> QED BY <1>2, <1>3, <1>4 DEF ActivateResult

(* path_on_validation_ok neither binds nor unbinds. *)
LEMMA ValidationWellFormed ==
  ASSUME NEW p, WellFormed(p), NEW t \in {"ACTIVE", "STANDBY"}
  PROVE  LET q == OnValidationOk(p, t)
         IN  /\ WellFormed(q)
             /\ q.state = "PENDING" => p.state = "PENDING"
             /\ q.xquic_path_live = p.xquic_path_live
             /\ q.xqc_path_id = p.xqc_path_id
<1>1. p \in PathEntry /\ PathInvariant(p)
  BY DEF WellFormed
<1>2. CASE p.state = "VALIDATING"
  <2> DEFINE q == [p EXCEPT !.path_stable = 1, !.state = t]
  <2>1. q \in PathEntry
    BY <1>1 DEF PathEntry, Lifecycle
  <2>2. /\ q.state = t /\ q.path_stable = 1 /\ q.platform_attached = p.platform_attached
        /\ q.fd = p.fd /\ q.recreate_after = p.recreate_after
        /\ q.xquic_path_live = p.xquic_path_live /\ q.xqc_path_id = p.xqc_path_id
    BY <1>1 DEF PathEntry
  <2>3. OnValidationOk(p, t) = q
    BY <1>2 DEF OnValidationOk
  <2> HIDE DEF q
  <2>4. WellFormed(q)
    BY <1>1, <1>2, <2>1, <2>2 DEF WellFormed, PathInvariant
  <2> QED BY <2>2, <2>3, <2>4
<1>3. CASE p.state # "VALIDATING"
  BY <1>3 DEF OnValidationOk
<1> QED BY <1>2, <1>3

(* maybe_transition_dropped_to_free changes the state only. *)
LEMMA MaybeFreeWellFormed ==
  ASSUME NEW p, WellFormed(p)
  PROVE  LET q == MaybeFree(p)
         IN  /\ WellFormed(q)
             /\ q.state = "PENDING" => p.state = "PENDING"
             /\ q.xquic_path_live = p.xquic_path_live
             /\ q.xqc_path_id = p.xqc_path_id
  BY DEF WellFormed, PathEntry, PathInvariant, MaybeFree, Lifecycle

(* path_on_xquic_removed unbinds the slot. *)
LEMMA RemovedWellFormed ==
  ASSUME NEW p, WellFormed(p), p.xquic_path_live = 1
  PROVE  LET q == OnXquicRemoved(p)
         IN  /\ WellFormed(q)
             /\ q.state # "PENDING"
             /\ q.xquic_path_live = 0
<1>1. p \in PathEntry /\ PathInvariant(p)
  BY DEF WellFormed
<1>2. p.state \in {"VALIDATING", "ACTIVE", "STANDBY", "CLOSED_DROPPED"}
  BY <1>1 DEF PathEntry, PathInvariant, Lifecycle
<1>3. CASE p.state = "CLOSED_DROPPED"
  <2> DEFINE r == [p EXCEPT !.xquic_path_live = 0, !.xqc_path_id = 0]
  <2>1. r \in PathEntry
    BY <1>1, ZeroPathId DEF PathEntry
  <2>2. WellFormed(r) /\ r.xquic_path_live = 0 /\ r.state = "CLOSED_DROPPED"
    BY <1>1, <1>3, <2>1 DEF WellFormed, PathEntry, PathInvariant
  <2>3. OnXquicRemoved(p) = MaybeFree(r)
    BY <1>3 DEF OnXquicRemoved
  <2> HIDE DEF r
  <2> QED BY <2>2, <2>3, MaybeFreeWellFormed
<1>4. CASE p.state # "CLOSED_DROPPED"
  <2>1. p.platform_attached = 1 /\ p.fd >= 0
    BY <1>1, <1>2, <1>4 DEF PathInvariant
  <2>2. \/ OnXquicRemoved(p) = ApplyFailure(p, "CREATE_WAIT")
        \/ OnXquicRemoved(p) = ApplyFailure(p, "DEGRADED")
    BY <1>2, <1>4 DEF OnXquicRemoved
  <2> QED BY <2>1, <2>2, ApplyFailureWellFormed
<1> QED BY <1>3, <1>4

(* path_on_manual_reactivate binds the slot exactly on success. *)
LEMMA ReactivateWellFormed ==
  ASSUME NEW p, WellFormed(p),
         p.state \in {"CLOSED_RECOVERABLE", "CREATE_WAIT", "DEGRADED"},
         NEW r \in ActivateResult, NEW id, r = "OK" => id \in PathIds
  PROVE  LET q == OnManualReactivate(p, r, id)
         IN  /\ WellFormed(q)
             /\ q.state # "PENDING"
             /\ q.xquic_path_live = 1 <=> r = "OK"
             /\ r = "OK" => q.xqc_path_id = id
<1>1. CASE r = "OK"
  BY <1>1, BindWellFormed DEF OnManualReactivate
<1>2. CASE r # "OK"
  BY <1>2 DEF OnManualReactivate, WellFormed, PathInvariant
<1> QED BY <1>1, <1>2

(* path_on_platform_drop and path_on_remove_api leave the binding alone. *)
LEMMA DropWellFormed ==
  ASSUME NEW p, WellFormed(p)
  PROVE  LET q == OnDrop(p)
         IN  /\ WellFormed(q)
             /\ q.state # "PENDING"
             /\ q.xquic_path_live = p.xquic_path_live
             /\ q.xqc_path_id = p.xqc_path_id
<1>1. p \in PathEntry /\ PathInvariant(p)
  BY DEF WellFormed
<1>2. CASE p.state \in {"CLOSED_DROPPED", "CLOSED_FREE"}
  BY <1>2 DEF OnDrop
<1>3. CASE p.state \notin {"CLOSED_DROPPED", "CLOSED_FREE"}
  <2> DEFINE q == [p EXCEPT !.platform_attached = 0, !.recreate_after = 0,
                            !.path_stable = 0, !.state = "CLOSED_DROPPED"]
  <2>1. q \in PathEntry
    BY <1>1 DEF PathEntry, Lifecycle
  <2>2. /\ q.xquic_path_live = p.xquic_path_live /\ q.xqc_path_id = p.xqc_path_id
        /\ q.state = "CLOSED_DROPPED"
    BY <1>1 DEF PathEntry
  <2>3. WellFormed(q)
    BY <1>1, <2>1 DEF WellFormed, PathEntry, PathInvariant
  <2>4. OnDrop(p) = q
    BY <1>3 DEF OnDrop
  <2> HIDE DEF q
  <2> QED BY <2>2, <2>3, <2>4
<1> QED BY <1>2, <1>3

(* path_on_fd_closed leaves the binding alone. *)
LEMMA FdClosedWellFormed ==
  ASSUME NEW p, WellFormed(p)
  PROVE  LET q == OnFdClosed(p)
         IN  /\ WellFormed(q)
             /\ q.state = "PENDING" => p.state = "PENDING"
             /\ q.xquic_path_live = p.xquic_path_live
             /\ q.xqc_path_id = p.xqc_path_id
<1> DEFINE r == [p EXCEPT !.fd = -1]
<1>1. CASE p.state = "CLOSED_DROPPED"
  <2>1. /\ WellFormed(r)
        /\ r.state = p.state
        /\ r.xquic_path_live = p.xquic_path_live
        /\ r.xqc_path_id = p.xqc_path_id
    BY <1>1 DEF WellFormed, PathEntry, PathInvariant
  <2>2. OnFdClosed(p) = MaybeFree(r)
    BY <1>1 DEF OnFdClosed
  <2> HIDE DEF r
  <2> QED BY <2>1, <2>2, MaybeFreeWellFormed
<1>2. CASE p.state # "CLOSED_DROPPED"
  BY <1>2 DEF OnFdClosed
<1> QED BY <1>1, <1>2

(* path_on_conn_reset unbinds the slot; an attached one is PENDING. *)
LEMMA ConnResetWellFormed ==
  ASSUME NEW p, WellFormed(p)
  PROVE  LET q == OnConnReset(p)
         IN  /\ WellFormed(q)
             /\ q.xquic_path_live = 0
             /\ q.platform_attached = p.platform_attached
             /\ q.platform_attached = 1 => q.state = "PENDING"
<1> DEFINE r == [p EXCEPT !.xquic_path_live = 0, !.xqc_path_id = 0, !.recreate_after = 0,
                          !.recreate_retries = 0, !.path_stable = 0]
<1>1. p \in PathEntry /\ PathInvariant(p)
  BY DEF WellFormed
<1>2. r \in PathEntry
  <2>1. 0 \in 0 .. MaxRetries
    BY MaxRetriesAssumption
  <2> QED BY <1>1, <2>1, ZeroPathId DEF PathEntry
<1>3. CASE p.platform_attached = 1
  <2> DEFINE q == [r EXCEPT !.state = "PENDING"]
  <2>1. q \in PathEntry
    BY <1>2 DEF PathEntry, Lifecycle
  <2>2. /\ WellFormed(q) /\ q.xquic_path_live = 0 /\ q.state = "PENDING"
        /\ q.platform_attached = 1
    BY <1>1, <1>3, <2>1 DEF WellFormed, PathEntry, PathInvariant, Lifecycle
  <2>3. OnConnReset(p) = q
    BY <1>3 DEF OnConnReset
  <2> HIDE DEF q
  <2> QED BY <1>3, <2>2, <2>3
<1>4. CASE p.platform_attached # 1
  <2>1. WellFormed(r) /\ r.xquic_path_live = 0 /\ r.platform_attached = p.platform_attached
    BY <1>1, <1>2, <1>4 DEF WellFormed, PathEntry, PathInvariant, Lifecycle
  <2>2. OnConnReset(p) = MaybeFree(r)
    BY <1>4 DEF OnConnReset
  <2> HIDE DEF r
  <2>3. MaybeFree(r).platform_attached = r.platform_attached
    BY <2>1 DEF MaybeFree, WellFormed, PathEntry
  <2> QED BY <1>4, <2>1, <2>2, <2>3, MaybeFreeWellFormed
<1> QED BY <1>3, <1>4

(* path_on_add_fd on a slot that path_entry_init made. *)
LEMMA AddFdWellFormed ==
  ASSUME NEW b \in {0, 1}, NEW w \in Weights
  PROVE  LET q == OnAddFd([PathEntryInit EXCEPT !.fd = 0, !.backup = b, !.weight = w])
         IN  /\ WellFormed(q)
             /\ q.state = "PENDING"
             /\ q.xquic_path_live = 0
<1> DEFINE q == [PathEntryInit EXCEPT !.fd = 0, !.backup = b, !.weight = w,
                                      !.platform_attached = 1, !.state = "PENDING"]
<1>1. OnAddFd([PathEntryInit EXCEPT !.fd = 0, !.backup = b, !.weight = w]) = q
  BY DEF OnAddFd, PathEntryInit
<1>2. PathEntryInit \in PathEntry
  BY InitWellFormed DEF WellFormed
<1>3. q \in PathEntry
  BY <1>2 DEF PathEntry, Lifecycle
<1>4. /\ q.state = "PENDING" /\ q.platform_attached = 1 /\ q.fd = 0
      /\ q.xquic_path_live = 0 /\ q.xqc_path_id = 0 /\ q.recreate_after = 0
      /\ q.path_stable = 0
  BY DEF PathEntryInit
<1> HIDE DEF q
<1>5. WellFormed(q)
  BY <1>3, <1>4 DEF WellFormed, PathInvariant
<1> QED BY <1>1, <1>4, <1>5

(* path_fsm_tick_confirm_stable changes the failure count only. *)
LEMMA ConfirmStableWellFormed ==
  ASSUME NEW p, WellFormed(p)
  PROVE  LET q == ConfirmStable(p)
         IN  /\ WellFormed(q)
             /\ q.state = p.state
             /\ q.xquic_path_live = p.xquic_path_live
             /\ q.xqc_path_id = p.xqc_path_id
  BY MaxRetriesAssumption DEF WellFormed, PathEntry, PathInvariant, ConfirmStable, Lifecycle

(* A change of weight leaves the rest of the slot alone. *)
LEMMA WeightWellFormed ==
  ASSUME NEW p, WellFormed(p), NEW w \in Weights
  PROVE  LET q == [p EXCEPT !.weight = w]
         IN  /\ WellFormed(q)
             /\ q.state = p.state
             /\ q.xquic_path_live = p.xquic_path_live
             /\ q.xqc_path_id = p.xqc_path_id
  BY DEF WellFormed, PathEntry, PathInvariant

-----------------------------------------------------------------------------
(* Sets of slots and new path ids *)

(* A non-empty set of naturals has a least element. *)
LEMMA LeastNatural ==
  ASSUME NEW S \in SUBSET Nat, S # {}
  PROVE  \E i \in S : \A j \in S : i <= j
<1>1. PICK i \in S : \A j \in S : ~(<<j, i>> \in OpToRel(<, Nat))
  BY WFMin, NatLessThanWellFounded
<1>2. \A j \in S : ~(j < i)
  BY <1>1 DEF OpToRel
<1> QED BY <1>2

(* A set of slots is finite. *)
LEMMA SlotSets ==
  ASSUME NEW n \in Int, NEW S \in SUBSET (0 .. n)
  PROVE  IsFiniteSet(S) /\ Cardinality(S) \in Nat
<1>1. IsFiniteSet(0 .. n)
  BY FS_Interval
<1>2. IsFiniteSet(S)
  BY <1>1, FS_Subset
<1> QED BY <1>2, FS_CardinalityType

(* The ids that a series of xqc_conn_create_path calls returns are fresh   *)
(* and pairwise different.                                                 *)
LEMMA NewIds ==
  ASSUME NEW n \in Int, NEW ok \in SUBSET (0 .. n), xq_next \in Nat, CanCreate(ok)
  PROVE  /\ Cardinality(ok) \in Nat
         /\ \A i \in ok : /\ NewId(ok, i) \in Nat
                          /\ xq_next <= NewId(ok, i)
                          /\ NewId(ok, i) < xq_next + Cardinality(ok)
                          /\ NewId(ok, i) \in PathIds
         /\ \A i, j \in ok : i # j => NewId(ok, i) # NewId(ok, j)
<1> DEFINE below(i) == {j \in ok : j < i}
<1>1. IsFiniteSet(ok) /\ Cardinality(ok) \in Nat
  BY SlotSets
<1>2. \A i \in ok : /\ Cardinality(below(i)) \in Nat
                    /\ Cardinality(below(i)) < Cardinality(ok)
  <2> TAKE i \in ok
  <2>1. below(i) \in SUBSET ok /\ below(i) # ok
    OBVIOUS
  <2>2. IsFiniteSet(below(i)) /\ Cardinality(below(i)) <= Cardinality(ok)
        /\ Cardinality(ok) # Cardinality(below(i))
    BY <1>1, <2>1, FS_Subset
  <2>3. Cardinality(below(i)) \in Nat
    BY <2>2, FS_CardinalityType
  <2> QED BY <1>1, <2>2, <2>3
<1>0. \A i \in ok : i \in Int
  OBVIOUS
<1>3. \A i, j \in ok : i < j => Cardinality(below(i)) # Cardinality(below(j))
  <2> TAKE i, j \in ok
  <2> HAVE i < j
  <2>1. i \in Int /\ j \in Int
    BY <1>0
  <2>2. \A k \in ok : k < i => k < j
    BY <1>0, <2>1
  <2>3. ~(i < i)
    BY <2>1
  <2>4. i \in below(j) /\ i \notin below(i) /\ below(i) \in SUBSET below(j)
    BY <2>2, <2>3
  <2>5. IsFiniteSet(below(j))
    BY <1>1, FS_Subset
  <2>6. Cardinality(below(j)) = Cardinality(below(i)) => below(j) = below(i)
    BY <2>4, <2>5, FS_Subset
  <2> QED BY <2>4, <2>6
<1>4. \A i \in ok : NewId(ok, i) = xq_next + Cardinality(below(i))
  BY DEF NewId
<1> HIDE DEF below
<1>5. ok # {} => xq_next + Cardinality(ok) - 1 <= MaxPathId
  BY DEF CanCreate
<1>6. \A i \in ok : /\ NewId(ok, i) \in Nat
                    /\ xq_next <= NewId(ok, i)
                    /\ NewId(ok, i) < xq_next + Cardinality(ok)
                    /\ NewId(ok, i) \in PathIds
  BY <1>1, <1>2, <1>4, <1>5, MaxPathIdAssumption DEF PathIds
<1>7. \A i, j \in ok : i # j => NewId(ok, i) # NewId(ok, j)
  <2> TAKE i, j \in ok
  <2> HAVE i # j
  <2>1. i < j \/ j < i
    OBVIOUS
  <2> QED BY <1>2, <1>3, <1>4, <2>1
<1> QED BY <1>1, <1>6, <1>7

-----------------------------------------------------------------------------
(* The correspondence of live slots and xquic paths *)

(* PathBinding for a slot table ps of n slots and a set XP of path ids. *)
Bound(ps, n, XP) ==
    /\ \A i \in 0 .. n - 1 : ps[i].xquic_path_live = 1 => ps[i].xqc_path_id \in XP
    /\ \A i, j \in 0 .. n - 1 :
          (i # j /\ ps[i].xquic_path_live = 1 /\ ps[j].xquic_path_live = 1) =>
              ps[i].xqc_path_id # ps[j].xqc_path_id
    /\ \A id \in XP \ {0} :
          \E i \in 0 .. n - 1 : ps[i].xquic_path_live = 1 /\ ps[i].xqc_path_id = id

(* Bound is PathBinding, with its state as parameters. *)
LEMMA PathBindingIsBound == PathBinding <=> (conn = 1 => Bound(paths, n_paths, xq_paths))
  BY DEF PathBinding, Bound, Used

(* A step that keeps the live slots and their ids keeps the correspondence. *)
LEMMA BoundKept ==
  ASSUME NEW ps, NEW qs, NEW n \in Nat, NEW XP, Bound(ps, n, XP),
         \A i \in 0 .. n - 1 : /\ qs[i].xquic_path_live = ps[i].xquic_path_live
                               /\ qs[i].xqc_path_id = ps[i].xqc_path_id
  PROVE  Bound(qs, n, XP)
  BY DEF Bound

(* Table qs is ps with the slots of ok bound to their new paths. *)
NewlyBound(ps, qs, n, ok) ==
    /\ ok \in SUBSET (0 .. n - 1)
    /\ \A i \in ok : /\ qs[i].xquic_path_live = 1
                     /\ qs[i].xqc_path_id = NewId(ok, i)
                     /\ ps[i].xquic_path_live # 1
    /\ \A i \in (0 .. n - 1) \ ok :
          \/ qs[i].xquic_path_live # 1 /\ ps[i].xquic_path_live # 1
          \/ /\ qs[i].xquic_path_live = 1 /\ ps[i].xquic_path_live = 1
             /\ qs[i].xqc_path_id = ps[i].xqc_path_id

NewIdSet(ok) == {NewId(ok, i) : i \in ok}

(* Creating paths for the slots of ok extends the correspondence. *)
LEMMA BoundExtends ==
  ASSUME NEW ps, NEW qs, NEW n \in Nat, NEW XP, NEW ok, Bound(ps, n, XP),
         XP \subseteq 0 .. xq_next - 1, xq_next \in Nat, xq_next >= 1,
         CanCreate(ok), NewlyBound(ps, qs, n, ok)
  PROVE  /\ Bound(qs, n, XP \cup NewIdSet(ok))
         /\ XP \cup NewIdSet(ok) \subseteq 0 .. (xq_next + Cardinality(ok)) - 1
<1> DEFINE YP == XP \cup NewIdSet(ok)
           m  == xq_next + Cardinality(ok)
<1> USE DEF NewlyBound, NewIdSet
<1>1. /\ Cardinality(ok) \in Nat
      /\ \A i \in ok : /\ NewId(ok, i) \in Nat /\ xq_next <= NewId(ok, i)
                       /\ NewId(ok, i) < xq_next + Cardinality(ok)
      /\ \A i, j \in ok : i # j => NewId(ok, i) # NewId(ok, j)
  <2>1. n - 1 \in Int
    OBVIOUS
  <2> QED BY <2>1, NewIds
<1>2. \A i \in 0 .. n - 1 : qs[i].xquic_path_live = 1 =>
          \/ i \in ok /\ qs[i].xqc_path_id = NewId(ok, i)
          \/ /\ i \notin ok /\ ps[i].xquic_path_live = 1
             /\ qs[i].xqc_path_id = ps[i].xqc_path_id
             /\ ps[i].xqc_path_id \in XP
  BY DEF Bound
<1>3. \A i \in 0 .. n - 1 : qs[i].xquic_path_live = 1 => qs[i].xqc_path_id \in YP
  BY <1>2
<1>4. \A i \in ok, id \in XP : NewId(ok, i) # id
  <2>1. \A id \in XP : id \in Int /\ id < xq_next
    OBVIOUS
  <2> QED BY <1>1, <2>1
<1>5. \A i, j \in 0 .. n - 1 :
          (i # j /\ qs[i].xquic_path_live = 1 /\ qs[j].xquic_path_live = 1) =>
              qs[i].xqc_path_id # qs[j].xqc_path_id
  BY <1>1, <1>2, <1>4 DEF Bound
<1>6. \A id \in YP \ {0} :
          \E i \in 0 .. n - 1 : qs[i].xquic_path_live = 1 /\ qs[i].xqc_path_id = id
  <2>1. \A id \in XP \ {0} : \E i \in (0 .. n - 1) \ ok :
            ps[i].xquic_path_live = 1 /\ ps[i].xqc_path_id = id
    BY DEF Bound
  <2>2. \A id \in XP \ {0} :
            \E i \in 0 .. n - 1 : qs[i].xquic_path_live = 1 /\ qs[i].xqc_path_id = id
    <3> TAKE id \in XP \ {0}
    <3>1. PICK i \in (0 .. n - 1) \ ok : ps[i].xquic_path_live = 1 /\ ps[i].xqc_path_id = id
      BY <2>1
    <3>2. qs[i].xquic_path_live = 1 /\ qs[i].xqc_path_id = id
      BY <3>1
    <3>3. i \in 0 .. n - 1
      OBVIOUS
    <3> QED BY <3>2, <3>3
  <2>3. \A i \in ok : i \in 0 .. n - 1 /\ qs[i].xquic_path_live = 1
                       /\ qs[i].xqc_path_id = NewId(ok, i)
    OBVIOUS
  <2> TAKE id \in YP \ {0}
  <2>4. CASE id \in XP
    BY <2>2, <2>4
  <2>5. CASE id \in NewIdSet(ok)
    <3>1. PICK i \in ok : id = NewId(ok, i)
      BY <2>5
    <3> QED BY <2>3, <3>1
  <2> QED BY <2>4, <2>5
<1>7. YP \subseteq 0 .. m - 1
  <2>1. XP \subseteq 0 .. m - 1
    BY <1>1
  <2>2. \A i \in ok : NewId(ok, i) \in 0 .. m - 1
    BY <1>1
  <2> QED BY <2>1, <2>2
<1> QED BY <1>3, <1>5, <1>6, <1>7 DEF Bound

(* A table that is longer, or has other slots without a path, does too. *)
LEMMA BoundGrows ==
  ASSUME NEW ps, NEW qs, NEW n \in Nat, NEW k \in Nat, n <= k, NEW XP, Bound(ps, n, XP),
         \A i \in 0 .. n - 1 :
             \/ qs[i].xquic_path_live # 1 /\ ps[i].xquic_path_live # 1
             \/ qs[i] = ps[i],
         \A i \in 0 .. k - 1 : i >= n => qs[i].xquic_path_live # 1
  PROVE  Bound(qs, k, XP)
<1>1. \A i \in 0 .. n - 1 : i \in 0 .. k - 1
  OBVIOUS
<1>2. \A i \in 0 .. k - 1 : qs[i].xquic_path_live = 1 =>
          i \in 0 .. n - 1 /\ qs[i] = ps[i]
  OBVIOUS
<1>3. \A i \in 0 .. n - 1 : ps[i].xquic_path_live = 1 => qs[i] = ps[i]
  OBVIOUS
<1>4. \A id \in XP \ {0} :
          \E i \in 0 .. k - 1 : qs[i].xquic_path_live = 1 /\ qs[i].xqc_path_id = id
  BY <1>1, <1>3 DEF Bound
<1> QED BY <1>2, <1>4 DEF Bound

(* When xquic removes path id, the slot bound to it is unbound. *)
LEMMA BoundShrinks ==
  ASSUME NEW ps, NEW qs, NEW n \in Nat, NEW XP, NEW id, Bound(ps, n, XP),
         \A i \in 0 .. n - 1 :
             \/ qs[i].xquic_path_live # 1
                /\ (ps[i].xquic_path_live = 1 => ps[i].xqc_path_id = id)
             \/ /\ qs[i].xquic_path_live = 1 /\ ps[i].xquic_path_live = 1
                /\ qs[i].xqc_path_id = ps[i].xqc_path_id /\ ps[i].xqc_path_id # id
  PROVE  Bound(qs, n, XP \ {id})
<1>1. \A i \in 0 .. n - 1 : qs[i].xquic_path_live = 1 =>
          /\ ps[i].xquic_path_live = 1
          /\ qs[i].xqc_path_id = ps[i].xqc_path_id
          /\ ps[i].xqc_path_id # id
  OBVIOUS
<1>2. \A i \in 0 .. n - 1 : (ps[i].xquic_path_live = 1 /\ ps[i].xqc_path_id # id) =>
          qs[i].xquic_path_live = 1 /\ qs[i].xqc_path_id = ps[i].xqc_path_id
  OBVIOUS
<1>3. \A x \in (XP \ {id}) \ {0} :
          \E i \in 0 .. n - 1 : qs[i].xquic_path_live = 1 /\ qs[i].xqc_path_id = x
  BY <1>2 DEF Bound
<1> QED BY <1>1, <1>3 DEF Bound

-----------------------------------------------------------------------------
(* The inductive invariant *)

(* No slot holds an xquic path before the first connection, and what is    *)
(* attached is PENDING: the primary that cli_start_connection puts into    *)
(* VALIDATING by hand has nothing left over from another state.            *)
FreshSlots(ps) ==
    \A i \in Slots : /\ ps[i].xquic_path_live = 0
                     /\ ps[i].platform_attached = 1 => ps[i].state = "PENDING"

(* The slot table: every slot is well formed and those never used are as   *)
(* path_entry_init left them.                                              *)
SlotsOK(ps, n) ==
    /\ ps \in [Slots -> PathEntry]
    /\ \A i \in Slots : WellFormed(ps[i])
    /\ \A i \in Slots : i >= n => ps[i] = PathEntryInit

NoPending(ps, n) == \A i \in 0 .. n - 1 : ps[i].state # "PENDING"

(* TypeOK without the slot table. *)
ControlType ==
    /\ state \in States /\ conn \in {0, 1}
    /\ n_paths \in 0 .. MaxPaths
    /\ multipath_ready \in {0, 1} /\ primary_path_idx \in Slots
    /\ reconnect_scheduled \in {0, 1} /\ handshake_started \in {0, 1}
    /\ shutting_down \in {0, 1} /\ tun_active \in {0, 1}
    /\ masque \in {"none", "sent", "ok", "closed"}
    /\ xq \in {"none", "open", "closing"} /\ xq_paths \subseteq PathIds
    /\ xq_next \in 0 .. MaxPathId + 1 /\ xq_weight \in [PathIds -> Weights]

(* What the client state says of the connection.  The finality of CLOSED   *)
(* rests on the connection still being closed belonging to a shutdown.     *)
ControlInv ==
    /\ ConnMatchesState
    /\ TimerArmed
    /\ state = "CLOSED" => xq # "open" /\ (xq = "closing" => shutting_down = 1)
    /\ state = "CONNECTING" => masque = "none"
    /\ DeferredDisconnect = 0 => TunOnlyEstablished /\ state # "TUNNEL_READY"

(* The slots against xquic's paths. *)
BindingInv ==
    /\ state = "IDLE" => FreshSlots(paths) /\ multipath_ready = 0
    /\ conn = 1 => /\ Bound(paths, n_paths, xq_paths)
                   /\ xq_next >= 1
                   /\ xq_paths \subseteq 0 .. xq_next - 1
    /\ (conn = 1 /\ multipath_ready = 1 /\ Multipath = 1) => NoPending(paths, n_paths)

(* SlotInvariant and PathBinding are not inductive: the handlers rely on   *)
(* WellFormed, the bootstrap of the primary on FreshSlots, and the         *)
(* freshness of new path ids on the range of xq_paths.                     *)
Inv == ControlType /\ SlotsOK(paths, n_paths) /\ ControlInv /\ BindingInv

(* Slots are naturals, and there is at least one. *)
LEMMA SlotsInt ==
  Slots \subseteq Nat /\ 0 \in Slots /\ \A n \in 0 .. MaxPaths : 0 .. n - 1 \subseteq Slots
  BY MaxPathsAssumption DEF Slots

(* The initial state satisfies the invariant. *)
LEMMA InitInv == Init => Inv
<1> SUFFICES ASSUME Init PROVE Inv
  OBVIOUS
<1>1. \A i \in Slots : paths[i] = PathEntryInit /\ WellFormed(paths[i])
  BY InitWellFormed DEF Init
<1>2. ControlType
  <2>1. xq_weight \in [PathIds -> Weights]
    BY WeightsAssumption DEF Init
  <2>2. xq_next \in 0 .. MaxPathId + 1 /\ n_paths \in 0 .. MaxPaths
    BY MaxPathIdAssumption, MaxPathsAssumption DEF Init
  <2> QED BY <2>1, <2>2, SlotsInt DEF Init, ControlType, States
<1>3. SlotsOK(paths, n_paths)
  <2>1. \A i \in Slots : paths[i] \in PathEntry
    BY <1>1 DEF WellFormed
  <2>2. paths \in [Slots -> PathEntry]
    BY <2>1 DEF Init
  <2> QED BY <1>1, <2>2 DEF SlotsOK
<1>4. ControlInv
  BY DEF Init, ControlInv, ConnMatchesState, TimerArmed, TunOnlyEstablished
<1>5. BindingInv
  BY <1>1 DEF Init, BindingInv, FreshSlots, PathEntryInit
<1> QED BY <1>2, <1>3, <1>4, <1>5 DEF Inv

-----------------------------------------------------------------------------
(* Steps that leave the slots and xquic's paths alone *)

(* mqvpn_client_disconnect *)
LEMMA DisconnectInv == Inv /\ Disconnect => Inv'
<1> SUFFICES ASSUME Inv, Disconnect PROVE Inv'
  OBVIOUS
<1>1. UNCHANGED slotVars /\ conn' = conn /\ xq_paths' = xq_paths /\ xq_next' = xq_next
  BY DEF Disconnect, slotVars
<1>2. state' = "CLOSED"
  BY DEF Disconnect, SetState
<1>3. ControlType'
  BY DEF Inv, ControlType, Disconnect, SetState, slotVars, States
<1>4. ControlInv'
  BY DEF Inv, ControlType, ControlInv, ConnMatchesState, TimerArmed, TunOnlyEstablished,
         Disconnect, SetState, States
<1>5. BindingInv'
  BY <1>1, <1>2 DEF Inv, BindingInv, slotVars
<1> QED BY <1>1, <1>3, <1>4, <1>5 DEF Inv, slotVars

(* cb_h3_conn_handshake_finished *)
LEMMA HandshakeFinishedInv ==
  ASSUME Inv, NEW sent \in {0, 1}, HandshakeFinished(sent) PROVE Inv'
<1>1. UNCHANGED <<slotVars, xquicVars>> /\ conn' = conn
  BY DEF HandshakeFinished
<1>2. state' = "AUTHENTICATING"
  BY DEF HandshakeFinished, SetState
<1>3. ControlType'
  BY DEF Inv, ControlType, HandshakeFinished, MasqueStartTunnel, SetState, slotVars, xquicVars, States
<1>4. ControlInv'
  BY DEF Inv, ControlType, ControlInv, ConnMatchesState, TimerArmed, TunOnlyEstablished,
         HandshakeFinished, SetState, xquicVars
<1>5. BindingInv'
  BY <1>1, <1>2 DEF Inv, BindingInv, slotVars, xquicVars
<1> QED BY <1>1, <1>3, <1>4, <1>5 DEF Inv, slotVars

(* cli_connect_ip_on_headers and cb_request_close *)
LEMMA StreamInv == Inv /\ (TunnelAccepted \/ TunnelStreamClosed) => Inv'
<1> SUFFICES ASSUME Inv, TunnelAccepted \/ TunnelStreamClosed PROVE Inv'
  OBVIOUS
<1>1. /\ UNCHANGED <<slotVars, xquicVars, state, conn, reconnect_scheduled,
                     handshake_started, shutting_down, tun_active>>
      /\ masque' \in {"ok", "closed"} /\ masque # "none"
  BY DEF TunnelAccepted, TunnelStreamClosed, slotVars, xquicVars
<1>2. ControlType' /\ ControlInv'
  BY <1>1 DEF Inv, ControlType, ControlInv, ConnMatchesState, TimerArmed,
              TunOnlyEstablished, slotVars, xquicVars
<1>3. BindingInv'
  BY <1>1 DEF Inv, BindingInv, slotVars, xquicVars
<1> QED BY <1>1, <1>2, <1>3 DEF Inv, slotVars

(* cb_h3_conn_close *)
LEMMA ConnCloseInv == Inv /\ ConnClose => Inv'
<1> SUFFICES ASSUME Inv, ConnClose PROVE Inv'
  OBVIOUS
<1>1. UNCHANGED slotVars /\ conn' = 0 /\ xq' = "none"
  BY DEF ConnClose
<1>2. state' \in {"RECONNECTING", "CLOSED"}
  BY DEF ConnClose, SetState
<1>3. ControlType'
  BY DEF Inv, ControlType, ConnClose, SetState, slotVars, States
<1>4. ControlInv'
  BY DEF Inv, ControlType, ControlInv, ConnMatchesState, TimerArmed, TunOnlyEstablished,
         ConnClose, SetState, States
<1>5. BindingInv'
  BY <1>1, <1>2 DEF BindingInv
<1> QED BY <1>1, <1>3, <1>4, <1>5 DEF Inv, slotVars

(* tick_handshake_watchdog: its branch without a connection is not taken. *)
LEMMA WatchdogInv == Inv /\ TickHandshakeWatchdog => Inv'
<1> SUFFICES ASSUME Inv, TickHandshakeWatchdog PROVE Inv'
  OBVIOUS
<1>1. conn = 1
  BY DEF Inv, ControlInv, ConnMatchesState, TickHandshakeWatchdog
<1>2. /\ UNCHANGED slotVars /\ conn' = conn /\ xq_paths' = xq_paths /\ xq_next' = xq_next
      /\ xq' = "closing" /\ state' = state /\ handshake_started' = 0
      /\ UNCHANGED <<tun_active, reconnect_scheduled, shutting_down, masque, xq_weight>>
  BY <1>1 DEF TickHandshakeWatchdog
<1>3. ControlType' /\ ControlInv'
  BY <1>1, <1>2 DEF Inv, ControlType, ControlInv, ConnMatchesState, TimerArmed,
       TunOnlyEstablished, slotVars, TickHandshakeWatchdog
<1>4. BindingInv'
  BY <1>2 DEF Inv, BindingInv, slotVars
<1> QED BY <1>2, <1>3, <1>4 DEF Inv, slotVars

-----------------------------------------------------------------------------
(* Steps on one slot *)

(* Facts every step on slots starts from. *)
LEMMA InvSlots ==
  ASSUME Inv
  PROVE  /\ n_paths \in 0 .. MaxPaths /\ n_paths \in Nat
         /\ Used = 0 .. n_paths - 1
         /\ \A i \in Used : i \in Slots /\ WellFormed(paths[i]) /\ paths[i] \in PathEntry
  BY SlotsInt DEF Inv, ControlType, SlotsOK, Used, WellFormed

(* Replacing a used slot by a well-formed one keeps the table. *)
LEMMA SlotReplace ==
  ASSUME Inv, NEW i \in Used, NEW q, WellFormed(q), paths' = [paths EXCEPT ![i] = q]
  PROVE  /\ SlotsOK(paths', n_paths)
         /\ i \in Slots /\ paths'[i] = q
         /\ \A j \in Slots : j # i => paths'[j] = paths[j]
         /\ \A j \in 0 .. n_paths - 1 : j # i => paths'[j] = paths[j]
<1>1. /\ n_paths \in Nat /\ i \in Slots /\ i \in 0 .. n_paths - 1 /\ q \in PathEntry
      /\ \A j \in 0 .. n_paths - 1 : j \in Slots
  BY InvSlots DEF WellFormed
<1>2. SlotsOK(paths, n_paths)
  BY DEF Inv
<1>3. /\ paths' \in [Slots -> PathEntry] /\ paths'[i] = q
      /\ \A j \in Slots : j # i => paths'[j] = paths[j]
  BY <1>1, <1>2 DEF SlotsOK
<1>4. \A j \in Slots : WellFormed(paths'[j]) /\ (j >= n_paths => paths'[j] = PathEntryInit)
  BY <1>1, <1>2, <1>3 DEF SlotsOK
<1> QED BY <1>1, <1>3, <1>4 DEF SlotsOK

(* A step that changes one slot, keeps its binding and does not make it    *)
(* PENDING, keeps what the slots owe to xquic's paths.                     *)
LEMMA SlotStep ==
  ASSUME Inv, NEW i \in Used, NEW q, WellFormed(q),
         q.state = "PENDING" => paths[i].state = "PENDING",
         q.xquic_path_live = paths[i].xquic_path_live,
         q.xqc_path_id = paths[i].xqc_path_id,
         q.platform_attached = 1 => paths[i].platform_attached = 1,
         (q.platform_attached = 1 /\ paths[i].state = "PENDING") => q.state = "PENDING",
         paths' = [paths EXCEPT ![i] = q],
         state' = state \/ state' # "IDLE",
         UNCHANGED <<conn, multipath_ready, n_paths, xq_paths, xq_next>>
  PROVE  SlotsOK(paths, n_paths)' /\ BindingInv'
<1>1. /\ SlotsOK(paths', n_paths)
      /\ i \in Slots /\ paths'[i] = q
      /\ \A j \in Slots : j # i => paths'[j] = paths[j]
      /\ \A j \in 0 .. n_paths - 1 : j # i => paths'[j] = paths[j]
  BY SlotReplace
<1>2. \A j \in 0 .. n_paths - 1 : /\ paths'[j].xquic_path_live = paths[j].xquic_path_live
                                  /\ paths'[j].xqc_path_id = paths[j].xqc_path_id
  BY <1>1
<1>3. conn = 1 => Bound(paths', n_paths, xq_paths)
  <2>1. conn = 1 => Bound(paths, n_paths, xq_paths)
    BY DEF Inv, BindingInv
  <2> QED BY <1>2, <2>1, InvSlots, BoundKept
<1>4. NoPending(paths, n_paths) => NoPending(paths', n_paths)
  BY <1>1, InvSlots DEF NoPending
<1>5. FreshSlots(paths) => FreshSlots(paths')
  BY <1>1 DEF FreshSlots
<1> QED BY <1>1, <1>3, <1>4, <1>5 DEF Inv, BindingInv

(* mqvpn_client_remove_path, mqvpn_client_on_platform_path_dropped *)
LEMMA DropInv ==
  ASSUME Inv, NEW i \in Used,
         PlatformPathDropped(i) \/ \E failed \in {0, 1} : RemovePath(i, failed)
  PROVE  Inv'
<1> DEFINE q == OnDrop(paths[i])
<1>1. /\ UNCHANGED <<connVars, n_paths, multipath_ready, primary_path_idx, xq_paths,
                     xq_next, xq_weight>>
      /\ paths' = [paths EXCEPT ![i] = q]
      /\ xq' = xq \/ (conn = 1 /\ xq' = "closing")
  BY DEF PlatformPathDropped, RemovePath, xquicVars
<1>2. /\ WellFormed(q) /\ q.state # "PENDING"
      /\ q.xquic_path_live = paths[i].xquic_path_live
      /\ q.xqc_path_id = paths[i].xqc_path_id
  BY InvSlots, DropWellFormed
<1>3. q.platform_attached = 0
  BY InvSlots DEF OnDrop, WellFormed, PathInvariant, PathEntry
<1>4. UNCHANGED <<state, conn, multipath_ready, n_paths, xq_paths, xq_next>>
  BY <1>1 DEF connVars
<1> HIDE DEF q
<1>5. SlotsOK(paths, n_paths)' /\ BindingInv'
  <2>1. /\ q.state = "PENDING" => paths[i].state = "PENDING"
        /\ q.platform_attached = 1 => paths[i].platform_attached = 1
        /\ (q.platform_attached = 1 /\ paths[i].state = "PENDING") => q.state = "PENDING"
    BY <1>2, <1>3
  <2> QED BY <1>1, <1>2, <1>4, <2>1, SlotStep
<1>6. ControlType' /\ ControlInv'
  BY <1>1 DEF Inv, ControlType, ControlInv, ConnMatchesState, TimerArmed,
              TunOnlyEstablished, connVars
<1> QED BY <1>5, <1>6 DEF Inv

(* mqvpn_client_on_platform_fd_closed *)
LEMMA FdClosedInv ==
  ASSUME Inv, NEW i \in Used, PlatformFdClosed(i) PROVE Inv'
<1> DEFINE q == OnFdClosed(paths[i])
<1>1. /\ UNCHANGED <<connVars, n_paths, multipath_ready, primary_path_idx, xquicVars>>
      /\ paths' = [paths EXCEPT ![i] = q]
  BY DEF PlatformFdClosed
<1>2. /\ WellFormed(q)
      /\ q.state = "PENDING" => paths[i].state = "PENDING"
      /\ q.xquic_path_live = paths[i].xquic_path_live
      /\ q.xqc_path_id = paths[i].xqc_path_id
  BY InvSlots, FdClosedWellFormed
<1>3. /\ q.platform_attached = paths[i].platform_attached
      /\ paths[i].state = "PENDING" => q.state = "PENDING"
  BY InvSlots DEF OnFdClosed, MaybeFree, PathEntry
<1>4. UNCHANGED <<state, conn, multipath_ready, n_paths, xq_paths, xq_next>>
  BY <1>1 DEF connVars, xquicVars
<1> HIDE DEF q
<1>5. SlotsOK(paths, n_paths)' /\ BindingInv'
  BY <1>1, <1>2, <1>3, <1>4, SlotStep
<1>6. ControlType' /\ ControlInv'
  BY <1>1 DEF Inv, ControlType, ControlInv, ConnMatchesState, TimerArmed,
              TunOnlyEstablished, connVars, xquicVars
<1> QED BY <1>5, <1>6 DEF Inv

(* mqvpn_client_set_path_weight *)
LEMMA SetPathWeightInv ==
  ASSUME Inv, NEW i \in Used, NEW w \in Weights, SetPathWeight(i, w) PROVE Inv'
<1> DEFINE q == [paths[i] EXCEPT !.weight = w]
<1>1. /\ UNCHANGED <<connVars, n_paths, multipath_ready, primary_path_idx, xq, xq_paths,
                     xq_next>>
      /\ paths' = [paths EXCEPT ![i] = q]
  BY DEF SetPathWeight
<1>2. /\ WellFormed(q) /\ q.state = paths[i].state
      /\ q.xquic_path_live = paths[i].xquic_path_live
      /\ q.xqc_path_id = paths[i].xqc_path_id
  BY InvSlots, WeightWellFormed
<1>3. q.platform_attached = paths[i].platform_attached
  BY InvSlots DEF PathEntry
<1>4. UNCHANGED <<state, conn, multipath_ready, n_paths, xq_paths, xq_next>>
  BY <1>1 DEF connVars
<1> HIDE DEF q
<1>5. SlotsOK(paths, n_paths)' /\ BindingInv'
  BY <1>1, <1>2, <1>3, <1>4, SlotStep
<1>6. xq_weight' \in [PathIds -> Weights]
  <2>1. paths[i].xqc_path_id \in PathIds
    BY InvSlots DEF PathEntry
  <2> QED BY <2>1 DEF SetPathWeight, Inv, ControlType
<1>7. ControlType' /\ ControlInv'
  BY <1>1, <1>6 DEF Inv, ControlType, ControlInv, ConnMatchesState, TimerArmed,
              TunOnlyEstablished, connVars
<1> QED BY <1>5, <1>7 DEF Inv

(* cli_connect_ip_on_body with an ADDRESS_ASSIGN capsule *)
LEMMA AddressAssignedInv ==
  ASSUME Inv, NEW tunUp \in {0, 1}, AddressAssigned(tunUp) PROVE Inv'
<1> DEFINE i == primary_path_idx
           q == OnValidationOk(paths[i], "ACTIVE")
<1>1. /\ state = "AUTHENTICATING" /\ conn = 1 /\ xq = "open"
      /\ state' \in {"ESTABLISHED", "TUNNEL_READY", "CLOSED"}
      /\ UNCHANGED <<conn, reconnect_scheduled, handshake_started, masque, n_paths,
                     multipath_ready, primary_path_idx, xq_paths, xq_next, xq_weight>>
  BY DEF AddressAssigned, Inv, ControlType, ControlInv, ConnMatchesState, States
<1>2. ControlType' /\ ControlInv'
  BY <1>1, ConfigAssumption DEF AddressAssigned, Inv, ControlType, ControlInv, ConnMatchesState, TimerArmed,
              TunOnlyEstablished, States
<1>3. CASE paths' = paths
  BY <1>1, <1>2, <1>3 DEF Inv, BindingInv
<1>4. CASE paths' # paths
  <2>1. i \in Used /\ paths' = [paths EXCEPT ![i] = q]
    BY <1>4, SlotsInt DEF AddressAssigned, Used, Inv, ControlType
  <2>2. /\ WellFormed(q)
        /\ q.state = "PENDING" => paths[i].state = "PENDING"
        /\ q.xquic_path_live = paths[i].xquic_path_live
        /\ q.xqc_path_id = paths[i].xqc_path_id
    BY <2>1, InvSlots, ValidationWellFormed
  <2>3. /\ q.platform_attached = paths[i].platform_attached
        /\ paths[i].state = "PENDING" => q.state = "PENDING"
    BY <2>1, InvSlots DEF OnValidationOk, PathEntry
  <2> HIDE DEF q, i
  <2>4. SlotsOK(paths, n_paths)' /\ BindingInv'
    BY <1>1, <2>1, <2>2, <2>3, SlotStep
  <2> QED BY <1>2, <2>4 DEF Inv
<1> QED BY <1>3, <1>4

(* cb_path_removed: the slot found is the one bound to the path. *)
LEMMA PathRemovedInv ==
  ASSUME Inv, NEW id \in xq_paths, PathRemoved(id) PROVE Inv'
<1> DEFINE hit == {i \in Used : paths[i].xquic_path_live = 1 /\ paths[i].xqc_path_id = id}
<1>1. /\ UNCHANGED <<connVars, n_paths, multipath_ready, primary_path_idx, xq, xq_next,
                     xq_weight>>
      /\ xq_paths' = xq_paths \ {id}
  BY DEF PathRemoved
<1>2. ControlType' /\ ControlInv'
  BY <1>1 DEF Inv, ControlType, ControlInv, ConnMatchesState, TimerArmed,
              TunOnlyEstablished, connVars
<1>3. CASE hit = {}
  <2>1. paths' = paths
    BY <1>3 DEF PathRemoved
  <2>2. \A j \in 0 .. n_paths - 1 : paths[j].xquic_path_live = 1 => paths[j].xqc_path_id # id
    BY <1>3 DEF Used
  <2>3. conn = 1 => Bound(paths, n_paths, xq_paths')
    <3>1. conn = 1 => Bound(paths, n_paths, xq_paths)
      BY DEF Inv, BindingInv
    <3>2. Bound(paths, n_paths, xq_paths) => Bound(paths, n_paths, xq_paths')
      BY <1>1, <2>2 DEF Bound
    <3> QED BY <3>1, <3>2
  <2> QED BY <1>1, <1>2, <2>1, <2>3 DEF Inv, BindingInv, connVars
<1>4. CASE hit # {}
  <2> DEFINE i == CHOOSE k \in hit : \A j \in hit : k <= j
             q == OnXquicRemoved(paths[i])
  <2>1. i \in hit
    <3>1. hit \subseteq Nat
      BY InvSlots, SlotsInt
    <3> QED BY <1>4, <3>1, LeastNatural
  <2>2. paths' = [paths EXCEPT ![i] = q]
    BY <1>4 DEF PathRemoved
  <2>3. i \in Used /\ paths[i].xquic_path_live = 1 /\ paths[i].xqc_path_id = id
    BY <2>1
  <2> HIDE DEF i, hit
  <2>4. WellFormed(q) /\ q.state # "PENDING" /\ q.xquic_path_live = 0
    BY <2>3, InvSlots, RemovedWellFormed
  <2> HIDE DEF q
  <2>5. /\ SlotsOK(paths', n_paths)
        /\ i \in Slots /\ paths'[i] = q
        /\ \A j \in Slots : j # i => paths'[j] = paths[j]
        /\ \A j \in 0 .. n_paths - 1 : j # i => paths'[j] = paths[j]
    BY <2>2, <2>3, <2>4, SlotReplace
  <2>6. conn = 1 => Bound(paths', n_paths, xq_paths')
    <3> SUFFICES ASSUME conn = 1 PROVE Bound(paths', n_paths, xq_paths')
      OBVIOUS
    <3>1. Bound(paths, n_paths, xq_paths)
      BY DEF Inv, BindingInv
    <3>2. \A j \in 0 .. n_paths - 1 :
             \/ /\ paths'[j].xquic_path_live # 1
                /\ (paths[j].xquic_path_live = 1 => paths[j].xqc_path_id = id)
             \/ /\ paths'[j].xquic_path_live = 1 /\ paths[j].xquic_path_live = 1
                /\ paths'[j].xqc_path_id = paths[j].xqc_path_id /\ paths[j].xqc_path_id # id
      <4> TAKE j \in 0 .. n_paths - 1
      <4>1. CASE j = i
        BY <2>3, <2>4, <2>5, <4>1
      <4>2. CASE j # i
        <5>1. paths[j].xquic_path_live = 1 => paths[j].xqc_path_id # id
          BY <2>3, <3>1, <4>2, InvSlots DEF Bound
        <5> QED BY <2>5, <4>2, <5>1
      <4> QED BY <4>1, <4>2
    <3>3. Bound(paths', n_paths, xq_paths \ {id})
      BY <3>1, <3>2, InvSlots, BoundShrinks
    <3> QED BY <1>1, <3>3
  <2>7. NoPending(paths, n_paths) => NoPending(paths', n_paths)
    BY <2>4, <2>5, InvSlots DEF NoPending
  <2>8. state # "IDLE"
    <3>1. state = "IDLE" => paths[i].xquic_path_live = 0
      BY <2>5 DEF Inv, BindingInv, FreshSlots
    <3> QED BY <2>3, <3>1
  <2>9. conn = 1 => xq_next >= 1 /\ xq_paths' \subseteq 0 .. xq_next - 1
    BY <1>1 DEF Inv, BindingInv
  <2>10. BindingInv'
    BY <1>1, <2>6, <2>7, <2>8, <2>9 DEF Inv, BindingInv, connVars
  <2> QED BY <1>1, <1>2, <2>5, <2>10 DEF Inv
<1> QED BY <1>3, <1>4

-----------------------------------------------------------------------------
(* Steps that create paths *)

(* xqc_conn_create_path for the slots of ok keeps the path budget. *)
LEMMA CreateType ==
  ASSUME NEW n \in Nat, NEW ok \in SUBSET (0 .. n - 1), xq_next \in 0 .. MaxPathId + 1,
         xq_paths \subseteq PathIds, CanCreate(ok), CreatePaths(ok)
  PROVE  /\ Cardinality(ok) \in Nat /\ xq_next' \in Nat
         /\ xq_next' \in 0 .. MaxPathId + 1 /\ xq_next' >= xq_next
         /\ xq_next' = xq_next + Cardinality(ok)
         /\ xq_paths' = xq_paths \cup NewIdSet(ok)
         /\ xq_paths' \subseteq PathIds
         /\ \A i \in ok : NewId(ok, i) \in PathIds
<1>1. n - 1 \in Int /\ xq_next \in Nat
  BY MaxPathIdAssumption
<1>2. Cardinality(ok) \in Nat /\ \A i \in ok : NewId(ok, i) \in PathIds
  BY <1>1, NewIds
<1>3. ok = {} => Cardinality(ok) = 0
  BY FS_EmptySet
<1>4. /\ xq_next + Cardinality(ok) \in 0 .. MaxPathId + 1
      /\ xq_next + Cardinality(ok) \in Nat
  BY <1>1, <1>2, <1>3, MaxPathIdAssumption DEF CanCreate
<1>5. xq_next + Cardinality(ok) >= xq_next
  BY <1>1, <1>2
<1> QED BY <1>2, <1>4, <1>5 DEF CreatePaths, NewIdSet

(* activate_pending_paths on a table ps of n slots: what succeeds is bound *)
(* to a new path and nothing stays PENDING.                                *)
LEMMA ActivateAll ==
  ASSUME NEW ps, NEW n \in 0 .. MaxPaths, SlotsOK(ps, n), Bound(ps, n, xq_paths),
         xq_next \in 0 .. MaxPathId + 1, xq_next >= 1, xq_paths \subseteq PathIds,
         xq_paths \subseteq 0 .. xq_next - 1, xq_weight \in [PathIds -> Weights],
         NEW res \in [Pending(ps, n) -> ActivateResult], ActivatePendingPaths(ps, n, res)
  PROVE  /\ SlotsOK(paths', n) /\ Bound(paths', n, xq_paths') /\ NoPending(paths', n)
         /\ xq_next' \in 0 .. MaxPathId + 1 /\ xq_next' >= 1 /\ xq_paths' \subseteq PathIds
         /\ xq_paths' \subseteq 0 .. xq_next' - 1 /\ xq_weight' \in [PathIds -> Weights]
         /\ xq' = xq
<1> DEFINE pend == Pending(ps, n)
           ok   == {i \in pend : res[i] = "OK"}
           f(i) == OnActivateRequested(ps[i], res[i], NewId(ok, i))
<1>1. /\ CanCreate(ok) /\ CreatePaths(ok) /\ xq' = xq
      /\ paths' = [i \in Slots |-> IF i \in pend THEN f(i) ELSE ps[i]]
      /\ xq_weight' = [id \in PathIds |->
                          IF \E i \in ok : NewId(ok, i) = id /\ ps[i].weight > 0
                          THEN ps[CHOOSE i \in ok : NewId(ok, i) = id].weight
                          ELSE xq_weight[id]]
  BY DEF ActivatePendingPaths
<1>2. /\ pend \subseteq 0 .. n - 1 /\ ok \in SUBSET (0 .. n - 1) /\ n \in Nat
      /\ 0 .. n - 1 \subseteq Slots
      /\ \A i \in pend : ps[i].state = "PENDING" /\ ps[i].xquic_path_live = 0
  BY SlotsInt, MaxPathsAssumption DEF Pending
<1>3. /\ Cardinality(ok) \in Nat /\ xq_next' \in Nat
      /\ xq_next' \in 0 .. MaxPathId + 1 /\ xq_next' >= xq_next
      /\ xq_next' = xq_next + Cardinality(ok)
      /\ xq_paths' = xq_paths \cup NewIdSet(ok)
      /\ xq_paths' \subseteq PathIds
      /\ \A i \in ok : NewId(ok, i) \in PathIds
  BY <1>1, <1>2, CreateType
<1>4. \A i \in pend : /\ WellFormed(f(i))
                      /\ f(i).state # "PENDING"
                      /\ f(i).xquic_path_live = 1 <=> i \in ok
                      /\ i \in ok => f(i).xqc_path_id = NewId(ok, i)
  <2> TAKE i \in pend
  <2>1. WellFormed(ps[i]) /\ ps[i].state = "PENDING" /\ res[i] \in ActivateResult
    BY <1>2 DEF SlotsOK
  <2>2. res[i] = "OK" <=> i \in ok
    OBVIOUS
  <2>3. res[i] = "OK" => NewId(ok, i) \in PathIds
    BY <1>3, <2>2
  <2> HIDE DEF ok
  <2> QED BY <2>1, <2>2, <2>3, ActivateWellFormed
<1>5. /\ \A i \in pend : i \in Slots /\ paths'[i] = f(i)
      /\ \A i \in Slots : i \notin pend => paths'[i] = ps[i]
  BY <1>1, <1>2
<1>6. ok \subseteq pend
  OBVIOUS
<1>7. SlotsOK(paths', n)
  <2>1. \A i \in Slots : WellFormed(paths'[i])
    BY <1>4, <1>5 DEF SlotsOK
  <2>2. \A i \in Slots : i >= n => paths'[i] = PathEntryInit
    <3>1. \A i \in Slots : i >= n => i \notin pend
      BY <1>2, SlotsInt
    <3> QED BY <1>5, <3>1 DEF SlotsOK
  <2>3. paths' \in [Slots -> PathEntry]
    <3>1. \A i \in Slots : paths'[i] \in PathEntry
      BY <2>1 DEF WellFormed
    <3> QED BY <1>1, <3>1
  <2> QED BY <2>1, <2>2, <2>3 DEF SlotsOK
<1>8. NoPending(paths', n)
  <2> SUFFICES ASSUME NEW i \in 0 .. n - 1 PROVE paths'[i].state # "PENDING"
    BY DEF NoPending
  <2>1. CASE i \in pend
    BY <1>4, <1>5, <2>1
  <2>2. CASE i \notin pend
    <3>1. WellFormed(ps[i]) /\ ps[i] \in PathEntry /\ paths'[i] = ps[i]
      BY <1>2, <1>5, <2>2 DEF SlotsOK
    <3>2. ps[i].state = "PENDING" => ps[i].xquic_path_live = 0
      BY <3>1 DEF WellFormed, PathInvariant
    <3> QED BY <2>2, <3>1, <3>2 DEF Pending
  <2> QED BY <2>1, <2>2
<1> HIDE DEF f, ok, pend
<1>9. /\ Bound(paths', n, xq_paths')
      /\ xq_paths' \subseteq 0 .. xq_next' - 1
  <2>1. \A i \in ok : /\ paths'[i].xquic_path_live = 1
                      /\ paths'[i].xqc_path_id = NewId(ok, i)
                      /\ ps[i].xquic_path_live # 1
    BY <1>2, <1>4, <1>5, <1>6
  <2>2. \A i \in (0 .. n - 1) \ ok :
             \/ paths'[i].xquic_path_live # 1 /\ ps[i].xquic_path_live # 1
             \/ /\ paths'[i].xquic_path_live = 1 /\ ps[i].xquic_path_live = 1
                /\ paths'[i].xqc_path_id = ps[i].xqc_path_id
    <3> TAKE i \in (0 .. n - 1) \ ok
    <3>1. CASE i \in pend
      BY <1>2, <1>4, <1>5, <3>1
    <3>2. CASE i \notin pend
      BY <1>2, <1>5, <3>2
    <3> QED BY <3>1, <3>2
  <2>3. xq_next \in Nat
    BY MaxPathIdAssumption
  <2>4. n \in Nat /\ CanCreate(ok) /\ NewlyBound(ps, paths', n, ok)
    BY <1>1, <1>2, <2>1, <2>2 DEF NewlyBound
  <2>5. /\ Bound(paths', n, xq_paths \cup NewIdSet(ok))
        /\ xq_paths \cup NewIdSet(ok) \subseteq 0 .. (xq_next + Cardinality(ok)) - 1
    BY <2>3, <2>4, BoundExtends
  <2> QED BY <1>3, <2>5
<1>10. xq_weight' \in [PathIds -> Weights]
  <2>1. \A id \in PathIds : xq_weight'[id] \in Weights
    <3> TAKE id \in PathIds
    <3>1. CASE \E i \in ok : NewId(ok, i) = id /\ ps[i].weight > 0
      <4> DEFINE k == CHOOSE i \in ok : NewId(ok, i) = id
      <4>1. k \in ok
        BY <3>1
      <4>2. ps[k] \in PathEntry
        BY <1>2, <4>1 DEF SlotsOK
      <4>3. xq_weight'[id] = ps[k].weight
        BY <1>1, <3>1
      <4> HIDE DEF k
      <4> QED BY <4>2, <4>3 DEF PathEntry
    <3>2. CASE ~(\E i \in ok : NewId(ok, i) = id /\ ps[i].weight > 0)
      BY <1>1, <3>2
    <3> QED BY <3>1, <3>2
  <2> QED BY <1>1, <2>1
<1>11. xq_next' >= 1
  BY <1>3, MaxPathIdAssumption
<1> QED BY <1>1, <1>3, <1>7, <1>8, <1>9, <1>10, <1>11

(* cb_ready_to_create_path *)
LEMMA ReadyToCreatePathInv == Inv /\ ReadyToCreatePath => Inv'
<1> SUFFICES ASSUME Inv, ReadyToCreatePath PROVE Inv'
  OBVIOUS
<1>1. /\ UNCHANGED <<connVars, n_paths, primary_path_idx>> /\ multipath_ready' = 1
      /\ xq = "open" /\ conn = 1 /\ state # "IDLE"
  BY DEF ReadyToCreatePath, Inv, ControlInv, ConnMatchesState, ControlType
<1>2. CASE Multipath = 1
  <2>1. PICK res \in [Pending(paths, n_paths) -> ActivateResult] :
            ActivatePendingPaths(paths, n_paths, res)
    BY <1>2 DEF ReadyToCreatePath
  <2>2. /\ SlotsOK(paths', n_paths) /\ Bound(paths', n_paths, xq_paths')
        /\ NoPending(paths', n_paths)
        /\ xq_next' \in 0 .. MaxPathId + 1 /\ xq_next' >= 1 /\ xq_paths' \subseteq PathIds
        /\ xq_paths' \subseteq 0 .. xq_next' - 1 /\ xq_weight' \in [PathIds -> Weights]
        /\ xq' = xq
    BY <1>1, <2>1, ActivateAll DEF Inv, ControlType, BindingInv
  <2>3. ControlType' /\ ControlInv'
    BY <1>1, <2>2 DEF Inv, ControlType, ControlInv, ConnMatchesState, TimerArmed,
                TunOnlyEstablished, connVars
  <2>4. BindingInv'
    BY <1>1, <2>2 DEF BindingInv, connVars
  <2> QED BY <1>1, <2>2, <2>3, <2>4 DEF Inv
<1>3. CASE Multipath # 1
  <2>1. paths' = paths /\ UNCHANGED xquicVars
    BY <1>3 DEF ReadyToCreatePath
  <2>2. ControlType' /\ ControlInv'
    BY <1>1, <2>1 DEF Inv, ControlType, ControlInv, ConnMatchesState, TimerArmed,
                TunOnlyEstablished, connVars, xquicVars
  <2>3. BindingInv'
    BY <1>1, <1>3, <2>1 DEF Inv, BindingInv, connVars, xquicVars
  <2> QED BY <1>1, <2>1, <2>2, <2>3 DEF Inv
<1> QED BY <1>2, <1>3

(* The slot add_path_fd takes has no xquic path. *)
LEMMA AddSlotFree ==
  ASSUME Inv, AddSlot < MaxPaths
  PROVE  /\ AddSlot \in Slots
         /\ AddSlot = n_paths \/ AddSlot \in Used
         /\ AddSlot \in Used => paths[AddSlot].xquic_path_live = 0
<1>1. CASE Reusable = {}
  <2>1. AddSlot = n_paths
    BY <1>1 DEF AddSlot
  <2> QED BY <2>1, InvSlots, MaxPathsAssumption DEF Slots
<1>2. CASE Reusable # {}
  <2>1. Reusable \subseteq Used /\ Reusable \subseteq Nat
    BY InvSlots, SlotsInt DEF Reusable
  <2>2. AddSlot \in Reusable
    BY <1>2, <2>1, LeastNatural DEF AddSlot
  <2> QED BY <2>1, <2>2, InvSlots DEF Reusable
<1> QED BY <1>1, <1>2

(* mqvpn_client_add_path_fd_with_outcome *)
LEMMA AddPathFdInv ==
  ASSUME Inv, NEW flag \in Flags, NEW weight \in Weights, AddPathFd(flag, weight)
  PROVE  Inv'
<1> DEFINE idx == AddSlot
           n   == IF idx = n_paths THEN n_paths + 1 ELSE n_paths
           q   == OnAddFd([PathEntryInit EXCEPT !.fd = 0, !.backup = flag, !.weight = weight])
           ps  == [paths EXCEPT ![idx] = q]
<1>1. /\ idx < MaxPaths /\ n_paths' = n
      /\ IF multipath_ready = 1 /\ Multipath = 1 /\ conn = 1
         THEN \E res \in [Pending(ps, n) -> ActivateResult] : ActivatePendingPaths(ps, n, res)
         ELSE paths' = ps /\ UNCHANGED xquicVars
      /\ UNCHANGED <<connVars, multipath_ready, primary_path_idx>>
  BY DEF AddPathFd
<1>2. WellFormed(q) /\ q.state = "PENDING" /\ q.xquic_path_live = 0 /\ q \in PathEntry
  <2>1. flag \in {0, 1}
    BY ConfigAssumption
  <2>2. WellFormed(q) /\ q.state = "PENDING" /\ q.xquic_path_live = 0
    BY <2>1, AddFdWellFormed
  <2> HIDE DEF q
  <2> QED BY <2>2 DEF WellFormed
<1>3. /\ idx \in Slots
      /\ idx = n_paths \/ idx \in Used
      /\ idx \in Used => paths[idx].xquic_path_live = 0
  BY <1>1, AddSlotFree
<1> HIDE DEF q, idx
<1>4. /\ n \in 0 .. MaxPaths /\ n \in Nat /\ n_paths <= n
      /\ \A i \in Slots : i >= n => i # idx /\ i >= n_paths
      /\ \A i \in 0 .. n - 1 : i >= n_paths => i = idx
      /\ \A i \in 0 .. n - 1 : i \in Slots
  BY <1>1, <1>3, InvSlots, MaxPathsAssumption DEF Slots
<1>5. SlotsOK(paths, n_paths)
  BY DEF Inv
<1>6. /\ ps \in [Slots -> PathEntry] /\ ps[idx] = q
      /\ \A i \in Slots : i # idx => ps[i] = paths[i]
  BY <1>2, <1>3, <1>5 DEF SlotsOK
<1> HIDE DEF n, ps
<1>7. SlotsOK(ps, n)
  BY <1>2, <1>4, <1>5, <1>6 DEF SlotsOK
<1>8. conn = 1 => Bound(ps, n, xq_paths)
  <2> SUFFICES ASSUME conn = 1 PROVE Bound(ps, n, xq_paths)
    OBVIOUS
  <2>1. Bound(paths, n_paths, xq_paths)
    BY DEF Inv, BindingInv
  <2>2. \A i \in 0 .. n_paths - 1 :
            \/ ps[i].xquic_path_live # 1 /\ paths[i].xquic_path_live # 1
            \/ ps[i] = paths[i]
    BY <1>2, <1>3, <1>6, InvSlots
  <2>3. \A i \in 0 .. n - 1 : i >= n_paths => ps[i].xquic_path_live # 1
    BY <1>2, <1>4, <1>6
  <2> QED BY <1>4, <2>1, <2>2, <2>3, InvSlots, BoundGrows
<1>9. FreshSlots(paths) => FreshSlots(ps)
  BY <1>2, <1>6 DEF FreshSlots
<1>10. CASE multipath_ready = 1 /\ Multipath = 1 /\ conn = 1
  <2>1. PICK res \in [Pending(ps, n) -> ActivateResult] : ActivatePendingPaths(ps, n, res)
    BY <1>1, <1>10
  <2>2. /\ SlotsOK(paths', n) /\ Bound(paths', n, xq_paths')
        /\ NoPending(paths', n)
        /\ xq_next' \in 0 .. MaxPathId + 1 /\ xq_next' >= 1 /\ xq_paths' \subseteq PathIds
        /\ xq_paths' \subseteq 0 .. xq_next' - 1 /\ xq_weight' \in [PathIds -> Weights]
        /\ xq' = xq
    BY <1>4, <1>7, <1>8, <1>10, <2>1, ActivateAll DEF Inv, ControlType, BindingInv
  <2>3. ControlType' /\ ControlInv'
    BY <1>1, <1>4, <2>2 DEF Inv, ControlType, ControlInv, ConnMatchesState, TimerArmed,
                TunOnlyEstablished, connVars
  <2>4. state # "IDLE"
    BY <1>10 DEF Inv, ControlInv, ConnMatchesState
  <2>5. BindingInv'
    BY <1>1, <2>2, <2>4 DEF BindingInv, connVars
  <2> QED BY <1>1, <2>2, <2>3, <2>5 DEF Inv
<1>11. CASE ~(multipath_ready = 1 /\ Multipath = 1 /\ conn = 1)
  <2>1. paths' = ps /\ UNCHANGED xquicVars
    BY <1>1, <1>11
  <2>2. ControlType' /\ ControlInv'
    BY <1>1, <1>4, <2>1 DEF Inv, ControlType, ControlInv, ConnMatchesState, TimerArmed,
                TunOnlyEstablished, connVars, xquicVars
  <2>3. BindingInv'
    BY <1>1, <1>8, <1>9, <1>11, <2>1 DEF Inv, BindingInv, connVars, xquicVars
  <2> QED BY <1>1, <1>7, <2>1, <2>2, <2>3 DEF Inv
<1> QED BY <1>10, <1>11

(* mqvpn_client_reactivate_path *)
LEMMA ReactivatePathInv ==
  ASSUME Inv, NEW i \in Used, NEW result \in ActivateResult, ReactivatePath(i, result)
  PROVE  Inv'
<1> DEFINE ok == IF result = "OK" THEN {i} ELSE {}
           q  == OnManualReactivate(paths[i], result, NewId(ok, i))
<1>1. /\ CanCreate(ok) /\ CreatePaths(ok) /\ ReactivateEligible(paths[i])
      /\ state = "ESTABLISHED" /\ paths' = [paths EXCEPT ![i] = q]
      /\ UNCHANGED <<connVars, n_paths, multipath_ready, primary_path_idx, xq, xq_weight>>
  BY DEF ReactivatePath
<1>2. conn = 1 /\ n_paths \in Nat /\ ok \in SUBSET (0 .. n_paths - 1) /\ i \in 0 .. n_paths - 1
  BY <1>1, InvSlots DEF Inv, ControlInv, ConnMatchesState
<1>3. /\ Cardinality(ok) \in Nat /\ xq_next' \in Nat
      /\ xq_next' \in 0 .. MaxPathId + 1 /\ xq_next' >= xq_next
      /\ xq_next' = xq_next + Cardinality(ok)
      /\ xq_paths' = xq_paths \cup NewIdSet(ok)
      /\ xq_paths' \subseteq PathIds
      /\ \A j \in ok : NewId(ok, j) \in PathIds
  BY <1>1, <1>2, CreateType DEF Inv, ControlType
<1>4. /\ WellFormed(q) /\ q.state # "PENDING"
      /\ q.xquic_path_live = 1 <=> i \in ok
      /\ i \in ok => q.xqc_path_id = NewId(ok, i)
  <2>1. result = "OK" <=> i \in ok
    OBVIOUS
  <2>2. result = "OK" => NewId(ok, i) \in PathIds
    BY <1>3, <2>1
  <2>3. WellFormed(paths[i])
    BY InvSlots
  <2>4. paths[i].state \in {"CLOSED_RECOVERABLE", "CREATE_WAIT", "DEGRADED"}
    BY <1>1 DEF ReactivateEligible
  <2> HIDE DEF ok
  <2> QED BY <2>1, <2>2, <2>3, <2>4, ReactivateWellFormed
<1>5. \A j \in ok : j = i
  OBVIOUS
<1>6. paths[i].xquic_path_live = 0
  BY <1>1 DEF ReactivateEligible
<1> HIDE DEF ok, q
<1>7. /\ SlotsOK(paths', n_paths)
      /\ i \in Slots /\ paths'[i] = q
      /\ \A j \in Slots : j # i => paths'[j] = paths[j]
      /\ \A j \in 0 .. n_paths - 1 : j # i => paths'[j] = paths[j]
  BY <1>1, <1>4, SlotReplace
<1>8. NewlyBound(paths, paths', n_paths, ok)
  <2>1. \A j \in ok : /\ paths'[j].xquic_path_live = 1
                      /\ paths'[j].xqc_path_id = NewId(ok, j)
                      /\ paths[j].xquic_path_live # 1
    BY <1>4, <1>5, <1>6, <1>7
  <2>2. \A j \in (0 .. n_paths - 1) \ ok :
             \/ paths'[j].xquic_path_live # 1 /\ paths[j].xquic_path_live # 1
             \/ /\ paths'[j].xquic_path_live = 1 /\ paths[j].xquic_path_live = 1
                /\ paths'[j].xqc_path_id = paths[j].xqc_path_id
    <3> TAKE j \in (0 .. n_paths - 1) \ ok
    <3>1. CASE j = i
      BY <1>4, <1>6, <1>7, <3>1
    <3>2. CASE j # i
      BY <1>7, <3>2
    <3> QED BY <3>1, <3>2
  <2> QED BY <1>2, <2>1, <2>2 DEF NewlyBound
<1>9. Bound(paths', n_paths, xq_paths') /\ xq_paths' \subseteq 0 .. xq_next' - 1
  <2>1. /\ xq_next \in Nat /\ xq_next >= 1 /\ xq_paths \subseteq 0 .. xq_next - 1
        /\ Bound(paths, n_paths, xq_paths)
    BY <1>2, MaxPathIdAssumption DEF Inv, ControlType, BindingInv
  <2>2. /\ Bound(paths', n_paths, xq_paths \cup NewIdSet(ok))
        /\ xq_paths \cup NewIdSet(ok) \subseteq 0 .. (xq_next + Cardinality(ok)) - 1
    BY <1>1, <1>2, <1>8, <2>1, BoundExtends
  <2> QED BY <1>3, <2>2
<1>10. NoPending(paths, n_paths) => NoPending(paths', n_paths)
  BY <1>4, <1>7 DEF NoPending
<1>11. ControlType' /\ ControlInv'
  BY <1>1, <1>3 DEF Inv, ControlType, ControlInv, ConnMatchesState, TimerArmed,
              TunOnlyEstablished, connVars
<1>12. xq_next' >= 1
  BY <1>2, <1>3, MaxPathIdAssumption DEF Inv, ControlType, BindingInv
<1>13. BindingInv'
  BY <1>1, <1>9, <1>10, <1>12 DEF Inv, BindingInv, connVars
<1> QED BY <1>1, <1>7, <1>11, <1>13 DEF Inv

(* tick_path_recovery *)
LEMMA TickPathRecoveryInv ==
  ASSUME Inv, NEW V \in SUBSET ValidatingSlots, NEW R \in SUBSET RetrySlots,
         NEW C \in SUBSET StableSlots, TickPathRecovery(V, R, C)
  PROVE  Inv'
<1>1. /\ state = "ESTABLISHED" /\ conn = 1 /\ n_paths \in Nat
      /\ UNCHANGED <<connVars, n_paths, multipath_ready, primary_path_idx, xq, xq_weight>>
  BY InvSlots DEF TickPathRecovery
<1> DEFINE target == IF BackupFec = 1 THEN "STANDBY" ELSE "ACTIVE"
<1>2. PICK res \in [R -> ActivateResult] :
         LET ok == {i \in R : res[i] = "OK"} IN
         /\ CanCreate(ok)
         /\ CreatePaths(ok)
         /\ paths' = [i \in Slots |->
                CASE i \in V -> OnValidationOk(paths[i], target)
                  [] i \in R -> OnRetryTimer(paths[i], res[i], NewId(ok, i))
                  [] i \in C -> ConfirmStable(paths[i])
                  [] OTHER   -> paths[i]]
  BY DEF TickPathRecovery
<1> DEFINE ok == {i \in R : res[i] = "OK"}
           f(i) == OnRetryTimer(paths[i], res[i], NewId(ok, i))
           g(i) == OnValidationOk(paths[i], target)
           h(i) == ConfirmStable(paths[i])
<1>3. CanCreate(ok) /\ CreatePaths(ok)
  BY <1>2
<1>4. /\ V \subseteq Used /\ R \subseteq Used /\ C \subseteq Used
      /\ \A i \in R : paths[i].state \in {"CREATE_WAIT", "DEGRADED"} /\ i \notin V /\ i \notin C
      /\ \A i \in V : i \notin C
  BY DEF ValidatingSlots, RetrySlots, StableSlots
<1>5. /\ \A i \in V : i \in Slots /\ paths'[i] = g(i)
      /\ \A i \in R : i \in Slots /\ paths'[i] = f(i)
      /\ \A i \in C : i \in Slots /\ paths'[i] = h(i)
      /\ \A i \in Slots : i \notin V /\ i \notin R /\ i \notin C => paths'[i] = paths[i]
  <2>1. \A i \in Used : i \in Slots
    BY InvSlots
  <2> QED BY <1>2, <1>4, <2>1
<1>6. ok \in SUBSET (0 .. n_paths - 1) /\ ok \subseteq R
  BY <1>4, InvSlots
<1>7. /\ Cardinality(ok) \in Nat /\ xq_next' \in Nat
      /\ xq_next' \in 0 .. MaxPathId + 1 /\ xq_next' >= xq_next
      /\ xq_next' = xq_next + Cardinality(ok)
      /\ xq_paths' = xq_paths \cup NewIdSet(ok)
      /\ xq_paths' \subseteq PathIds
      /\ \A j \in ok : NewId(ok, j) \in PathIds
  BY <1>1, <1>3, <1>6, CreateType DEF Inv, ControlType
<1>8. \A i \in R : /\ WellFormed(f(i)) /\ f(i).state # "PENDING"
                   /\ f(i).xquic_path_live = 1 <=> i \in ok
                   /\ i \in ok => f(i).xqc_path_id = NewId(ok, i)
  <2> TAKE i \in R
  <2>1. /\ WellFormed(paths[i]) /\ paths[i].state \in {"CREATE_WAIT", "DEGRADED"}
        /\ res[i] \in ActivateResult
    BY <1>4, InvSlots
  <2>2. res[i] = "OK" <=> i \in ok
    OBVIOUS
  <2>3. res[i] = "OK" => NewId(ok, i) \in PathIds
    BY <1>7, <2>2
  <2> HIDE DEF ok
  <2> QED BY <2>1, <2>2, <2>3, RetryWellFormed
<1>9. \A i \in V : /\ WellFormed(g(i))
                   /\ g(i).state = "PENDING" => paths[i].state = "PENDING"
                   /\ g(i).xquic_path_live = paths[i].xquic_path_live
                   /\ g(i).xqc_path_id = paths[i].xqc_path_id
  <2> TAKE i \in V
  <2>1. WellFormed(paths[i]) /\ target \in {"ACTIVE", "STANDBY"}
    BY <1>4, InvSlots
  <2> HIDE DEF target
  <2> QED BY <2>1, ValidationWellFormed
<1>10. \A i \in C : /\ WellFormed(h(i))
                    /\ h(i).state = paths[i].state
                    /\ h(i).xquic_path_live = paths[i].xquic_path_live
                    /\ h(i).xqc_path_id = paths[i].xqc_path_id
  BY <1>4, InvSlots, ConfirmStableWellFormed
<1>11. \A i \in R : paths[i].xquic_path_live = 0
  BY <1>4, InvSlots DEF WellFormed, PathInvariant
<1>12. DOMAIN paths' = Slots /\ paths' = [i \in Slots |-> paths'[i]]
  BY <1>2
<1> HIDE DEF f, g, h, ok, target
<1>13. SlotsOK(paths', n_paths)
  <2>1. \A i \in Slots : WellFormed(paths'[i])
    BY <1>5, <1>8, <1>9, <1>10 DEF Inv, SlotsOK
  <2>2. \A i \in Slots : i >= n_paths => paths'[i] = PathEntryInit
    <3>1. \A i \in Used : ~(i >= n_paths)
      BY <1>1, InvSlots
    <3>2. \A i \in Slots : i >= n_paths => i \notin V /\ i \notin R /\ i \notin C
      BY <1>4, <3>1
    <3> QED BY <1>5, <3>2 DEF Inv, SlotsOK
  <2>3. paths' \in [Slots -> PathEntry]
    <3>1. \A i \in Slots : paths'[i] \in PathEntry
      BY <2>1 DEF WellFormed
    <3> QED BY <1>12, <3>1
  <2> QED BY <2>1, <2>2, <2>3 DEF SlotsOK
<1>14. \A i \in Used : i \notin R =>
          /\ paths'[i].state = "PENDING" => paths[i].state = "PENDING"
          /\ paths'[i].xquic_path_live = paths[i].xquic_path_live
          /\ paths'[i].xqc_path_id = paths[i].xqc_path_id
  BY <1>5, <1>9, <1>10, InvSlots
<1>15. NoPending(paths, n_paths) => NoPending(paths', n_paths)
  BY <1>5, <1>8, <1>14, InvSlots DEF NoPending
<1>16. NewlyBound(paths, paths', n_paths, ok)
  <2>1. \A j \in ok : /\ paths'[j].xquic_path_live = 1
                      /\ paths'[j].xqc_path_id = NewId(ok, j)
                      /\ paths[j].xquic_path_live # 1
    BY <1>5, <1>6, <1>8, <1>11
  <2>2. \A j \in (0 .. n_paths - 1) \ ok :
             \/ paths'[j].xquic_path_live # 1 /\ paths[j].xquic_path_live # 1
             \/ /\ paths'[j].xquic_path_live = 1 /\ paths[j].xquic_path_live = 1
                /\ paths'[j].xqc_path_id = paths[j].xqc_path_id
    <3> TAKE j \in (0 .. n_paths - 1) \ ok
    <3>1. CASE j \in R
      BY <1>5, <1>8, <1>11, <3>1
    <3>2. CASE j \notin R
      <4>1. j \in Used
        BY InvSlots
      <4> QED BY <1>14, <3>2, <4>1
    <3> QED BY <3>1, <3>2
  <2> QED BY <1>6, <2>1, <2>2 DEF NewlyBound
<1>17. Bound(paths', n_paths, xq_paths') /\ xq_paths' \subseteq 0 .. xq_next' - 1
  <2>1. /\ xq_next \in Nat /\ xq_next >= 1 /\ xq_paths \subseteq 0 .. xq_next - 1
        /\ Bound(paths, n_paths, xq_paths)
    BY <1>1, MaxPathIdAssumption DEF Inv, ControlType, BindingInv
  <2>2. /\ Bound(paths', n_paths, xq_paths \cup NewIdSet(ok))
        /\ xq_paths \cup NewIdSet(ok) \subseteq 0 .. (xq_next + Cardinality(ok)) - 1
    BY <1>1, <1>3, <1>16, <2>1, BoundExtends
  <2> QED BY <1>7, <2>2
<1>18. ControlType' /\ ControlInv'
  BY <1>1, <1>7 DEF Inv, ControlType, ControlInv, ConnMatchesState, TimerArmed,
              TunOnlyEstablished, connVars
<1>19. xq_next' >= 1
  BY <1>1, <1>7, MaxPathIdAssumption DEF Inv, ControlType, BindingInv
<1>20. BindingInv'
  BY <1>1, <1>15, <1>17, <1>19 DEF Inv, BindingInv, connVars
<1> QED BY <1>1, <1>13, <1>18, <1>20 DEF Inv

-----------------------------------------------------------------------------
(* Steps that start a connection *)

(* cli_start_connection on a table without xquic paths binds the primary   *)
(* to path 0 and nothing else.                                             *)
LEMMA StartConnectionSlots ==
  ASSUME NEW ps, NEW idx \in Slots, n_paths \in 0 .. MaxPaths, SlotsOK(ps, n_paths),
         FreshSlots(ps), StartConnection(ps, idx)
  PROVE  SlotsOK(paths', n_paths) /\ Bound(paths', n_paths, {0})
<1>1. /\ n_paths \in Nat /\ idx \in Nat
      /\ \A i \in 0 .. n_paths - 1 : i \in Slots /\ ps[i].xquic_path_live = 0
  BY SlotsInt, MaxPathsAssumption DEF FreshSlots
<1>2. CASE n_paths > 0 /\ idx < n_paths
  <2> DEFINE q == [ps[idx] EXCEPT !.xqc_path_id = 0, !.xquic_path_live = 1,
                                  !.state = "VALIDATING"]
  <2>1. /\ ps[idx] \in PathEntry /\ WellFormed(ps[idx]) /\ ps[idx].state = "PENDING"
        /\ ps[idx].platform_attached = 1 /\ ps[idx].fd >= 0
    BY <1>2 DEF SlotsOK, FreshSlots, StartConnection, PrimaryUsable
  <2>2. q \in PathEntry
    BY <2>1, ZeroPathId DEF PathEntry, Lifecycle
  <2>3. WellFormed(q) /\ q.xquic_path_live = 1 /\ q.xqc_path_id = 0
    BY <2>1, <2>2 DEF WellFormed, PathInvariant, PathEntry
  <2>4. paths' = [ps EXCEPT ![idx] = q]
    BY <1>2 DEF StartConnection
  <2> HIDE DEF q
  <2>5. /\ paths' \in [Slots -> PathEntry] /\ paths'[idx] = q
        /\ \A j \in Slots : j # idx => paths'[j] = ps[j]
    BY <2>2, <2>4 DEF SlotsOK
  <2>6. SlotsOK(paths', n_paths)
    BY <1>1, <1>2, <2>3, <2>5 DEF SlotsOK
  <2>7. \A j \in 0 .. n_paths - 1 : paths'[j].xquic_path_live = 1 =>
            j = idx /\ paths'[j].xqc_path_id = 0
    BY <1>1, <2>3, <2>5
  <2> QED BY <2>6, <2>7 DEF Bound
<1>3. CASE ~(n_paths > 0 /\ idx < n_paths)
  <2>1. paths' = ps
    BY <1>3 DEF StartConnection
  <2> QED BY <1>1, <2>1 DEF Bound
<1> QED BY <1>2, <1>3

(* The rest of the state once a connection is started. *)
LEMMA StartConnectionInv ==
  ASSUME Inv, NEW ps, NEW idx \in Slots, SlotsOK(ps, n_paths), FreshSlots(ps),
         StartConnection(ps, idx), SetState("CONNECTING"), conn = 0,
         state \in {"IDLE", "RECONNECTING"},
         multipath_ready' = 0, primary_path_idx' = idx, reconnect_scheduled' \in {0, 1},
         UNCHANGED <<n_paths, shutting_down>>
  PROVE  Inv'
<1>1. SlotsOK(paths', n_paths) /\ Bound(paths', n_paths, {0})
  BY StartConnectionSlots DEF Inv, ControlType
<1>2. /\ conn' = 1 /\ masque' = "none" /\ xq' = "open" /\ xq_paths' = {0} /\ xq_next' = 1
      /\ state' = "CONNECTING" /\ handshake_started' = 1 /\ tun_active' = tun_active
  BY DEF StartConnection, SetState
<1>3. xq_weight' \in [PathIds -> Weights]
  BY WeightsAssumption DEF StartConnection
<1>4. xq_next' \in 0 .. MaxPathId + 1 /\ xq_paths' \subseteq PathIds
  BY <1>2, ZeroPathId, MaxPathIdAssumption
<1>5. ControlType'
  BY <1>2, <1>3, <1>4 DEF Inv, ControlType, States
<1>6. ControlInv'
  BY <1>2 DEF Inv, ControlInv, ConnMatchesState, TimerArmed, TunOnlyEstablished
<1>7. BindingInv'
  BY <1>1, <1>2 DEF BindingInv
<1> QED BY <1>1, <1>5, <1>6, <1>7 DEF Inv

(* mqvpn_client_connect, called while IDLE *)
LEMMA ConnectInv ==
  ASSUME ConnectFrom \subseteq {"IDLE"}, Inv, Connect PROVE Inv'
<1>1. state = "IDLE" /\ StartConnection(paths, primary_path_idx) /\ SetState("CONNECTING")
  BY DEF Connect
<1>2. conn = 0 /\ FreshSlots(paths) /\ multipath_ready = 0
  BY <1>1 DEF Inv, ControlInv, ConnMatchesState, BindingInv
<1>3. /\ UNCHANGED <<n_paths, multipath_ready, primary_path_idx, reconnect_scheduled,
                     shutting_down>>
      /\ primary_path_idx \in Slots /\ reconnect_scheduled \in {0, 1}
      /\ SlotsOK(paths, n_paths)
  BY DEF Connect, Inv, ControlType
<1> QED BY <1>1, <1>2, <1>3, StartConnectionInv

(* mqvpn_rotate_primary_path returns a slot. *)
LEMMA RotateSlot ==
  ASSUME NEW n \in Nat, NEW cur \in Slots, NEW S \in SUBSET (0 .. n - 1),
         0 .. n - 1 \subseteq Slots
  PROVE  RotatePrimaryPath(cur, S, n) \in Slots
<1> DEFINE dist(i) == (i - cur - 1 + n) % n
<1>1. CASE n <= 1 \/ Cardinality(S) <= 1
  BY <1>1 DEF RotatePrimaryPath
<1>2. CASE ~(n <= 1 \/ Cardinality(S) <= 1)
  <2>1. S # {}
    BY <1>2, FS_EmptySet
  <2>2. \A i \in S : dist(i) \in Nat
    <3>1. cur \in Int /\ n \in Nat \ {0} /\ \A i \in S : i \in Int
      BY <1>2, SlotsInt
    <3> QED BY <3>1
  <2> DEFINE D == {dist(i) : i \in S}
  <2>3. D \in SUBSET Nat /\ D # {}
    BY <2>1, <2>2
  <2>4. PICK d \in D : \A e \in D : d <= e
    <3> HIDE DEF D
    <3> QED BY <2>3, LeastNatural
  <2>5. \E i \in S : \A j \in S : dist(i) <= dist(j)
    <3>1. PICK i \in S : d = dist(i)
      OBVIOUS
    <3>2. \A j \in S : dist(j) \in D
      OBVIOUS
    <3> HIDE DEF D, dist
    <3> QED BY <2>4, <3>1, <3>2
  <2>6. RotatePrimaryPath(cur, S, n)
           = CHOOSE i \in S : \A j \in S : dist(i) <= dist(j)
    BY <1>2 DEF RotatePrimaryPath
  <2> HIDE DEF dist
  <2> QED BY <2>5, <2>6
<1> QED BY <1>1, <1>2

(* tick_reconnect *)
LEMMA TickReconnectInv ==
  ASSUME Inv, NEW connected \in {0, 1}, TickReconnect(connected) PROVE Inv'
<1>1. /\ state = "RECONNECTING" /\ reconnect_scheduled = 1 /\ multipath_ready' = 0
      /\ primary_path_idx' = ReconnectIdx /\ UNCHANGED <<n_paths, shutting_down>>
  BY DEF TickReconnect
<1>2. conn = 0
  BY <1>1 DEF Inv, ControlInv, ConnMatchesState
<1>3. SlotsOK(ResetPaths, n_paths) /\ FreshSlots(ResetPaths)
  <2>1. \A i \in Used : /\ WellFormed(ResetPaths[i]) /\ ResetPaths[i].xquic_path_live = 0
                        /\ ResetPaths[i].platform_attached = 1 =>
                               ResetPaths[i].state = "PENDING"
    <3> TAKE i \in Used
    <3>1. ResetPaths[i] = OnConnReset(paths[i])
      BY InvSlots DEF ResetPaths
    <3> QED BY <3>1, InvSlots, ConnResetWellFormed
  <2>2. \A i \in Slots : i \notin Used =>
            ResetPaths[i] = PathEntryInit /\ WellFormed(ResetPaths[i])
    <3>1. \A i \in Slots : i \notin Used => i >= n_paths
      BY InvSlots, SlotsInt
    <3>2. \A i \in Slots : i \notin Used => ResetPaths[i] = paths[i]
      BY DEF ResetPaths
    <3> QED BY <3>1, <3>2 DEF Inv, SlotsOK
  <2>3. \A i \in Slots : WellFormed(ResetPaths[i]) /\ ResetPaths[i] \in PathEntry
    BY <2>1, <2>2 DEF WellFormed
  <2>4. ResetPaths \in [Slots -> PathEntry]
    BY <2>3 DEF ResetPaths
  <2>5. \A i \in Slots : i >= n_paths => i \notin Used
    BY InvSlots, SlotsInt
  <2>6. FreshSlots(ResetPaths)
    <3>1. PathEntryInit.xquic_path_live = 0 /\ PathEntryInit.platform_attached = 0
      BY DEF PathEntryInit
    <3> QED BY <2>1, <2>2, <3>1 DEF FreshSlots
  <2> QED BY <2>2, <2>3, <2>4, <2>5, <2>6 DEF SlotsOK
<1>4. ReconnectIdx \in Slots
  <2> DEFINE S == {i \in Used : paths[i].backup = 0 /\ paths[i].platform_attached = 1}
  <2>1. S \in SUBSET (0 .. n_paths - 1) /\ 0 .. n_paths - 1 \subseteq Slots
    BY InvSlots
  <2>2. n_paths \in Nat /\ primary_path_idx \in Slots
    BY InvSlots DEF Inv, ControlType
  <2>3. ReconnectIdx = IF n_paths > 0 THEN RotatePrimaryPath(primary_path_idx, S, n_paths)
                       ELSE primary_path_idx
    BY DEF ReconnectIdx
  <2> HIDE DEF S
  <2> QED BY <2>1, <2>2, <2>3, RotateSlot
<1>5. CASE connected = 1 /\ PrimaryUsable(ResetPaths, ReconnectIdx)
  <2>1. /\ StartConnection(ResetPaths, ReconnectIdx) /\ reconnect_scheduled' = 0
        /\ SetState("CONNECTING")
    BY <1>5 DEF TickReconnect
  <2> QED BY <1>1, <1>2, <1>3, <1>4, <2>1, StartConnectionInv
<1>6. CASE ~(connected = 1 /\ PrimaryUsable(ResetPaths, ReconnectIdx))
  <2>1. /\ paths' = ResetPaths /\ reconnect_scheduled' = 1
        /\ UNCHANGED <<state, conn, handshake_started, tun_active, masque, xquicVars>>
    BY <1>6 DEF TickReconnect
  <2>2. ControlType' /\ ControlInv'
    BY <1>1, <1>2, <1>4, <2>1 DEF Inv, ControlType, ControlInv, ConnMatchesState,
         TimerArmed, TunOnlyEstablished, xquicVars
  <2>3. BindingInv'
    BY <1>1, <1>2, <2>1 DEF BindingInv
  <2> QED BY <1>1, <1>3, <2>1, <2>2, <2>3 DEF Inv
<1> QED BY <1>5, <1>6

-----------------------------------------------------------------------------
(* The theorems *)

(* Every step keeps the invariant when the application calls connect()     *)
(* only on an IDLE client.  (From RECONNECTING it does not: SlotInvariant  *)
(* fails, see the README.)                                                 *)
LEMMA NextInv ==
  ASSUME ConnectFrom \subseteq {"IDLE"}, Inv, [Next]_vars PROVE Inv'
<1>1. CASE ApiCall
  BY <1>1, ConnectInv, DisconnectInv, AddPathFdInv, DropInv, FdClosedInv,
     SetPathWeightInv, ReactivatePathInv DEF ApiCall
<1>2. CASE XquicCallback
  BY <1>2, HandshakeFinishedInv, ReadyToCreatePathInv, StreamInv, AddressAssignedInv,
     PathRemovedInv, ConnCloseInv DEF XquicCallback
<1>3. CASE Tick
  BY <1>3, WatchdogInv, TickPathRecoveryInv, TickReconnectInv DEF Tick
<1>4. CASE UNCHANGED vars
  <2>1. UNCHANGED <<connVars, slotVars, xquicVars>>
    BY <1>4 DEF vars
  <2>2. ControlType' /\ ControlInv'
    BY <2>1 DEF Inv, ControlType, ControlInv, ConnMatchesState, TimerArmed,
         TunOnlyEstablished, connVars, slotVars, xquicVars
  <2>3. BindingInv' /\ SlotsOK(paths, n_paths)'
    BY <2>1 DEF Inv, BindingInv, connVars, slotVars, xquicVars
  <2> QED BY <2>2, <2>3 DEF Inv
<1> QED BY <1>1, <1>2, <1>3, <1>4 DEF Next

(* The invariant holds throughout. *)
THEOREM Invariance ==
  ASSUME ConnectFrom \subseteq {"IDLE"} PROVE Spec => []Inv
<1>1. Init => Inv
  BY InitInv
<1>2. Inv /\ [Next]_vars => Inv'
  BY NextInv
<1> QED BY <1>1, <1>2, PTL DEF Spec

(* Types, for every number of paths, path budget and retry budget. *)
THEOREM TypeCorrect ==
  ASSUME ConnectFrom \subseteq {"IDLE"} PROVE Spec => []TypeOK
<1>1. Inv => TypeOK
  BY DEF Inv, ControlType, SlotsOK, TypeOK
<1> QED BY <1>1, Invariance, PTL

(* The asserts of path_invariant_check hold of every slot in every state,  *)
(* and a retry timer is never armed outside the retry budget.              *)
THEOREM SlotsCorrect ==
  ASSUME ConnectFrom \subseteq {"IDLE"} PROVE Spec => [](SlotInvariant /\ RetryBudget)
<1>1. Inv => SlotInvariant /\ RetryBudget
  BY DEF Inv, SlotsOK, WellFormed, SlotInvariant, RetryBudget
<1> QED BY <1>1, Invariance, PTL

(* The connection pointer agrees with the client state, and the client     *)
(* never waits without a timer.                                            *)
THEOREM ConnCorrect ==
  ASSUME ConnectFrom \subseteq {"IDLE"} PROVE Spec => [](ConnMatchesState /\ TimerArmed)
<1>1. Inv => ConnMatchesState /\ TimerArmed
  BY DEF Inv, ControlInv
<1> QED BY <1>1, Invariance, PTL

(* Live slots and xquic's paths correspond one to one, through any series  *)
(* of additions, removals, drops, retries, reactivations and reconnects.   *)
THEOREM BindingCorrect ==
  ASSUME ConnectFrom \subseteq {"IDLE"} PROVE Spec => []PathBinding
<1>1. Inv => PathBinding
  BY PathBindingIsBound DEF Inv, BindingInv
<1> QED BY <1>1, Invariance, PTL

(* No path is left PENDING once multipath is negotiated. *)
THEOREM NothingStranded ==
  ASSUME ConnectFrom \subseteq {"IDLE"} PROVE Spec => []NoStrandedPending
<1>1. Inv => NoStrandedPending
  BY DEF Inv, BindingInv, NoPending, NoStrandedPending, Used
<1> QED BY <1>1, Invariance, PTL

(* The TUN device is up exactly while ESTABLISHED, on the platforms that   *)
(* disconnect at once when it cannot be made.                              *)
THEOREM TunCorrect ==
  ASSUME ConnectFrom \subseteq {"IDLE"}, DeferredDisconnect = 0
  PROVE  Spec => []TunOnlyEstablished
<1>1. Inv => TunOnlyEstablished
  BY DEF Inv, ControlInv
<1> QED BY <1>1, Invariance, PTL

(* No step leaves CLOSED: neither the late close callback, with reconnect  *)
(* enabled, nor a late ADDRESS_ASSIGN.                                     *)
THEOREM ShutdownFinal ==
  ASSUME ConnectFrom \subseteq {"IDLE"} PROVE Spec => ShutdownIsFinal
<1>1. Inv /\ [Next]_vars => [state = "CLOSED" => state' = "CLOSED"]_state
  <2> SUFFICES ASSUME Inv, Next, state = "CLOSED" PROVE state' = "CLOSED"
    BY DEF vars, connVars
  <2>1. xq # "open" /\ (xq = "closing" => shutting_down = 1)
    BY DEF Inv, ControlInv
  <2>2. CASE ApiCall
    BY <2>2 DEF ApiCall, Connect, Disconnect, AddPathFd, RemovePath, PlatformPathDropped,
         PlatformFdClosed, SetPathWeight, ReactivatePath, connVars
  <2>3. CASE XquicCallback
    BY <2>1, <2>3 DEF XquicCallback, HandshakeFinished, ReadyToCreatePath, TunnelAccepted,
         TunnelStreamClosed, AddressAssigned, PathRemoved, ConnClose, SetState, connVars,
         Inv, ControlType
  <2>4. CASE Tick
    BY <2>4 DEF Tick, TickHandshakeWatchdog, TickPathRecovery, TickReconnect
  <2> QED BY <2>2, <2>3, <2>4 DEF Next
<1> QED BY <1>1, Invariance, PTL DEF Spec, ShutdownIsFinal

(* The assert of client_set_state never fails on the platforms that        *)
(* disconnect at once when the TUN device cannot be made.                  *)
THEOREM TransitionsCorrect ==
  ASSUME ConnectFrom \subseteq {"IDLE"}, DeferredDisconnect = 0
  PROVE  Spec => TransitionsValid
<1> DEFINE Valid == \/ state' \in Successors[state]
                    \/ /\ "TUNNEL_READY" \in Successors[state]
                       /\ state' \in Successors["TUNNEL_READY"]
<1>0. /\ Successors["IDLE"] = {"CONNECTING"}
      /\ Successors["CONNECTING"] = {"AUTHENTICATING", "RECONNECTING", "CLOSED"}
      /\ Successors["AUTHENTICATING"] = {"TUNNEL_READY", "RECONNECTING", "CLOSED"}
      /\ Successors["TUNNEL_READY"] = {"ESTABLISHED", "CLOSED"}
      /\ Successors["ESTABLISHED"] = {"RECONNECTING", "CLOSED"}
      /\ Successors["RECONNECTING"] = {"CONNECTING", "CLOSED"}
  BY DEF Successors, States
<1>1. Inv /\ [Next]_vars => [Valid]_state
  <2> SUFFICES ASSUME Inv, Next, state' # state PROVE Valid
    BY DEF vars, connVars
  <2>1. /\ state \in States /\ state # "TUNNEL_READY"
        /\ state = "CLOSED" => xq # "open" /\ (xq = "closing" => shutting_down = 1)
        /\ state \in {"IDLE", "RECONNECTING"} => xq = "none"
        /\ state = "CONNECTING" => masque = "none" /\ conn = 1
        /\ xq \in {"none", "open", "closing"} /\ shutting_down \in {0, 1}
    BY DEF Inv, ControlType, ControlInv, ConnMatchesState
  <2>2. CASE ApiCall
    <3>1. Connect \/ Disconnect
      BY <2>2 DEF ApiCall, AddPathFd, RemovePath, PlatformPathDropped,
           PlatformFdClosed, SetPathWeight, ReactivatePath, connVars
    <3> QED BY <1>0, <2>1, <3>1 DEF Connect, Disconnect, SetState, States
  <2>3. CASE XquicCallback
    <3>1. (\E sent \in {0, 1} : HandshakeFinished(sent)) \/ ConnClose
          \/ (\E tunUp \in {0, 1} : AddressAssigned(tunUp))
      BY <2>3 DEF XquicCallback, ReadyToCreatePath, TunnelAccepted, TunnelStreamClosed,
           PathRemoved, connVars
    <3>2. CASE \E sent \in {0, 1} : HandshakeFinished(sent)
      BY <1>0, <3>2 DEF HandshakeFinished, SetState
    <3>3. CASE ConnClose
      BY <1>0, <2>1, <3>3 DEF ConnClose, SetState, States
    <3>4. CASE \E tunUp \in {0, 1} : AddressAssigned(tunUp)
      <4>1. state = "AUTHENTICATING" /\ state' \in {"ESTABLISHED", "CLOSED"}
        BY <2>1, <3>4 DEF AddressAssigned, States
      <4> QED BY <1>0, <4>1
    <3> QED BY <3>1, <3>2, <3>3, <3>4
  <2>4. CASE Tick
    BY <1>0, <2>1, <2>4 DEF Tick, TickHandshakeWatchdog, TickPathRecovery, TickReconnect,
         SetState, connVars
  <2> QED BY <2>2, <2>3, <2>4 DEF Next
<1> QED BY <1>1, Invariance, PTL DEF Spec, TransitionsValid

(* All that SlotsSafe says of the slots, for every number of slots, path   *)
(* ids and retries.                                                        *)
THEOREM SlotsAreSafe ==
  ASSUME ConnectFrom \subseteq {"IDLE"} PROVE Spec => []SlotsSafe
<1>1. TypeOK /\ (SlotInvariant /\ RetryBudget) /\ NoStrandedPending => SlotsSafe
  BY DEF SlotsSafe
<1> QED BY <1>1, TypeCorrect, SlotsCorrect, NothingStranded, PTL

(* State, connection, timers and TUN device move together on platforms     *)
(* that disconnect at once.                                                *)
THEOREM ConnIsSafe ==
  ASSUME ConnectFrom \subseteq {"IDLE"}, DeferredDisconnect = 0
  PROVE  Spec => []ConnSafe
<1>1. (ConnMatchesState /\ TimerArmed) /\ TunOnlyEstablished => ConnSafe
  BY DEF ConnSafe
<1> QED BY <1>1, ConnCorrect, TunCorrect, PTL
=============================================================================
