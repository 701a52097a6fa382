----------------------------- MODULE DarwinDns -----------------------------
(***************************************************************************)
(* The DNS override of the macOS client (platform/darwin/dns.c) and the    *)
(* calls platform_darwin.c makes to it.  networksetup writes the servers   *)
(* of every network service into preferences that survive a reboot, so a   *)
(* backup file is the only record of what the user had.  Each command of   *)
(* networksetup and each step of the backup's way to the disk is a step    *)
(* here: between two of them the process may be killed, its networksetup   *)
(* child may go on alone, or the power may fail.                           *)
(***************************************************************************)
EXTENDS Naturals, FiniteSets

CONSTANTS Services,     \* network services of the machine
          Procs,        \* mqvpn processes that may be started
          Own,          \* settings a user may have: "unset" or servers
          MaxFails,     \* commands and file operations that fail
          MaxCrashes,   \* processes killed
          MaxDisk,      \* directory flushes that fail, and power losses
          MaxEdits,     \* changes the user makes
          Absent        \* no file, no holder

VARIABLES
    dns,       \* what networksetup has stored, per service
    listed,    \* services -listallnetworkservices shows without '*'
    backup,    \* /var/db/mqvpn-dns.bak as the file system shows it
    durable,   \* the versions of that file a power loss may leave
    gate,      \* holder of the instance lock /var/run/mqvpn.lock
    path,      \* inode of /var/run/mqvpn-dns.lock, 0 if there is no file
    proc,      \* the processes: mqvpn_dns_t and where they are
    orphans,   \* networksetup children whose process was killed
    orig,      \* ghost: what the user has chosen, per service
    edited,    \* ghost: services whose setting the user changed while
               \* there was a backup, which has the older setting
    haste,     \* ghost: "taken": an apply went by a backup that was not
               \* durable; "lost": then the power failed
    budget     \* faults and edits left

dnsVars == <<dns, listed, backup, durable, gate, path, proc, orphans, orig, edited, haste, budget>>

(* The backup has a line with the servers, or "Empty", for some services.  *)
(* It cannot tell the servers of a tunnel from those of the user.          *)
Lines == (Own \ {"unset"}) \cup {"Empty", "vpn"}
Backups == UNION {[D -> Lines] : D \in SUBSET Services}

ASSUME DarwinDnsAssumption ==
    /\ IsFiniteSet(Services) /\ IsFiniteSet(Procs) /\ Absent \notin Procs \cup Backups
    /\ "unset" \in Own /\ {"vpn", "Empty"} \cap Own = {}
    /\ {MaxFails, MaxCrashes, MaxDisk, MaxEdits} \subseteq Nat

Inodes == 1 .. Cardinality(Procs) + 2
Pcs == {"down", "start", "idle", "snap", "sync", "set", "restore", "unlink"}

(* A process that does not run, and one that has just begun.  todo holds   *)
(* the services its loop has still to visit, seen the ones it may have     *)
(* changed; guard is preexisting_backup; why tells who runs the restore    *)
(* loop, ok that all of it succeeded so far, quit that the process ends.   *)
Down == [pc |-> "down", active |-> 0, held |-> 0, todo |-> {}, seen |-> {},
         snap |-> <<>>, guard |-> 0, why |-> "none", ok |-> 1, quit |-> 0]

DnsInit ==
    /\ dns \in [Services -> Own] /\ orig = dns
    /\ listed = Services
    /\ backup = Absent /\ durable = {Absent}
    /\ edited = {} /\ haste = "none"
    /\ gate = Absent /\ path = 0
    /\ proc = [p \in Procs |-> Down]
    /\ orphans = {}
    /\ budget = [fails |-> MaxFails, crashes |-> MaxCrashes, disk |-> MaxDisk, edits |-> MaxEdits]

-----------------------------------------------------------------------------
(* The lock.  A child keeps the descriptor it inherited (the lock file is  *)
(* opened without O_CLOEXEC), and with it the lock.                        *)

Holds(i) == (\E q \in Procs : proc[q].held = i) \/ (\E o \in orphans : o.held = i)
ChildHolds(p) == proc[p].held

LockFile == IF path # 0 THEN path ELSE CHOOSE i \in Inodes : ~Holds(i)
AcquireLock(p) == proc[p].held # 0 \/ ~Holds(LockFile)
Locked(p) == IF proc[p].held # 0 THEN proc[p] ELSE [proc[p] EXCEPT !.held = LockFile]
LockPath(p) == IF proc[p].held # 0 THEN path ELSE LockFile

(* A call returns: locals are gone, and the process too if it was ending.  *)
Leave(r) == IF r.quit = 1 THEN Down ELSE [Down EXCEPT !.pc = "idle", !.active = r.active, !.held = r.held]

(* release_lock closes the descriptor; the unlink of the file follows as a *)
(* step of its own.                                                        *)
ReleaseLock(r) == [r EXCEPT !.held = 0, !.pc = "unlink"]
ReleaseLockIfInactive(r) == IF r.active = 0 THEN ReleaseLock(r) ELSE Leave(r)

UnlinkLock(p) ==
    /\ proc[p].pc = "unlink"
    /\ path' = 0
    /\ proc' = [proc EXCEPT ![p] = Leave(@)]
    /\ gate' = IF proc[p].quit = 1 THEN Absent ELSE gate
    /\ UNCHANGED <<dns, listed, backup, durable, orphans, orig, edited, haste, budget>>

(* One failure is taken from the budget. *)
Spend(f) == budget[f] > 0 /\ budget' = [budget EXCEPT ![f] = @ - 1]

To(p, r) == proc' = [proc EXCEPT ![p] = r]
-----------------------------------------------------------------------------
(* networksetup and the backup's lines.                                    *)

(* A command that is reported failed may have done its work. *)
RunNetworksetup(s, v) == [dns EXCEPT ![s] = v]
Unreported(s, v) == {dns, RunNetworksetup(s, v)}

(* Output that could not be read to its end fails the command. *)
CaptureFails == Spend("fails")
ListServices == listed

(* Whatever is not a list of addresses is taken for "no servers set". *)
GetDnsServers(s) == IF dns[s] = "unset" THEN "Empty" ELSE dns[s]
FormatLine(b, s) == [t \in DOMAIN b \cup {s} |-> IF t = s THEN GetDnsServers(s) ELSE b[t]]
BackupHasService(s) == s \in DOMAIN backup

(* The value restore_one hands to networksetup for a line. *)
RestoreValue(v) == IF v = "Empty" THEN "unset" ELSE v

(* The file is on the disk, or it is there no more. *)
Settled == IF haste = "taken" THEN "none" ELSE haste

DurabilityFlush == durable' = {backup} /\ haste' = Settled
-----------------------------------------------------------------------------
(* Start: the instance lock, whose file is never removed, then the restore *)
(* of what an earlier process left behind.                                 *)

(* A bug for TLC to find: no single-instance gate. *)
StartUngated(p) ==
    /\ proc[p].pc = "down"
    /\ gate' = p
    /\ To(p, [Down EXCEPT !.pc = "start"])
    /\ UNCHANGED <<dns, listed, backup, durable, path, orphans, orig, edited, haste, budget>>

StartProc(p) ==
    /\ proc[p].pc = "down"
    /\ gate = Absent /\ gate' = p
    /\ To(p, [Down EXCEPT !.pc = "start"])
    /\ UNCHANGED <<dns, listed, backup, durable, path, orphans, orig, edited, haste, budget>>

(* A bug for TLC to find: the startup relies on mqvpn_dns_restore, which   *)
(* does nothing before the first apply.                                    *)
NoStaleBackup(p) == proc[p].active = 1 /\ backup # Absent

HasStaleBackup(p) == proc[p].active = 0 /\ backup # Absent

RestoreStale(p) ==
    /\ proc[p].pc = "start"
    /\ IF HasStaleBackup(p) /\ AcquireLock(p)
       THEN /\ To(p, [Locked(p) EXCEPT !.pc = "restore", !.why = "stale", !.todo = DOMAIN backup])
            /\ path' = LockPath(p)
       ELSE To(p, Leave(proc[p])) /\ UNCHANGED path
    /\ UNCHANGED <<dns, listed, backup, durable, gate, orphans, orig, edited, haste, budget>>
-----------------------------------------------------------------------------
(* mqvpn_dns_apply, called when the tunnel's configuration is there.       *)
(* Steps 1 to 3: the lock, the services, and which backup to go by.  An    *)
(* existing backup is validated and only services it covers are touched;   *)
(* whether its directory entry was ever flushed is not asked.              *)

PreexistingBackup == backup # Absent

Apply(p) ==
    /\ proc[p].pc = "idle" /\ AcquireLock(p)
    /\ path' = LockPath(p)
    /\ \/ /\ ListServices # {}
          /\ haste' = IF PreexistingBackup /\ durable # {backup} /\ haste = "none" THEN "taken" ELSE haste
          /\ To(p, IF PreexistingBackup
                   THEN [Locked(p) EXCEPT !.pc = "set", !.guard = 1,
                                              !.todo = {s \in ListServices : BackupHasService(s)}]
                   ELSE [Locked(p) EXCEPT !.pc = "snap", !.todo = ListServices])
          /\ UNCHANGED budget
       \/ /\ To(p, ReleaseLockIfInactive(Locked(p)))
          /\ CaptureFails \/ (ListServices = {} /\ UNCHANGED budget)
          /\ UNCHANGED haste
    /\ UNCHANGED <<dns, listed, backup, durable, gate, orphans, orig, edited>>

(* write_backup: every service's setting goes into a temporary file, which *)
(* is flushed and renamed; then the directory is flushed.  Until the       *)
(* rename a failure leaves nothing but the temporary file, which the next  *)
(* apply removes.                                                          *)
WriteBackup(p) ==
    /\ proc[p].pc = "snap"
    /\ \/ /\ proc[p].todo # {}
          /\ \E s \in proc[p].todo :
                To(p, [proc[p] EXCEPT !.todo = @ \ {s}, !.snap = FormatLine(@, s)])
          /\ UNCHANGED <<backup, durable, budget>>
       \/ /\ proc[p].todo = {}
          /\ backup' = proc[p].snap /\ durable' = durable \cup {proc[p].snap}
          /\ To(p, [proc[p] EXCEPT !.pc = "sync"])
          /\ UNCHANGED budget
       \/ /\ CaptureFails
          /\ To(p, ReleaseLockIfInactive(proc[p]))
          /\ UNCHANGED <<backup, durable>>
    /\ UNCHANGED <<dns, listed, gate, path, orphans, orig, edited, haste>>

(* A failed flush of the directory aborts the apply but leaves the file.   *)
SyncDir(p) ==
    /\ proc[p].pc = "sync"
    /\ \/ /\ DurabilityFlush
          /\ To(p, [proc[p] EXCEPT !.pc = "set", !.todo = DOMAIN backup, !.snap = <<>>])
          /\ UNCHANGED budget
       \/ /\ Spend("disk")
          /\ To(p, ReleaseLockIfInactive(proc[p]))
          /\ UNCHANGED <<durable, haste>>
    /\ UNCHANGED <<dns, listed, backup, gate, path, orphans, orig, edited>>

(* A bug for TLC to find: the same scope for both kinds of backup. *)
RollbackSeen(r) == r.seen

(* Step 4 sets the servers of every service.  If a command fails, step 5   *)
(* rolls back: all of a backup that was there before, else what this call  *)
(* may have changed.                                                       *)
RollbackScope(r) == IF r.guard = 1 THEN DOMAIN backup ELSE r.seen

SetServers(p, s) ==
    /\ proc[p].pc = "set" /\ s \in proc[p].todo
    /\ LET r == [proc[p] EXCEPT !.seen = @ \cup {s}, !.todo = @ \ {s}] IN
       \/ /\ dns' = RunNetworksetup(s, "vpn")
          /\ To(p, [r EXCEPT !.active = 1])
          /\ UNCHANGED budget
       \/ /\ Spend("fails")
          /\ dns' \in Unreported(s, "vpn")
          /\ To(p, [r EXCEPT !.pc = "restore", !.why = "rollback", !.todo = RollbackScope(r)])
    /\ UNCHANGED <<listed, backup, durable, gate, path, orphans, orig, edited, haste>>

(* All services done.  With a backup that covers none of them nothing was  *)
(* set, and the call fails.                                                *)
ApplyReturns(p) ==
    /\ proc[p].pc = "set" /\ proc[p].todo = {}
    /\ To(p, IF proc[p].seen = {} THEN ReleaseLockIfInactive(proc[p]) ELSE Leave(proc[p]))
    /\ UNCHANGED <<dns, listed, backup, durable, gate, path, orphans, orig, edited, haste, budget>>
-----------------------------------------------------------------------------
(* restore_from_backup_file: every line in its scope gets an attempt; a    *)
(* read error ends the loop and counts as a failure.                       *)
RestoreOne(p, s) ==
    \/ /\ dns' = RunNetworksetup(s, RestoreValue(backup[s]))
       /\ To(p, [proc[p] EXCEPT !.todo = @ \ {s}])
       /\ UNCHANGED budget
    \/ /\ Spend("fails")
       /\ dns' \in Unreported(s, RestoreValue(backup[s]))
       /\ To(p, [proc[p] EXCEPT !.todo = @ \ {s}, !.ok = 0])

RestoreFromBackupFile(p) ==
    /\ proc[p].pc = "restore"
    /\ \/ \E s \in proc[p].todo : RestoreOne(p, s)
       \/ /\ proc[p].todo # {} /\ Spend("fails")
          /\ To(p, [proc[p] EXCEPT !.todo = {}, !.ok = 0])
          /\ UNCHANGED dns
    /\ UNCHANGED <<listed, backup, durable, gate, path, orphans, orig, edited, haste>>

(* What follows the loop in the three callers.  Only a full success makes  *)
(* the backup superfluous; the startup restore gives the lock back anyway. *)
AfterRestore(r) ==
    IF r.ok = 1 THEN ReleaseLock([r EXCEPT !.active = 0])
    ELSE IF r.why = "stale" THEN ReleaseLock(r)
    ELSE Leave([r EXCEPT !.active = 1])

(* Whether the unlink of the backup succeeds is not asked. *)
RestoreReturns(p) ==
    /\ proc[p].pc = "restore" /\ proc[p].todo = {}
    /\ \/ /\ proc[p].ok = 1
          /\ backup' = Absent /\ durable' = durable \cup {Absent} /\ haste' = Settled
          /\ UNCHANGED budget
       \/ proc[p].ok = 1 /\ Spend("fails") /\ UNCHANGED <<backup, durable, haste>>
       \/ proc[p].ok = 0 /\ UNCHANGED <<backup, durable, haste, budget>>
    /\ To(p, AfterRestore(proc[p]))
    /\ gate' = IF proc'[p].pc = "down" THEN Absent ELSE gate
    /\ UNCHANGED <<dns, listed, path, orphans, orig, edited>>

(* mqvpn_dns_restore, called when the tunnel goes and before the process   *)
(* ends; without active it does nothing.                                   *)
Restore(p) ==
    /\ proc[p].pc = "idle" /\ proc[p].active = 1
    /\ To(p, [proc[p] EXCEPT !.pc = "restore", !.why = "restore", !.todo = DOMAIN backup])
    /\ UNCHANGED <<dns, listed, backup, durable, gate, path, orphans, orig, edited, haste, budget>>

Quit(p) ==
    /\ proc[p].pc = "idle"
    /\ IF proc[p].active = 1
       THEN /\ To(p, [proc[p] EXCEPT !.pc = "restore", !.why = "restore", !.todo = DOMAIN backup, !.quit = 1])
            /\ UNCHANGED gate
       ELSE To(p, Down) /\ gate' = Absent
    /\ UNCHANGED <<dns, listed, backup, durable, path, orphans, orig, edited, haste, budget>>
-----------------------------------------------------------------------------
(* The machine and its user.                                               *)

(* The command a process is waiting for, if it is waiting for one. *)
Running(p) ==
    CASE proc[p].pc = "set"     -> {[svc |-> s, val |-> "vpn", held |-> ChildHolds(p)] : s \in proc[p].todo}
      [] proc[p].pc = "restore" -> {[svc |-> s, val |-> RestoreValue(backup[s]), held |-> ChildHolds(p)] : s \in proc[p].todo}
      [] OTHER                  -> {}

(* A process is killed.  The kernel drops its locks, save those its child  *)
(* shares, and the child ends its work later.                              *)
CrashProc(p) ==
    /\ proc[p].pc # "down" /\ Spend("crashes")
    /\ orphans' \in {orphans} \cup {orphans \cup {c} : c \in Running(p)}
    /\ To(p, Down)
    /\ gate' = Absent
    /\ UNCHANGED <<dns, listed, backup, durable, path, orig, edited, haste>>

OrphanEnds ==
    /\ \E o \in orphans :
          /\ orphans' = orphans \ {o}
          /\ dns' = [dns EXCEPT ![o.svc] = o.val]
    /\ UNCHANGED <<listed, backup, durable, gate, path, proc, orig, edited, haste, budget>>

(* Everything stops, /var/run is empty afterwards, and a change of the     *)
(* directory /var/db that was not flushed may or may not be there.         *)
PowerLoss ==
    /\ Spend("disk")
    /\ backup' \in durable /\ durable' = {backup'}
    /\ haste' = IF haste = "taken" /\ backup' # backup THEN "lost" ELSE Settled
    /\ gate' = Absent /\ path' = 0 /\ orphans' = {}
    /\ proc' = [p \in Procs |-> Down]
    /\ UNCHANGED <<dns, listed, orig, edited>>

(* The system writes the directory out in its own time. *)
Writeback ==
    /\ durable # {backup} /\ durable' = {backup} /\ haste' = Settled
    /\ UNCHANGED <<dns, listed, backup, gate, path, proc, orphans, orig, edited, budget>>

(* No backup, none that may come back, and none being written. *)
NoBackup == durable = {Absent} /\ \A p \in Procs : proc[p].snap = <<>>

UserEdits ==
    /\ Spend("edits")
    /\ \/ \E s \in Services, v \in Own :
            /\ v # orig[s]
            /\ edited' = IF NoBackup THEN edited ELSE edited \cup {s}
            /\ dns' = [dns EXCEPT ![s] = v] /\ orig' = [orig EXCEPT ![s] = v]
            /\ UNCHANGED listed
       \/ \E s \in Services :
            /\ listed' = IF s \in listed THEN listed \ {s} ELSE listed \cup {s}
            /\ UNCHANGED <<dns, orig, edited>>
    /\ UNCHANGED <<backup, durable, gate, path, proc, orphans, haste>>
-----------------------------------------------------------------------------
Step(p) ==
    \/ RestoreStale(p) \/ WriteBackup(p) \/ SyncDir(p) \/ ApplyReturns(p)
    \/ \E s \in Services : SetServers(p, s)
    \/ RestoreFromBackupFile(p) \/ RestoreReturns(p) \/ UnlinkLock(p)

DnsNext ==
    \/ \E p \in Procs : StartProc(p) \/ Step(p) \/ Apply(p) \/ Restore(p) \/ Quit(p) \/ CrashProc(p)
    \/ OrphanEnds \/ PowerLoss \/ Writeback \/ UserEdits

DnsSpec == DnsInit /\ [][DnsNext]_dnsVars

(* The process goes on, networksetup ends, and a user ends a connection at *)
(* some time and starts mqvpn again.                                       *)
Fairness ==
    /\ WF_dnsVars(OrphanEnds)
    /\ WF_dnsVars(\E p \in Procs : StartProc(p))
    /\ \A p \in Procs : WF_dnsVars(Step(p)) /\ SF_dnsVars(Quit(p))

FairSpec == DnsSpec /\ Fairness
-----------------------------------------------------------------------------
DnsTypeOK ==
    /\ dns \in [Services -> Own \cup {"vpn"}] /\ orig \in [Services -> Own]
    /\ listed \in SUBSET Services
    /\ backup \in durable /\ durable \subseteq Backups \cup {Absent}
    /\ edited \subseteq Services /\ haste \in {"none", "taken", "lost"}
    /\ gate \in Procs \cup {Absent} /\ path \in Inodes \cup {0}
    /\ \A p \in Procs :
          /\ proc[p].pc \in Pcs /\ proc[p].why \in {"none", "stale", "rollback", "restore"}
          /\ {proc[p].active, proc[p].guard, proc[p].ok, proc[p].quit} \subseteq {0, 1}
          /\ proc[p].held \in Inodes \cup {0}
          /\ proc[p].todo \cup proc[p].seen \subseteq Services
          /\ proc[p].snap \in Backups
    /\ \A o \in orphans : o.svc \in Services /\ o.val \in Own \cup {"vpn"}

(* The file has the setting the user chose for a service. *)
Names(file, s) == file # Absent /\ s \in DOMAIN file /\ RestoreValue(file[s]) = orig[s]

(* "Never mutate a single service's DNS without a valid, durable,          *)
(* authoritative backup": at every moment, through failed commands, kills, *)
(* orphaned commands, restarts and power losses, a service that does not   *)
(* have the user's setting has it in the backup, also one a running        *)
(* command will change; and a backup not taken over before it was durable  *)
(* survives a power loss.  (Of a setting the user changes under a backup,  *)
(* and after a power loss on a backup that was taken over too early,       *)
(* nothing is said: see DurableBackup and EditsKept.)                      *)
OriginalKept ==
    haste # "lost" =>
        \A s \in Services \ edited :
            (dns[s] # orig[s] \/ \E o \in orphans : o.svc = s /\ o.val # orig[s]) =>
                /\ Names(backup, s)
                /\ haste = "none" => \A file \in durable : Names(file, s)

(* One process at a time manages DNS, although release_lock removes the    *)
(* lock file after it has let the lock go: the instance lock sees to it.   *)
OneManager == \A p, q \in Procs : proc[p].held # 0 /\ proc[q].held # 0 => p = q

(* The lock is held "exactly while active is 1" whenever no call is in     *)
(* progress, and there is then a backup for the restore to go by.          *)
ActiveHolds ==
    \A p \in Procs : proc[p].pc = "idle" =>
        /\ proc[p].active = 1 <=> proc[p].held # 0
        /\ proc[p].active = 1 => backup # Absent

(* One process manages the settings, and its lock, its active flag and the *)
(* backup agree, through kills and restarts at any step.                   *)
LockSound == DnsTypeOK /\ OneManager /\ ActiveHolds

(* Whatever fails on the way, the user's settings come back, as far as     *)
(* OriginalKept speaks of them.                                            *)
ComesBack == []<>(haste = "lost" \/ \A s \in Services \ edited : dns[s] = orig[s])

(* The backup of a changed service is durable, without exception. *)
DurableBackup ==
    haste # "lost" =>
        \A s \in Services \ edited : dns[s] # orig[s] => \A file \in durable : Names(file, s)

(* What the user sets while a backup exists can be restored as well. *)
EditsKept == haste # "lost" => \A s \in Services : dns[s] # orig[s] => Names(backup, s)
=============================================================================
