------------------------------- MODULE Lease -------------------------------
(***************************************************************************)
(* The lease managers of the servers (pkg/lease/manager.go), the lease     *)
(* service (kvraft/lease_service.go), and the loop of server.go that looks *)
(* for expired leases. LeaseTtl adds the keys that are attached to leases, *)
(* LeaseUsers the clients.                                                 *)
(*                                                                         *)
(* A manager has one lock. Its goroutine run receives on the unbuffered    *)
(* channel revokeC; checkExpirations, called by run with the lock held,    *)
(* sends on it: from the first lease it finds expired on, run waits for    *)
(* itself and the lock is never free again.                                *)
(***************************************************************************)
EXTENDS Naturals, FiniteSets

CONSTANTS Server,
          MaxLeases,    \* bound: leases the servers grant, a restarted one counting anew
          MaxFaults     \* bound: kinds of faults in one behaviour, each once

ASSUME LeaseBounds == {MaxLeases, MaxFaults} \subseteq Nat

LeaseId == 1..MaxLeases

VARIABLES
  leases,         \* of each server: of each id, "none", "live" or "expired"
  nextLeaseID,    \* of each server
  blocked,        \* the servers whose run waits in checkExpirations
  due,            \* of each server: what ExpiredLeases has returned, and is not revoked yet
  revokers,       \* goroutines in proposeLeaseRevoke
  leader,         \* the leader, and back
  faults          \* the faults so far

managerVars == <<leases, nextLeaseID, blocked>>
revokeVars == <<due, revokers>>
leaseVars == <<managerVars, revokeVars, leader>>

LeaseInit ==
  /\ leases = [s \in Server |-> [id \in LeaseId |-> "none"]]
  /\ nextLeaseID = [s \in Server |-> 1]
  /\ blocked = {}
  /\ due = [s \in Server |-> {}] /\ revokers = {}
  /\ leader \in Server /\ faults = {}

Fault(f) ==
  /\ f \notin faults /\ Cardinality(faults) < MaxFaults
  /\ faults' = faults \cup {f}

-----------------------------------------------------------------------------
(* The manager of server s. Every operation needs its lock. *)

InTable(s, id) == leases[s][id] # "none"

\* Mutant of NewId: the first id that is free
FirstFree(s) == CHOOSE id \in LeaseId : ~ InTable(s, id) /\ \A j \in 1..(id - 1) : InTable(s, j)

NewId(s) == nextLeaseID[s]

Granted == {g \in Server \X LeaseId : g[2] < nextLeaseID[g[1]]}

\* LeaseGrant
Grant(s) ==
  /\ s \notin blocked /\ Cardinality(Granted) < MaxLeases /\ NewId(s) \in LeaseId
  /\ leases' = [leases EXCEPT ![s][NewId(s)] = "live"]
  /\ nextLeaseID' = [nextLeaseID EXCEPT ![s] = @ + 1]
  /\ UNCHANGED blocked

\* A lease that has expired but is still there lives again
Renewed(s, id) == IF InTable(s, id) THEN [leases EXCEPT ![s][id] = "live"] ELSE leases

\* LeaseKeepAlive: one request of the stream
KeepAlive(s, id) ==
  /\ s \notin blocked
  /\ leases' = Renewed(s, id)
  /\ UNCHANGED <<nextLeaseID, blocked>>

\* LeaseTimeToLive
HasTimeLeft(s, id) == leases[s][id] = "live"

\* ExpiresAt is over
Expire(s, id) ==
  /\ leases[s][id] = "live" /\ Fault("expiry")
  /\ leases' = [leases EXCEPT ![s][id] = "expired"]
  /\ UNCHANGED <<nextLeaseID, blocked, revokeVars, leader>>

ExpiredLeases(s) == {id \in LeaseId : leases[s][id] = "expired"}

\* checkExpirations, with something to send; without, it changes nothing
CheckExpirations(s) ==
  /\ s \notin blocked /\ ExpiredLeases(s) # {}
  /\ blocked' = blocked \cup {s}
  /\ UNCHANGED <<leases, nextLeaseID, revokeVars, leader, faults>>

-----------------------------------------------------------------------------
(* Revoking, on server s. *)

\* A goroutine enters proposeLeaseRevoke
Revoker(s, id, by) == [server |-> s, id |-> id, by |-> by, at |-> "keys"]

\* LeaseRevoke
LeaseRevoke(s, id, by) ==
  /\ revokers' = revokers \cup {Revoker(s, id, by)}
  /\ UNCHANGED due

Ticking(s) == {r \in revokers : r.server = s /\ r.by = "ticker"}

\* A tick of the expiration loop
ExpirationTick(s) ==
  /\ leader = s /\ due[s] = {} /\ Ticking(s) = {}
  /\ s \notin blocked /\ ExpiredLeases(s) # {}
  /\ due' = [due EXCEPT ![s] = ExpiredLeases(s)]
  /\ UNCHANGED <<managerVars, revokers, leader, faults>>

\* The loop goes on to an id it has found
ExpirationNext(s, id) ==
  /\ id \in due[s] /\ Ticking(s) = {}
  /\ due' = [due EXCEPT ![s] = @ \ {id}]
  /\ revokers' = revokers \cup {Revoker(s, id, "ticker")}
  /\ UNCHANGED <<managerVars, leader, faults>>

\* GetLeaseKeys. What proposeLeaseRevoke does with the keys is in LeaseTtl
GetLeaseKeys(r) ==
  /\ r \in revokers /\ r.at = "keys" /\ r.server \notin blocked
  /\ revokers' = (revokers \ {r}) \cup {[r EXCEPT !.at = "send"]}
  /\ UNCHANGED <<managerVars, due, leader, faults>>

\* Mutant of Revoked: the lease expires, and is left to checkExpirations
RevokedLater(r) == [leases EXCEPT ![r.server][r.id] = IF @ = "none" THEN @ ELSE "expired"]

Revoked(r) == [leases EXCEPT ![r.server][r.id] = "none"]

\* run receives from revokeC: revokeLease
RevokeLease(r) ==
  /\ r \in revokers /\ r.at = "send" /\ r.server \notin blocked
  /\ leases' = Revoked(r)
  /\ revokers' = revokers \ {r}
  /\ UNCHANGED <<nextLeaseID, blocked, due, leader, faults>>

NewLeader(s) ==
  /\ leader # s /\ Fault("leader")
  /\ leader' = s
  /\ UNCHANGED <<managerVars, revokeVars>>

\* StartKVServer: no lease is persistent
Restart(s) ==
  /\ Fault("restart")
  /\ leases' = [leases EXCEPT ![s] = [id \in LeaseId |-> "none"]]
  /\ nextLeaseID' = [nextLeaseID EXCEPT ![s] = 1]
  /\ blocked' = blocked \ {s}
  /\ due' = [due EXCEPT ![s] = {}]
  /\ revokers' = {r \in revokers : r.server # s}
  /\ leader' \in (IF leader = s THEN Server ELSE {leader})

\* What a server does with its leases on its own
LeaseStep ==
  \/ \E s \in Server : CheckExpirations(s) \/ ExpirationTick(s) \/ NewLeader(s)
  \/ \E s \in Server, id \in LeaseId : Expire(s, id) \/ ExpirationNext(s, id)

=============================================================================
