----------------------------- MODULE LeaseUsers -----------------------------
(***************************************************************************)
(* The users of leases: services (client/service_discovery.go, the gateway *)
(* and the demo services), nodes (client/naming.go) and locks (Lock,       *)
(* LockWithKeepAlive, Unlock), and a reader that checks the health of a    *)
(* service. All of them grant a lease, write a record, which holds the id  *)
(* of the lease (for a node only in this model), revoke the lease when the *)
(* write fails, renew it, and give it up.                                  *)
(*                                                                         *)
(* A lease call goes to the server the clerk happens to point at, and ids  *)
(* are counted by each server. A write that has failed may have run or may *)
(* still run, and the next write of the client has the same offset.        *)
(*                                                                         *)
(* The users are written against the interface KVStore, and so is this     *)
(* module: a Get returns the record or fails. The server of the repository *)
(* refuses every Get (see Clerk), so that with it they always fail.        *)
(***************************************************************************)
EXTENDS Lease

CONSTANTS Client, Name, None,
          Kinds,         \* what the clients may be: "service", "node" or "lock"
          name,          \* of each client: the key of its record
          MaxChecks      \* bound: health checks

ASSUME UserAssumption == /\ Kinds \subseteq [Client -> {"service", "node", "lock"}]
                         /\ name \in [Client -> Name]
                         /\ {"idle", "listed"} \cap Server = {}
ASSUME UserBounds == MaxChecks \in Nat

VARIABLES
  kind,        \* of each client: what it is
  phase,       \* of each client: where it is
  lease,       \* of each client: the id it was granted, or 0
  home,        \* of each client: the server that granted it
  target,      \* of each client: the server its lease calls go to
  renews,      \* the clients whose AutoKeepAlive runs
  seen,        \* of each client: the id Deregister has read, or 0
  record,      \* of each name: the record, None if it is absent or empty
  pending,     \* of each client: the write with its offset that failed, or None
  owner,       \* of each server and id: the client it was granted to, or None
  reader,      \* the health check
  checks

userVars == <<kind, phase, lease, home, target, renews, seen>>
storeVars == <<record, pending>>
readerVars == <<reader, checks>>
vars == <<leaseVars, userVars, storeVars, owner, faults, readerVars>>

NoCheck == [at |-> "idle", found |-> None, healthy |-> FALSE]

Init ==
  /\ LeaseInit
  /\ kind \in Kinds
  /\ phase = [c \in Client |-> "idle"] /\ lease = [c \in Client |-> 0]
  /\ target \in [Client -> Server] /\ home = target
  /\ renews = {} /\ seen = [c \in Client |-> 0]
  /\ record = [n \in Name |-> None] /\ pending = [c \in Client |-> None]
  /\ owner = [s \in Server |-> [id \in LeaseId |-> None]]
  /\ reader = NoCheck /\ checks = 0

Goes(c, from, to) == phase[c] = from /\ phase' = [phase EXCEPT ![c] = to]

-----------------------------------------------------------------------------
(* The key-value store, as a client sees it. *)

\* Mutant of Value: the record is made before the lease is granted
ValueBefore(c) == [owner |-> c, lease |-> 0, home |-> home[c]]

\* The record of c. A write of None leaves an empty value, or removes the key. A
\* lock is a CAS: Lock writes over no record, Unlock removes the one with its id
Value(c) == [owner |-> c, lease |-> lease[c], home |-> home[c]]


Succeeds(c, val, id) ==
  LET found == record[name[c]] IN
  kind[c] = "lock" => IF val = None THEN found # None /\ found.lease = id
                                    ELSE found = None

Runs(c, val, id) ==
  record' = [record EXCEPT ![name[c]] = IF Succeeds(c, val, id) THEN val ELSE @]

\* A write of val that returns: what becomes of c if it is done, and if it fails.
\* An earlier write with the same offset that has run is what is answered
Write(c, val, done, fails) ==
  LET p == pending[c] IN
  \/ /\ IF p # None /\ p.ran
        THEN /\ phase' = [phase EXCEPT ![c] = IF p.ok THEN done ELSE fails]
             /\ UNCHANGED record
        ELSE /\ Runs(c, val, lease[c])
             /\ phase' = [phase EXCEPT ![c] =
                            IF Succeeds(c, val, lease[c]) THEN done ELSE fails]
     /\ pending' = [pending EXCEPT ![c] = None]
     /\ UNCHANGED faults
  \/ /\ Fault("give up")
     /\ phase' = [phase EXCEPT ![c] = fails]
     /\ \/ UNCHANGED pending
        \/ /\ p # None => ~ p.ran
           /\ pending' = [pending EXCEPT ![c] = [val |-> val, lease |-> lease[c],
                                                 ran |-> FALSE, ok |-> FALSE]]
     /\ UNCHANGED record

\* A write that has failed runs after all
RunsLate(c) ==
  LET p == pending[c] IN
  /\ p # None /\ ~ p.ran
  /\ Runs(c, p.val, p.lease)
  /\ pending' = [pending EXCEPT ![c] = [p EXCEPT !.ran = TRUE,
                                                 !.ok = Succeeds(c, p.val, p.lease)]]
  /\ UNCHANGED <<leaseVars, userVars, owner, faults, readerVars>>

-----------------------------------------------------------------------------
(* A client c takes its record. *)

\* LeaseGrant. The reply may be lost: the lease is there, and c is told it failed.
\* A goroutine that still renews an earlier lease is not followed any further
GrantLease(c) ==
  LET s == target[c] IN
  /\ phase[c] \in {"idle", "failed", "done", "left"} /\ Grant(s)
  /\ \/ /\ phase' = [phase EXCEPT ![c] = "write"]
        /\ lease' = [lease EXCEPT ![c] = NewId(s)]
        /\ home' = [home EXCEPT ![c] = s]
        /\ owner' = [owner EXCEPT ![s][NewId(s)] = c]
        /\ UNCHANGED faults
     \/ /\ Fault("lost")
        /\ phase' = [phase EXCEPT ![c] = "failed"]
        /\ owner' = [owner EXCEPT ![s][NewId(s)] = None]
        /\ UNCHANGED <<lease, home>>
  /\ renews' = renews \ {c}
  /\ UNCHANGED <<revokeVars, leader, kind, target, seen, storeVars,
                 readerVars>>

\* The record is written, or the lease is given back
TakeRecord(c, k) ==
  /\ phase[c] = "write" /\ kind[c] = k
  /\ Write(c, Value(c), "held", "undo")
  /\ UNCHANGED <<leaseVars, kind, lease, home, target, seen, owner, readerVars>>

\* AutoKeepAlive is called if the record is written
WithRenewal(c) == renews' = IF phase'[c] = "held" THEN renews \cup {c} ELSE renews

Register(c) == TakeRecord(c, "service") /\ UNCHANGED renews

SetNodeWithLease(c) == TakeRecord(c, "node") /\ WithRenewal(c)

Lock(c) == TakeRecord(c, "lock") /\ UNCHANGED renews

LockWithKeepAlive(c) == TakeRecord(c, "lock") /\ WithRenewal(c)

\* KeepAlive of the registry, at any time later
StartRenewal(c) ==
  /\ kind[c] = "service" /\ phase[c] = "held"
  /\ renews' = renews \cup {c}
  /\ UNCHANGED <<leaseVars, kind, phase, lease, home, target, seen, storeVars, owner, faults,
                 readerVars>>

\* The clerk that renews: the demo services make another one for it
RenewAt(c) == IF kind[c] = "service" THEN Server ELSE {target[c]}

\* AutoKeepAlive: a tick. It ends when the lease is not found, or the call is lost
AutoKeepAlive(c) ==
  /\ c \in renews
  /\ \/ \E s \in RenewAt(c) :
          /\ KeepAlive(s, lease[c])
          /\ renews' = IF InTable(s, lease[c]) THEN renews ELSE renews \ {c}
          /\ UNCHANGED faults
     \/ /\ Fault("lost")
        /\ renews' = renews \ {c}
        /\ UNCHANGED managerVars
  /\ UNCHANGED <<revokeVars, leader, kind, phase, lease, home, target, seen, storeVars,
                 owner, readerVars>>

-----------------------------------------------------------------------------
(* A client c gives its record up. *)

\* Deregister reads the record; without one, or without an answer, it returns
Deregister(c) ==
  LET found == record[name[c]] IN
  /\ phase[c] = "held" /\ kind[c] = "service"
  /\ \/ /\ found # None
        /\ phase' = [phase EXCEPT ![c] = "clear"]
        /\ seen' = [seen EXCEPT ![c] = found.lease]
     \/ Goes(c, "held", "left") /\ UNCHANGED seen
  /\ UNCHANGED <<leaseVars, kind, lease, home, target, renews, storeVars, owner, faults,
                 readerVars>>

\* Its Put of the empty value
DeregisterPut(c) ==
  /\ phase[c] = "clear"
  /\ Write(c, None, "revoke", "left")
  /\ UNCHANGED <<leaseVars, kind, lease, home, target, renews, seen, owner, readerVars>>

\* The record with the own id is removed; Unlock may be called again
Unlock(c) ==
  /\ kind[c] = "lock" /\ phase[c] \in {"held", "done"}
  /\ Write(c, None, "revoke", "left")
  /\ seen' = [seen EXCEPT ![c] = lease[c]]
  /\ UNCHANGED <<leaseVars, kind, lease, home, target, renews, owner, readerVars>>

\* After a write that failed, at the end of Deregister and Unlock, and in the
\* function SetNodeWithLease returns
RevokeAt(c) ==
  \/ phase[c] \in {"undo", "revoke"}
  \/ phase[c] = "held" /\ kind[c] = "node"

After(p) == IF p \in {"undo", "undoing"} THEN "failed" ELSE "done"

\* LeaseRevoke is called. The call may fail, with or without reaching the server
CallRevoke(c) ==
  LET id == IF phase[c] = "revoke" THEN seen[c] ELSE lease[c] IN
  /\ RevokeAt(c)
  /\ \/ /\ LeaseRevoke(target[c], id, c)
        /\ phase' = [phase EXCEPT ![c] = IF @ = "undo" THEN "undoing" ELSE "revoking"]
        /\ UNCHANGED faults
     \/ /\ Fault("lost")
        /\ phase' = [phase EXCEPT ![c] = After(@)]
        /\ LeaseRevoke(target[c], id, c) \/ UNCHANGED revokeVars
  /\ seen' = [seen EXCEPT ![c] = id]
  /\ UNCHANGED <<managerVars, leader, kind, lease, home, target, renews, storeVars, owner,
                 readerVars>>

\* LeaseRevoke has returned
RevokeReturns(c) ==
  /\ phase[c] \in {"undoing", "revoking"}
  /\ ~ \E r \in revokers : r.by = c
  /\ phase' = [phase EXCEPT ![c] = After(@)]
  /\ UNCHANGED <<leaseVars, kind, lease, home, target, renews, seen, storeVars, owner, faults,
                 readerVars>>

\* The goroutine of AutoKeepAlive sees the flag its cancel function has set, which
\* may be after another tick
CancelRenew(c) ==
  /\ c \in renews /\ (phase[c] = "held" => kind[c] # "service")
  /\ renews' = renews \ {c}
  /\ UNCHANGED <<leaseVars, kind, phase, lease, home, target, seen, storeVars, owner, faults,
                 readerVars>>

-----------------------------------------------------------------------------
(* Faults, the health check, and the servers. *)

CrashClient(c) ==
  /\ phase[c] # "crashed" /\ Fault("crash")
  /\ phase' = [phase EXCEPT ![c] = "crashed"]
  /\ renews' = renews \ {c}
  /\ UNCHANGED <<leaseVars, kind, lease, home, target, seen, storeVars, owner, readerVars>>

\* nextSendLocalId changes, in a write or a lease call of the clerk
Move(c, s) ==
  /\ Fault("move")
  /\ target' = [target EXCEPT ![c] = s]
  /\ UNCHANGED <<leaseVars, kind, phase, lease, home, renews, seen, storeVars, owner,
                 readerVars>>

\* Get of ServiceDiscoveryV3 finds a record. HealthCheck goes on to ask for the time
\* left of its lease; the load balancer and the demo gateway just use it
ListServices(n) ==
  /\ reader.at = "idle" /\ checks < MaxChecks
  /\ record[n] # None /\ kind[record[n].owner] = "service"
  /\ reader' = [at |-> "listed", found |-> record[n], healthy |-> FALSE]
  /\ checks' = checks + 1
  /\ UNCHANGED <<leaseVars, userVars, storeVars, owner, faults>>

AskTimeToLive(s) ==
  /\ reader.at = "listed" /\ s \notin blocked
  /\ reader' = [reader EXCEPT !.at = s, !.healthy = HasTimeLeft(s, reader.found.lease)]
  /\ UNCHANGED <<leaseVars, userVars, storeVars, owner, faults, checks>>

GetInstance ==
  /\ reader.at = "listed"
  /\ reader' = NoCheck
  /\ UNCHANGED <<leaseVars, userVars, storeVars, owner, faults, checks>>

CheckReturns ==
  /\ reader.at \in Server
  /\ reader' = NoCheck
  /\ UNCHANGED <<leaseVars, userVars, storeVars, owner, faults, checks>>

\* Servers on their own; no key is attached to these leases
ServerStep ==
  /\ LeaseStep \/ \E r \in revokers : GetLeaseKeys(r) \/ RevokeLease(r)
  /\ UNCHANGED <<userVars, storeVars, owner, readerVars>>

RestartServer(s) ==
  /\ Restart(s)
  /\ owner' = [owner EXCEPT ![s] = [id \in LeaseId |-> None]]
  /\ UNCHANGED <<userVars, storeVars, readerVars>>

\* The handlers of the gateway call the registry and report what it returns
RegisterService(c) == kind[c] = "service" /\ (GrantLease(c) \/ Register(c))
DeregisterService(c) == Deregister(c) \/ DeregisterPut(c)

\* What a service does, as the gateway lets it or as the demo services do, what a
\* node does, and the holder of a lock
ServiceStep(c) == RegisterService(c) \/ StartRenewal(c) \/ DeregisterService(c)
NodeStep(c) == kind[c] = "node" /\ (GrantLease(c) \/ SetNodeWithLease(c))
LockStep(c) ==
  kind[c] = "lock" /\ (GrantLease(c) \/ Lock(c) \/ LockWithKeepAlive(c) \/ Unlock(c))

UserStep(c) ==
  \/ ServiceStep(c) \/ NodeStep(c) \/ LockStep(c)
  \/ AutoKeepAlive(c) \/ CallRevoke(c) \/ RevokeReturns(c) \/ CancelRenew(c)

Next ==
  \/ ServerStep
  \/ \E s \in Server : RestartServer(s) \/ AskTimeToLive(s)
  \/ \E c \in Client : UserStep(c) \/ RunsLate(c) \/ CrashClient(c)
  \/ \E c \in Client, s \in Server : Move(c, s)
  \/ \E n \in Name : ListServices(n)
  \/ GetInstance \/ CheckReturns

Spec == Init /\ [][Next]_vars

-----------------------------------------------------------------------------

Phases == {"idle", "write", "undo", "undoing", "failed", "held", "clear",
           "revoke", "revoking", "done", "left", "crashed"}
Record == [owner : Client, lease : LeaseId, home : Server] \cup {None}

\* Every variable has its type.
TypeOK ==
  /\ leases \in [Server -> [LeaseId -> {"none", "live", "expired"}]]
  /\ nextLeaseID \in [Server -> 1..(MaxLeases + 1)]
  /\ blocked \subseteq Server /\ due \in [Server -> SUBSET LeaseId]
  /\ leader \in Server
  /\ phase \in [Client -> Phases] /\ lease \in [Client -> {0} \cup LeaseId]
  /\ home \in [Client -> Server] /\ target \in [Client -> Server]
  /\ renews \subseteq Client /\ seen \in [Client -> {0} \cup LeaseId]
  /\ record \in [Name -> Record] /\ owner \in [Server -> [LeaseId -> Client \cup {None}]]

\* A lease a client goes on using is still its own: the server that granted it
\* has not granted the id again (Grant), unless it was restarted. A lease that
\* is gone is not another's by the time it is renewed, revoked or asked for.
LeaseIsOwn ==
  "restart" \notin faults =>
    /\ \A c \in Client : lease[c] # 0 => owner[home[c]][lease[c]] = c
    /\ reader.at \in Server /\ reader.at = reader.found.home
         => owner[reader.at][reader.found.lease] = reader.found.owner

\* When Register, SetNodeWithLease or Lock has failed, or Deregister, Unlock or
\* the function of SetNodeWithLease is done, the lease is gone from its server,
\* unless a call was lost, the clerk went to another server, or Deregister found
\* the record of another lease; and so is the record, unless a call was lost or a
\* write given up. (The record of a node stays: nothing removes it.)
NothingLeftBehind ==
  \A c \in Client :
    phase[c] \in {"failed", "done"} /\ lease[c] # 0 =>
      /\ faults \cap {"lost", "move"} = {} /\ (phase[c] = "done" => seen[c] = lease[c])
           => ~ (InTable(home[c], lease[c]) /\ owner[home[c]][lease[c]] = c)
      /\ faults \cap {"lost", "give up"} = {} /\ kind[c] # "node"
           => record[name[c]] # Value(c)


=============================================================================
