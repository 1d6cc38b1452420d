------------------------------ MODULE LeaseTtl ------------------------------
(***************************************************************************)
(* Keys with a TTL: a write grants a lease on the server it is sent to and *)
(* carries its id, the server attaches the key to the lease when it        *)
(* applies the write, and proposeLeaseRevoke starts a delete of every key  *)
(* that is attached. An entry of the log counts as committed.              *)
(***************************************************************************)
EXTENDS Lease, Sequences, SequencesExt

CONSTANTS Key,
          MaxLog        \* bound: entries of the log

VARIABLES
  attached,       \* of each server and lease: the keys attached to it
  log,            \* the writes of clients, and the deletes servers start
  applied, db     \* of each server: entries applied, and the lease of every key, or 0

ttlVars == <<attached, log, applied, db>>
vars == <<leaseVars, faults, ttlVars>>

NoKeys == [id \in LeaseId |-> {}]

Init ==
  /\ LeaseInit
  /\ attached = [s \in Server |-> NoKeys]
  /\ log = <<>> /\ applied = [s \in Server |-> 0]
  /\ db = [s \in Server |-> [k \in Key |-> 0]]

\* write with a TTL: LeaseGrant, and PutAppend with the id
PutWithTtl(s, k) ==
  /\ Len(log) < MaxLog /\ Grant(s)
  /\ log' = Append(log, [type |-> "Put", key |-> k, lease |-> NewId(s), offset |-> 1])
  /\ UNCHANGED <<revokeVars, leader, faults, attached, applied, db>>

\* The rest of proposeLeaseRevoke before Revoke: the deletes, if r runs on the
\* leader. They have client 0 and offset 0
ProposeDeletes(r) ==
  LET keys == attached[r.server][r.id]
      dels == {[type |-> "Del", key |-> k, lease |-> r.id, offset |-> 0] : k \in keys}
  IN
  /\ GetLeaseKeys(r)
  /\ log' = IF leader = r.server THEN log \o SetToSeq(dels) ELSE log
  /\ UNCHANGED <<attached, applied, db>>

DropLease(r) ==
  /\ RevokeLease(r)
  /\ attached' = [attached EXCEPT ![r.server][r.id] = {}]
  /\ UNCHANGED <<log, applied, db>>

\* duplicateMap has offset 0 for the client 0, which nothing raises
Discarded(op) == op.offset <= 0

\* AttachKey, DetachKey
Attached(s, op) ==
  IF InTable(s, op.lease)
  THEN [attached EXCEPT ![s][op.lease] = IF op.type = "Put" THEN @ \cup {op.key}
                                                           ELSE @ \ {op.key}]
  ELSE attached

\* HandleApplychCommand. AttachKey and DetachKey wait for the lock of the
\* manager, with kv.mu held
Apply(s) ==
  LET op == log[applied[s] + 1] IN
  /\ applied[s] < Len(log)
  /\ applied' = [applied EXCEPT ![s] = @ + 1]
  /\ IF Discarded(op)
     THEN UNCHANGED <<attached, db>>
     ELSE /\ s \notin blocked
          /\ db' = [db EXCEPT ![s][op.key] = IF op.type = "Put" THEN op.lease ELSE 0]
          /\ attached' = Attached(s, op)
  /\ UNCHANGED <<leaseVars, faults, log>>

RestartServer(s) ==
  /\ Restart(s)
  /\ attached' = [attached EXCEPT ![s] = NoKeys]
  /\ applied' = [applied EXCEPT ![s] = 0]
  /\ db' = [db EXCEPT ![s] = [k \in Key |-> 0]]
  /\ UNCHANGED log

Next ==
  \/ LeaseStep /\ UNCHANGED ttlVars
  \/ \E s \in Server : Apply(s) \/ RestartServer(s)
  \/ \E s \in Server, k \in Key : PutWithTtl(s, k)
  \/ \E r \in revokers : ProposeDeletes(r) \/ DropLease(r)

\* The goroutines of a server go on: HandleApplych, run, the expiration loop and
\* proposeLeaseRevoke
Fairness ==
  /\ \A s \in Server :
       /\ WF_vars(Apply(s))
       /\ WF_vars(CheckExpirations(s) /\ UNCHANGED ttlVars)
       /\ WF_vars(ExpirationTick(s) /\ UNCHANGED ttlVars)
       /\ WF_vars(\E id \in LeaseId : ExpirationNext(s, id) /\ UNCHANGED ttlVars)
       /\ WF_vars(\E r \in revokers : r.server = s /\ (ProposeDeletes(r) \/ DropLease(r)))

FairSpec == Init /\ [][Next]_vars /\ Fairness

\* A key whose lease is over is deleted ("automatically deleted when it
\* expires"): by the expiration loop, proposeLeaseRevoke and HandleApplychCommand.
ExpiredKeyIsDeleted ==
  \A s \in Server, k \in Key, id \in LeaseId :
    db[s][k] = id /\ leases[s][id] = "expired" ~> db[s][k] # id

=============================================================================
