---------------------------- MODULE LeaseProofs ----------------------------
(***************************************************************************)
(* For any number of servers, clients, names and leases: an id that a      *)
(* client or a record holds was granted to that client, and not again to   *)
(* another, as long as no server is restarted.                             *)
(***************************************************************************)
EXTENDS LeaseUsers, TLAPS

\* Server s has granted id to c, and to no other client after that
Own(id, s, c) == id \in LeaseId /\ id < nextLeaseID[s] /\ owner[s][id] = c

OwnRecord(r) ==
  \/ r = None
  \/ r.owner \in Client /\ r.home \in Server /\ Own(r.lease, r.home, r.owner)

OwnTypes ==
  /\ nextLeaseID \in [Server -> Nat]
  /\ owner \in [Server -> [LeaseId -> Client \cup {None}]]
  /\ phase \in [Client -> Phases] /\ lease \in [Client -> Nat]
  /\ home \in [Client -> Server] /\ target \in [Client -> Server]
  /\ record = [n \in Name |-> record[n]] /\ pending = [c \in Client |-> pending[c]]
  /\ reader = [at |-> reader.at, found |-> reader.found, healthy |-> reader.healthy]

\* Every id in use is its user's: of the clients, in the records, in the writes
\* that may still run, and in the hand of the reader.
IdsAreOwn ==
  /\ \A c \in Client : lease[c] # 0 => Own(lease[c], home[c], c)
  /\ \A n \in Name : OwnRecord(record[n])
  /\ \A c \in Client : pending[c] = None \/ OwnRecord(pending[c].val)
  /\ OwnRecord(reader.found)

OwnInv ==
  /\ OwnTypes
  /\ \A c \in Client : phase[c] = "write" => lease[c] # 0
  /\ reader.at # "idle" => reader.found # None
  /\ "restart" \notin faults => IdsAreOwn

\* The first state: nothing is granted (NewLeaseManager).
LEMMA OwnInvInit == Init => OwnInv
<1> SUFFICES ASSUME Init PROVE OwnInv
  OBVIOUS
<1>1. OwnTypes
  <2>1. nextLeaseID \in [Server -> Nat] /\ lease \in [Client -> Nat]
    BY SMT DEF Init, LeaseInit
  <2>2. owner \in [Server -> [LeaseId -> Client \cup {None}]]
    BY SMT DEF Init
  <2>3. /\ phase \in [Client -> Phases]
        /\ home \in [Client -> Server] /\ target \in [Client -> Server]
    BY DEF Init, Phases
  <2>4. record = [n \in Name |-> record[n]] /\ pending = [c \in Client |-> pending[c]]
    BY SMT DEF Init
  <2>5. reader = [at |-> reader.at, found |-> reader.found, healthy |-> reader.healthy]
    BY DEF Init, NoCheck
  <2> QED
    BY <2>1, <2>2, <2>3, <2>4, <2>5 DEF OwnTypes
<1>2. IdsAreOwn
  BY DEF Init, IdsAreOwn, OwnRecord, NoCheck
<1>3. \A c \in Client : phase[c] = "write" => lease[c] # 0
  BY DEF Init
<1>4. reader.at # "idle" => reader.found # None
  BY DEF Init, NoCheck
<1> QED
  BY <1>1, <1>2, <1>3, <1>4 DEF OwnInv

\* What touches no id, no record and no reader keeps OwnInv.
LEMMA Frame ==
  ASSUME OwnInv, faults \subseteq faults',
         UNCHANGED <<nextLeaseID, lease, home, owner, record, pending, reader>>,
         target' \in [Client -> Server], phase' \in [Client -> Phases],
         \A c \in Client : phase'[c] = "write" => phase[c] = "write"
  PROVE  OwnInv'
<1>1. OwnTypes'
  BY DEF OwnInv, OwnTypes
<1>2. IdsAreOwn => IdsAreOwn'
  BY DEF IdsAreOwn, OwnRecord, Own
<1>3. "restart" \notin faults' => "restart" \notin faults
  OBVIOUS
<1> QED
  BY <1>1, <1>2, <1>3 DEF OwnInv

\* A write that returns (write), of a value that is its client's own.
LEMMA WriteKeepsOwn ==
  ASSUME OwnInv, NEW c \in Client, NEW val, NEW done \in Phases, NEW fails \in Phases,
         done # "write", fails # "write",
         "restart" \notin faults => OwnRecord(val),
         Write(c, val, done, fails),
         UNCHANGED <<nextLeaseID, lease, home, target, owner, reader>>
  PROVE  OwnInv'
<1>1. faults \subseteq faults'
  BY DEF Write, Fault
<1>2. phase' \in [Client -> Phases] /\ \A d \in Client : phase'[d] = "write" => phase[d] = "write"
  <2>1. \/ phase' = [phase EXCEPT ![c] = done]
        \/ phase' = [phase EXCEPT ![c] = fails]
    BY DEF Write
  <2> QED
    BY <2>1 DEF OwnInv, OwnTypes
<1>3. record' = record \/ record' = [record EXCEPT ![name[c]] = val]
  BY DEF Write, Runs, OwnInv, OwnTypes
<1>4. \/ pending' = pending
      \/ pending' = [pending EXCEPT ![c] = None]
      \/ \E r, o : pending' = [pending EXCEPT ![c] = [val |-> val, lease |-> lease[c],
                                                     ran |-> r, ok |-> o]]
  BY DEF Write
<1>5. OwnTypes'
  BY <1>2, <1>3, <1>4, SMT DEF OwnInv, OwnTypes
<1>6. "restart" \notin faults' => IdsAreOwn'
  <2> SUFFICES ASSUME "restart" \notin faults' PROVE IdsAreOwn'
    OBVIOUS
  <2>1. IdsAreOwn /\ OwnRecord(val)
    BY <1>1 DEF OwnInv
  <2>2. ASSUME NEW r PROVE OwnRecord(r)' <=> OwnRecord(r)
    BY DEF OwnRecord, Own
  <2>3. \A n \in Name : OwnRecord(record[n])'
    BY <1>3, <2>1 DEF IdsAreOwn, OwnInv, OwnTypes, OwnRecord, Own
  <2>4. \A d \in Client : pending'[d] = None \/ OwnRecord(pending'[d].val)
    <3> SUFFICES ASSUME NEW d \in Client
                 PROVE  pending'[d] = None \/ OwnRecord(pending'[d].val)
      OBVIOUS
    <3>1. CASE pending' = pending \/ pending' = [pending EXCEPT ![c] = None]
      <4>1. pending'[d] = pending[d] \/ pending'[d] = None
        BY <3>1 DEF OwnInv, OwnTypes
      <4> QED
        BY <2>1, <4>1 DEF IdsAreOwn
    <3>2. CASE \E r, o : pending' = [pending EXCEPT ![c] = [val |-> val, lease |-> lease[c],
                                                           ran |-> r, ok |-> o]]
      <4>1. PICK r, o : pending' = [pending EXCEPT ![c] = [val |-> val, lease |-> lease[c],
                                                           ran |-> r, ok |-> o]]
        BY <3>2
      <4> DEFINE w == [val |-> val, lease |-> lease[c], ran |-> r, ok |-> o]
      <4>2. w.val = val
        OBVIOUS
      <4> HIDE DEF w
      <4>3. pending' = [pending EXCEPT ![c] = w]
        BY <4>1 DEF w
      <4>4. pending'[d] = pending[d] \/ pending'[d] = w
        BY <4>3 DEF OwnInv, OwnTypes
      <4> QED
        BY <2>1, <4>2, <4>4 DEF IdsAreOwn
    <3> QED
      BY <1>4, <3>1, <3>2
  <2> QED
    BY <2>1, <2>2, <2>3, <2>4 DEF IdsAreOwn, OwnRecord, Own
<1> QED
  BY <1>2, <1>5, <1>6 DEF OwnInv

\* LeaseGrant takes the next id of its server, which no one uses yet.
LEMMA GrantKeepsOwn == ASSUME OwnInv, NEW c \in Client, GrantLease(c) PROVE OwnInv'
<1> DEFINE s == target[c]
           id == nextLeaseID[s]
<1>1. s \in Server /\ id \in Nat
  BY DEF OwnInv, OwnTypes
<1>2. id \in LeaseId /\ nextLeaseID' = [nextLeaseID EXCEPT ![s] = id + 1]
  BY <1>1 DEF GrantLease, Grant, NewId, OwnInv, OwnTypes
<1>3. \E x \in Client \cup {None} : owner' = [owner EXCEPT ![s][id] = x]
  BY DEF GrantLease, NewId
<1>4. UNCHANGED <<record, pending, reader, target>> /\ faults \subseteq faults'
  BY DEF GrantLease, storeVars, readerVars, Fault
<1>5. \/ /\ phase' = [phase EXCEPT ![c] = "write"] /\ lease' = [lease EXCEPT ![c] = id]
         /\ home' = [home EXCEPT ![c] = s] /\ owner' = [owner EXCEPT ![s][id] = c]
      \/ phase' = [phase EXCEPT ![c] = "failed"] /\ UNCHANGED <<lease, home>>
  BY DEF GrantLease, NewId
<1>6. ASSUME NEW j, NEW t \in Server, NEW d, Own(j, t, d) PROVE Own(j, t, d)'
  BY <1>1, <1>2, <1>3, <1>6, SMT DEF Own, OwnInv, OwnTypes, LeaseId
<1>7. ASSUME NEW r, OwnRecord(r) PROVE OwnRecord(r)'
  BY <1>6, <1>7 DEF OwnRecord
<1>8. OwnTypes'
  <2>1. nextLeaseID' \in [Server -> Nat]
    BY <1>1, <1>2, SMT DEF OwnInv, OwnTypes
  <2>2. owner' \in [Server -> [LeaseId -> Client \cup {None}]]
    BY <1>1, <1>2, <1>3 DEF OwnInv, OwnTypes
  <2>3. lease' \in [Client -> Nat] /\ home' \in [Client -> Server]
    <3> HIDE DEF s, id
    <3>1. lease \in [Client -> Nat] /\ home \in [Client -> Server]
      BY DEF OwnInv, OwnTypes
    <3> QED
      BY <1>1, <1>5, <3>1
  <2>4. "write" \in Phases /\ "failed" \in Phases
    BY DEF Phases
  <2>5. phase' \in [Client -> Phases]
    BY <1>5, <2>4 DEF OwnInv, OwnTypes
  <2> QED
    BY <1>4, <2>1, <2>2, <2>3, <2>5 DEF OwnInv, OwnTypes
<1>9. \A d \in Client : phase'[d] = "write" => lease'[d] # 0
  BY <1>1, <1>2, <1>5, SMT DEF OwnInv, OwnTypes, LeaseId
<1>10. "restart" \notin faults' => IdsAreOwn'
  <2> SUFFICES ASSUME IdsAreOwn PROVE IdsAreOwn'
    BY <1>4 DEF OwnInv
  <2>1. ASSUME NEW d \in Client, lease'[d] # 0 PROVE Own(lease[d], home[d], d)'
    <3>1. CASE d = c /\ lease'[c] = id /\ home'[c] = s /\ owner'[s][id] = c
      BY <1>1, <1>2, <3>1, SMT DEF Own, OwnInv, OwnTypes
    <3>2. CASE lease'[d] = lease[d] /\ home'[d] = home[d]
      <4>1. Own(lease[d], home[d], d) /\ home[d] \in Server
        BY <2>1, <3>2 DEF IdsAreOwn, OwnInv, OwnTypes
      <4> QED
        BY <3>2, <4>1, <1>2, <1>1, <1>3, SMT DEF Own, OwnInv, OwnTypes, LeaseId
    <3> QED
      BY <1>1, <1>2, <1>5, <3>1, <3>2 DEF OwnInv, OwnTypes
  <2> QED
    BY <1>4, <1>7, <2>1 DEF IdsAreOwn
<1> QED
  BY <1>4, <1>8, <1>9, <1>10 DEF OwnInv

\* A write that has failed runs after all, with a value that is its client's own.
LEMMA LateKeepsOwn == ASSUME OwnInv, NEW c \in Client, RunsLate(c) PROVE OwnInv'
<1> DEFINE p == pending[c]
<1>1. UNCHANGED <<nextLeaseID, lease, home, target, owner, reader, faults, phase>>
  BY DEF RunsLate, leaseVars, managerVars, userVars, readerVars
<1>2. record' = record \/ record' = [record EXCEPT ![name[c]] = p.val]
  BY DEF RunsLate, Runs, OwnInv, OwnTypes
<1>3. p # None /\ \E o : pending' = [pending EXCEPT ![c] = [p EXCEPT !.ran = TRUE, !.ok = o]]
  BY DEF RunsLate
<1>4. OwnTypes'
  BY <1>1, <1>2, <1>3 DEF OwnInv, OwnTypes
<1>5. ASSUME IdsAreOwn PROVE IdsAreOwn'
  <2>1. \A r : OwnRecord(r) => OwnRecord(r)'
    BY <1>1 DEF OwnRecord, Own
  <2>2. \A n \in Name : OwnRecord(record'[n])
    BY <1>2, <1>3, <1>5 DEF IdsAreOwn, OwnInv, OwnTypes
  <2>3. \A o : [p EXCEPT !.ran = TRUE, !.ok = o].val = p.val
    OBVIOUS
  <2>4. \A d \in Client : pending'[d] = None \/ OwnRecord(pending'[d].val)
    BY <1>3, <1>5, <2>3 DEF IdsAreOwn, OwnInv, OwnTypes
  <2> QED
    BY <1>1, <1>5, <2>1, <2>2, <2>4 DEF IdsAreOwn, OwnRecord, Own
<1> QED
  BY <1>1, <1>4, <1>5 DEF OwnInv

\* Every step of Next keeps OwnInv.
LEMMA OwnInvStep == OwnInv /\ [Next]_vars => OwnInv'
<1> SUFFICES ASSUME OwnInv, [Next]_vars PROVE OwnInv'
  OBVIOUS
<1> USE DEF leaseVars, managerVars, revokeVars, userVars, storeVars, readerVars
<1>1. ASSUME ServerStep PROVE OwnInv'
  <2>1. UNCHANGED nextLeaseID /\ faults \subseteq faults'
    BY <1>1 DEF ServerStep, LeaseStep, CheckExpirations, ExpirationTick, NewLeader, Expire,
                ExpirationNext, GetLeaseKeys, RevokeLease, Fault
  <2> QED
    BY <1>1, <2>1, Frame DEF ServerStep, OwnInv, OwnTypes
<1>2. ASSUME NEW s \in Server, RestartServer(s) PROVE OwnInv'
  <2>1. "restart" \in faults'
    BY <1>2 DEF RestartServer, Restart, Fault
  <2>2. nextLeaseID' \in [Server -> Nat]
    BY <1>2, SMT DEF RestartServer, Restart, OwnInv, OwnTypes
  <2>3. owner' \in [Server -> [LeaseId -> Client \cup {None}]]
    BY <1>2 DEF RestartServer, OwnInv, OwnTypes
  <2> QED
    BY <1>2, <2>1, <2>2, <2>3 DEF RestartServer, OwnInv, OwnTypes
<1>3. ASSUME NEW n \in Name, ListServices(n) PROVE OwnInv'
  <2>1. /\ reader'.found = record[n] /\ record[n] # None
        /\ reader' = [at |-> reader'.at, found |-> reader'.found, healthy |-> reader'.healthy]
    BY <1>3 DEF ListServices
  <2>2. IdsAreOwn => IdsAreOwn'
    BY <1>3, <2>1 DEF ListServices, IdsAreOwn, OwnRecord, Own
  <2> QED
    BY <1>3, <2>1, <2>2 DEF ListServices, OwnInv, OwnTypes
<1>4. ASSUME NEW s \in Server, AskTimeToLive(s) PROVE OwnInv'
  <2>1. /\ reader.at = "listed" /\ reader'.found = reader.found
        /\ reader' = [at |-> reader'.at, found |-> reader'.found, healthy |-> reader'.healthy]
    BY <1>4 DEF AskTimeToLive, OwnInv, OwnTypes
  <2>2. IdsAreOwn => IdsAreOwn'
    BY <1>4, <2>1 DEF AskTimeToLive, IdsAreOwn, OwnRecord, Own
  <2> QED
    BY <1>4, <2>1, <2>2 DEF AskTimeToLive, OwnInv, OwnTypes
<1>5. ASSUME GetInstance \/ CheckReturns PROVE OwnInv'
  <2>1. reader'.found = None /\ reader'.at = "idle"
        /\ reader' = [at |-> reader'.at, found |-> reader'.found, healthy |-> reader'.healthy]
    BY <1>5 DEF GetInstance, CheckReturns, NoCheck
  <2>2. IdsAreOwn => IdsAreOwn'
    BY <1>5, <2>1 DEF GetInstance, CheckReturns, IdsAreOwn, OwnRecord, Own
  <2> QED
    BY <1>5, <2>1, <2>2 DEF GetInstance, CheckReturns, OwnInv, OwnTypes
<1>6. ASSUME NEW c \in Client, NEW k, TakeRecord(c, k) PROVE OwnInv'
  <2>1. PICK val : val = Value(c)
    OBVIOUS
  <2>2. "restart" \notin faults => OwnRecord(val)
    BY <1>6, <2>1 DEF TakeRecord, Value, OwnInv, OwnTypes, IdsAreOwn, OwnRecord
  <2>3. "held" \in Phases /\ "undo" \in Phases
    BY DEF Phases
  <2>4. Write(c, val, "held", "undo")
    BY <1>6, <2>1 DEF TakeRecord
  <2> QED
    BY <1>6, <2>2, <2>3, <2>4, WriteKeepsOwn DEF TakeRecord
<1>7. ASSUME NEW c \in Client, DeregisterPut(c) \/ Unlock(c) PROVE OwnInv'
  <2>1. "revoke" \in Phases /\ "left" \in Phases /\ OwnRecord(None)
    BY DEF Phases, OwnRecord
  <2>2. Write(c, None, "revoke", "left")
    BY <1>7 DEF DeregisterPut, Unlock
  <2>3. UNCHANGED <<nextLeaseID, lease, home, target, owner, reader>>
    BY <1>7 DEF DeregisterPut, Unlock
  <2> QED
    BY <2>1, <2>2, <2>3, WriteKeepsOwn
<1>8. ASSUME NEW c \in Client, StartRenewal(c) \/ CancelRenew(c) PROVE OwnInv'
  BY <1>8, Frame DEF StartRenewal, CancelRenew, OwnInv, OwnTypes
<1>9. ASSUME NEW c \in Client, AutoKeepAlive(c) PROVE OwnInv'
  BY <1>9, Frame DEF AutoKeepAlive, KeepAlive, Fault, OwnInv, OwnTypes
<1>10. ASSUME NEW c \in Client, Deregister(c) PROVE OwnInv'
  <2>1. \E x \in {"clear", "left"} : phase' = [phase EXCEPT ![c] = x]
    BY <1>10 DEF Deregister, Goes
  <2>2. phase' \in [Client -> Phases] /\ \A d \in Client : phase'[d] = "write" => phase[d] = "write"
    BY <2>1 DEF OwnInv, OwnTypes, Phases
  <2> QED
    BY <1>10, <2>2, Frame DEF Deregister, OwnInv, OwnTypes
<1>11. ASSUME NEW c \in Client, CallRevoke(c) \/ RevokeReturns(c) \/ CrashClient(c) PROVE OwnInv'
  <2>1. \E x \in {"undoing", "revoking", "failed", "done", "crashed"} :
          phase' = [phase EXCEPT ![c] = x]
    BY <1>11 DEF CallRevoke, RevokeReturns, CrashClient, After, OwnInv, OwnTypes
  <2>2. phase' \in [Client -> Phases] /\ \A d \in Client : phase'[d] = "write" => phase[d] = "write"
    BY <2>1 DEF OwnInv, OwnTypes, Phases
  <2>3. faults \subseteq faults'
    BY <1>11 DEF CallRevoke, RevokeReturns, CrashClient, Fault
  <2> QED
    BY <1>11, <2>2, <2>3, Frame
      DEF CallRevoke, RevokeReturns, CrashClient, LeaseRevoke, OwnInv, OwnTypes
<1>12. ASSUME NEW c \in Client, NEW s \in Server, Move(c, s) PROVE OwnInv'
  BY <1>12, Frame DEF Move, Fault, OwnInv, OwnTypes
<1>13. CASE UNCHANGED vars
  BY <1>13, Frame DEF vars, OwnInv, OwnTypes
<1>14. ASSUME NEW c \in Client, UserStep(c) PROVE OwnInv'
  BY <1>14, GrantKeepsOwn, <1>6, <1>7, <1>8, <1>9, <1>10, <1>11
    DEF UserStep, ServiceStep, NodeStep, LockStep, RegisterService, DeregisterService, Register,
        SetNodeWithLease, Lock, LockWithKeepAlive
<1> QED
  BY LateKeepsOwn, <1>1, <1>2, <1>3, <1>4, <1>5, <1>11, <1>12, <1>13, <1>14 DEF Next

\* OwnInv holds in every state of LeaseUsers.
THEOREM OwnInvariant == Spec => []OwnInv
<1>1. Init => OwnInv
  BY OwnInvInit
<1>2. OwnInv /\ [Next]_vars => OwnInv'
  BY OwnInvStep
<1> QED
  BY <1>1, <1>2, PTL DEF Spec

\* The lease a client uses, and the one a health check asks for, is its own: no
\* server grants an id twice unless it is restarted (Grant, GrantLease).
THEOREM LeasesAreOwn == Spec => []LeaseIsOwn
<1>1. OwnInv => LeaseIsOwn
  BY UserAssumption DEF OwnInv, IdsAreOwn, OwnRecord, Own, LeaseIsOwn
<1> QED
  BY <1>1, OwnInvariant, PTL

=============================================================================
