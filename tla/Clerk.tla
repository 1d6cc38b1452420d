------------------------------- MODULE Clerk -------------------------------
(***************************************************************************)
(* How a client finds the leader (client/client.go: MakeClerk, watchEtcd,  *)
(* read, write, changeNextSendId, the calls to the lease service).         *)
(*                                                                         *)
(* A client numbers the servers by their place in its configuration, the   *)
(* local id; a server names itself and the leader by the server id. sToc   *)
(* is learnt from replies and takes a server id to a local id. read and    *)
(* write hold ck.mu; the lease calls move nextSendLocalId without it.      *)
(***************************************************************************)
EXTENDS Integers

CONSTANTS N,            \* servers
          idOf,         \* the server at each address of conf.EtcdAddrs
          Tries,        \* calls of one operation: 2 * N * 3 in the code
          MaxChanges    \* bound: elections, crashes, lost calls and connections,
                        \* moves of lease calls

Local == 0..(N - 1)
Server == 0..(N - 1)

ASSUME ClerkAssumption ==
  /\ N \in Nat \ {0} /\ Tries \in Nat /\ MaxChanges \in Nat
  /\ idOf \in [Local -> Server] /\ \A k, l \in Local : idOf[k] = idOf[l] => k = l

None == -1
NoResult == [op |-> "none", res |-> "none", steady |-> FALSE]

VARIABLES
  up, leader,         \* the servers that run, the newest leader or None
  leaderId,           \* the leader each server names, itself if it leads
  conns,              \* ck.servers: "never" connected, "valid", "closed"
  nextSendLocalId, sToc,
  op,                 \* "idle", "read", "write", "panicked"
  at,                 \* where op is: "loop", "send", "sent", "served"
  totalCount, count, lastSendLocalId,
  needsLease,         \* TTL > 0 and no lease granted yet
  target, reply,      \* the server called, and LeaderId of the reply in the making
  lease,              \* a lease call: "idle", "check" again, "move" on
  validCount,         \* of the lease call
  result,             \* of the last operation
  moved,              \* a lease call moved nextSendLocalId during a call of op
  steady,             \* since op began: a leader all know, no call failed
  changes

serverVars == <<up, leader, leaderId, changes>>
opVars == <<op, at, totalCount, count, lastSendLocalId, needsLease, target, reply, result>>
leaseVars == <<lease, validCount>>
vars == <<serverVars, conns, nextSendLocalId, sToc, opVars, leaseVars, moved, steady>>

\* MakeClerk: nextSendLocalId is random
ClerkInit ==
  /\ conns = [l \in Local |-> "never"]
  /\ nextSendLocalId \in Local
  /\ sToc = [s \in Server |-> -1]
  /\ op = "idle" /\ at = "loop" /\ totalCount = 0 /\ count = 0 /\ lastSendLocalId = -1
  /\ needsLease = FALSE /\ target = None /\ reply = None
  /\ lease = "idle" /\ validCount = 0
  /\ result = NoResult
  /\ moved = FALSE /\ steady = FALSE

Init ==
  /\ up = Server /\ leader \in Server \cup {None} /\ changes = 0
  /\ leaderId = [s \in Server |-> leader]
  /\ ClerkInit

\* Everyone who runs knows the leader, and the client has all connections and
\* no wrong entry in sToc
Settled ==
  /\ leader \in up
  /\ \A s \in up : leaderId[s] = leader
  /\ \A l \in Local : conns[l] = "valid"
  /\ \A s \in Server : sToc[s] # -1 => idOf[sToc[s]] = s

-----------------------------------------------------------------------------
(* The servers, and the connections. *)

Change == changes < MaxChanges /\ changes' = changes + 1 /\ steady' = FALSE

\* A call to s fails: s is down, or the call is lost
CallLost(s) == IF s \in up THEN Change ELSE UNCHANGED <<changes, steady>>

Quiet == UNCHANGED <<nextSendLocalId, sToc, opVars, leaseVars, moved>>

\* s wins an election; an older leader may not know yet
Elect(s) ==
  /\ Change
  /\ s \in up /\ leader' = s
  /\ leaderId' = [leaderId EXCEPT ![s] = s]
  /\ UNCHANGED <<up, conns>> /\ Quiet

\* s hears of a newer term, or misses the heartbeats
Forget(s) ==
  /\ Change
  /\ s \in up /\ leaderId[s] # None
  /\ leaderId' = [leaderId EXCEPT ![s] = None]
  /\ leader' = IF leader = s THEN None ELSE leader
  /\ UNCHANGED <<up, conns>> /\ Quiet

\* A heartbeat of the leader reaches s
Heartbeat(s) ==
  /\ s \in up /\ leader \in up /\ leaderId[s] # leader
  /\ leaderId' = [leaderId EXCEPT ![s] = leader]
  /\ UNCHANGED <<up, leader, changes, conns, steady>> /\ Quiet

Crash(s) ==
  /\ Change
  /\ s \in up /\ up' = up \ {s}
  /\ leaderId' = [leaderId EXCEPT ![s] = None]
  /\ leader' = IF leader = s THEN None ELSE leader
  /\ UNCHANGED <<conns>> /\ Quiet

Restart(s) ==
  /\ s \notin up /\ up' = up \cup {s}
  /\ steady' = FALSE
  /\ UNCHANGED <<leader, leaderId, changes, conns>> /\ Quiet

\* A watch stream ends in Unavailable (manageWatchStream, with ck.mu)
Disconnect(l) ==
  /\ Change
  /\ op = "idle" /\ conns[l] = "valid"
  /\ conns' = [conns EXCEPT ![l] = "closed"]
  /\ UNCHANGED <<up, leader, leaderId>> /\ Quiet

\* A new connection: grpc.Dial does not wait for the server. (Without a
\* certificate there is none, and conns stays as it is)
NewKvConn == "valid"

\* The goroutine of MakeClerk dials what is not valid
WatchEtcd(l) ==
  /\ op # "panicked" /\ conns[l] # "valid"
  /\ conns' = [conns EXCEPT ![l] = NewKvConn]
  /\ UNCHANGED <<serverVars, steady>> /\ Quiet

-----------------------------------------------------------------------------
(* read and write. *)

Running == op \in {"read", "write"}

\* Mutant of changeNextSendId: no way back to the first server
PastTheLast(l) == l + 1

changeNextSendId(l) == (l + 1) % N

Begin(kind, ttl) ==
  /\ op = "idle"
  /\ op' = kind
  /\ needsLease' = ttl
  /\ steady' = Settled
  /\ result' = NoResult
  /\ UNCHANGED <<serverVars, conns, nextSendLocalId, sToc, at, totalCount, count,
                 lastSendLocalId, target, reply, leaseVars, moved>>

\* Mutant of FirstValid: the connection is not looked at
FirstAny(l) == {l}

\* The next address with a valid connection, from l on, or none
FirstValid(l) ==
  {m \in Local : /\ conns[m] = "valid"
                 /\ \A k \in Local : (k - l) % N < (m - l) % N => conns[k] # "valid"}

Counts == [read |-> 3, write |-> 5]

\* One server has been called more often than count allows
Rotate == nextSendLocalId = lastSendLocalId /\ count = Counts[op]

\* The local variables go
Return(res) ==
  /\ op' = "idle" /\ at' = "loop"
  /\ totalCount' = 0 /\ count' = 0 /\ lastSendLocalId' = -1
  /\ needsLease' = FALSE /\ target' = None /\ reply' = None
  /\ steady' = FALSE
  /\ result' = [op |-> op, res |-> res, steady |-> steady]

\* The top of the loop, up to the call; with no valid connection it sleeps and
\* goes round
Loop ==
  LET start == IF Rotate THEN changeNextSendId(nextSendLocalId) ELSE nextSendLocalId IN
  /\ Running /\ at = "loop"
  /\ \/ /\ totalCount = Tries
        /\ Return("ErrFaild")
        /\ UNCHANGED nextSendLocalId
     \/ /\ totalCount < Tries
        /\ totalCount' = totalCount + 1
        /\ count' = IF Rotate THEN 0
                    ELSE IF nextSendLocalId = lastSendLocalId THEN count + 1 ELSE count
        /\ \/ FirstValid(start) = {} /\ nextSendLocalId' = start /\ at' = at
           \/ nextSendLocalId' \in FirstValid(start) /\ at' = "send"
        /\ UNCHANGED <<op, lastSendLocalId, needsLease, target, reply, result, steady>>
  /\ UNCHANGED <<serverVars, conns, sToc, leaseVars, moved>>

\* A connection that was never made is a nil pointer; so is one that a watch
\* has closed, for a lease
Panics == \/ conns[nextSendLocalId] = "never"
          \/ needsLease /\ conns[nextSendLocalId] = "closed"

Panic ==
  /\ Running /\ at = "send" /\ Panics
  /\ op' = "panicked" /\ lease' = "idle"
  /\ UNCHANGED <<serverVars, conns, nextSendLocalId, sToc, at, totalCount, count,
                 lastSendLocalId, needsLease, target, reply, result, validCount, moved, steady>>

\* A write with a TTL gets a lease from the server that it will call
GrantLease ==
  /\ Running /\ at = "send" /\ needsLease /\ ~ Panics
  /\ \/ /\ idOf[nextSendLocalId] \in up /\ needsLease' = FALSE
        /\ UNCHANGED <<at, nextSendLocalId, changes, steady>>
     \/ /\ at' = "loop" /\ nextSendLocalId' = changeNextSendId(nextSendLocalId)
        /\ CallLost(idOf[nextSendLocalId])
        /\ UNCHANGED needsLease
  /\ UNCHANGED <<up, leader, leaderId, conns, sToc, op, totalCount, count, lastSendLocalId, target,
                 reply, result, leaseVars, moved>>

Send ==
  /\ Running /\ at = "send" /\ ~ needsLease /\ ~ Panics
  /\ target' = IF conns[nextSendLocalId] = "valid" THEN idOf[nextSendLocalId] ELSE None
  /\ at' = "sent"
  /\ UNCHANGED <<serverVars, conns, nextSendLocalId, sToc, op, totalCount, count,
                 lastSendLocalId, needsLease, reply, result, leaseVars, moved, steady>>

\* Get and PutAppend begin with LeaderId
Serve ==
  /\ Running /\ at = "sent" /\ target \in up
  /\ reply' = leaderId[target]
  /\ at' = "served"
  /\ UNCHANGED <<serverVars, conns, nextSendLocalId, sToc, op, totalCount, count,
                 lastSendLocalId, needsLease, target, result, leaseVars, moved, steady>>

\* The call fails, or its connection was closed: the next server is tried
CallFails ==
  /\ Running /\ at \in {"sent", "served"}
  /\ at' = "loop"
  /\ lastSendLocalId' = nextSendLocalId
  /\ nextSendLocalId' = changeNextSendId(nextSendLocalId)
  /\ target' = None /\ reply' = None
  /\ CallLost(target)
  /\ UNCHANGED <<up, leader, leaderId, conns, sToc, op, totalCount, count, needsLease,
                 result, leaseVars, moved>>

\* Mutant of Learnt: what is learnt is the server that is called next
LearntLate == [sToc EXCEPT ![target] = changeNextSendId(nextSendLocalId)]

Learnt == [sToc EXCEPT ![target] = nextSendLocalId]

\* Mutant of Hinted: the server id is taken for a local id
HintedServer == IF reply = None THEN changeNextSendId(nextSendLocalId) ELSE reply

\* Where ErrWrongLeader leads
Hinted ==
  IF reply = None \/ Learnt[reply] = -1 THEN changeNextSendId(nextSendLocalId)
  ELSE Learnt[reply]

Replies ==
  /\ Running /\ at = "served" /\ target \in up
  /\ sToc' = Learnt
  /\ UNCHANGED <<serverVars, conns, leaseVars, moved>>

\* The client goes on to its next try
Continue ==
  /\ at' = "loop"
  /\ lastSendLocalId' = nextSendLocalId
  /\ target' = None /\ reply' = None
  /\ UNCHANGED <<op, totalCount, count, needsLease, result>>

Leads == leaderId[target] = target

\* A write that the server has led at some time during the call succeeds, or
\* fails by its CAS
ReplyOK ==
  /\ Replies
  /\ op = "write" /\ (Leads \/ reply = target)
  /\ \E res \in {"ErrOK", "ErrCasFaildInt"} : Return(res)
  /\ UNCHANGED nextSendLocalId

\* Not the leader; or a write that is not applied in time; or a read, which no
\* leader answers since CheckIfDepose is always true
ReplyWrongLeader ==
  /\ Replies
  /\ nextSendLocalId' = Hinted
  /\ steady' = (steady /\ ~ (op = "write" /\ Leads))
  /\ Continue

\* A leader that is not back asks the client to wait
ReplyWaitForRecover ==
  /\ Replies
  /\ op = "read" /\ Leads
  /\ Continue
  /\ UNCHANGED <<nextSendLocalId, steady>>

-----------------------------------------------------------------------------
(* A lease call: LeaseGrant, LeaseRevoke, LeaseTimeToLive, a tick of           *)
(* AutoKeepAlive, the leases of BatchWrite. No lock is held.                   *)

\* A look at the connection: the call is made, or the next one is to be tried
LeaseCheck ==
  /\ op # "panicked" /\ lease # "move"
  /\ IF conns[nextSendLocalId] = "valid"
     THEN lease' = "idle" /\ validCount' = 0
     ELSE lease' = "move" /\ UNCHANGED validCount
  /\ UNCHANGED <<serverVars, conns, nextSendLocalId, sToc, opVars, moved, steady>>

LeaseMove ==
  /\ Change
  /\ lease = "move"
  /\ nextSendLocalId' = changeNextSendId(nextSendLocalId)
  /\ validCount' = IF validCount + 1 = N THEN 0 ELSE validCount + 1
  /\ lease' = IF validCount + 1 = N THEN "idle" ELSE "check"
  /\ moved' = (moved \/ (Running /\ at # "loop"))
  /\ UNCHANGED <<up, leader, leaderId, conns, sToc, opVars>>

\* The process starts again
MakeClerk ==
  /\ op = "panicked"
  /\ conns' = [l \in Local |-> "never"]
  /\ nextSendLocalId' \in Local
  /\ sToc' = [s \in Server |-> -1]
  /\ op' = "idle" /\ at' = "loop" /\ totalCount' = 0 /\ count' = 0 /\ lastSendLocalId' = -1
  /\ needsLease' = FALSE /\ target' = None /\ reply' = None
  /\ lease' = "idle" /\ validCount' = 0
  /\ result' = NoResult
  /\ moved' = FALSE /\ steady' = FALSE
  /\ UNCHANGED serverVars

-----------------------------------------------------------------------------

ClientStep ==
  \/ Loop \/ Panic \/ GrantLease \/ Send \/ Serve \/ CallFails
  \/ ReplyOK \/ ReplyWrongLeader \/ ReplyWaitForRecover

Next ==
  \/ \E s \in Server : Elect(s) \/ Forget(s) \/ Heartbeat(s) \/ Crash(s) \/ Restart(s)
  \/ \E l \in Local : Disconnect(l) \/ WatchEtcd(l)
  \/ Begin("read", FALSE)
  \/ \E ttl \in BOOLEAN : Begin("write", ttl)
  \/ ClientStep
  \/ LeaseCheck \/ LeaseMove
  \/ MakeClerk

Spec == Init /\ [][Next]_vars

-----------------------------------------------------------------------------

\* Every variable has its type.
TypeOK ==
  /\ up \subseteq Server
  /\ leader \in Server \cup {None} /\ leaderId \in [Server -> Server \cup {None}]
  /\ conns \in [Local -> {"never", "valid", "closed"}]
  /\ nextSendLocalId \in Local /\ sToc \in [Server -> Local \cup {-1}]
  /\ op \in {"idle", "read", "write", "panicked"}
  /\ at \in {"loop", "send", "sent", "served"}
  /\ totalCount \in 0..Tries /\ count \in 0..5 /\ lastSendLocalId \in Local \cup {-1}
  /\ needsLease \in BOOLEAN
  /\ target \in Server \cup {None} /\ reply \in Server \cup {None}
  /\ lease \in {"idle", "check", "move"} /\ validCount \in 0..N
  /\ moved \in BOOLEAN /\ steady \in BOOLEAN
  /\ changes \in 0..MaxChanges

\* sToc takes every server id to the address of that server, unless a lease
\* call moved nextSendLocalId while a call of read or write was under way
\* (ck.sToc[reply.ServerId] = ck.nextSendLocalId).
HintTableSound ==
  ~ moved => \A s \in Server : sToc[s] # -1 => idOf[sToc[s]] = s

\* A write does not give up (ErrFaild) while one leader is known to all running
\* servers, every connection is valid and no call to a running server fails:
\* the hints and the rotation of write reach the leader in N + 1 tries, and the
\* code makes 2 * N * 3.
SteadyWriteSucceeds ==
  result.op = "write" /\ result.steady => result.res # "ErrFaild"

\* read and write do not use a connection that was never made, unless a lease
\* call moved nextSendLocalId behind their back.
PanicsOnlyIfMoved == op = "panicked" => moved

=============================================================================
