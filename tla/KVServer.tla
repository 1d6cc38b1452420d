------------------------------ MODULE KVServer ------------------------------
(***************************************************************************)
(* Clients that write (client.go) to replicas of the key-value server      *)
(* (kvraft/server.go) over a replicated log. One key; its value is a       *)
(* sequence of clients, empty when the key is absent.                      *)
(*                                                                         *)
(* A call of PutAppend is a goroutine of its own: it looks at the state of *)
(* Raft, at duplicateMap, and calls Start, each under another lock; then   *)
(* it waits. A client whose call fails goes on to another server while the *)
(* call may still run.                                                     *)
(***************************************************************************)
EXTENDS ReplicatedLog

CONSTANTS Client, None, NoOp,
          Kinds,        \* the writes clients make
          MaxWrites,    \* bound: writes of one client
          MaxTries,     \* calls per write: 2 * len(ck.servers) * 3 in the code
          MaxGiveUps,   \* bound: writes of one client that end in ErrFaild
          MaxLog,       \* bound: entries in the log of a leader
          MaxRestarts   \* bound: restarts of servers

ASSUME KindsAssumption == Kinds \subseteq {"Put", "Append", "Del", "Lock", "Unlock"}
ASSUME WriteBounds == /\ MaxWrites \in Nat /\ MaxTries \in Nat /\ MaxGiveUps \in Nat
                      /\ MaxLog \in Nat /\ MaxRestarts \in Nat

VARIABLES
  lastAppliedIndex, duplicateMap, db,   \* of each server
  LatestOffset,   \* of each client
  write,          \* the write a client is in, or None
  tries,          \* totalCount of that write
  calls,          \* the goroutines of PutAppend
  waiting,        \* the client waits for the reply of its latest call
  results,        \* every write that has returned, with its result
  ran,            \* of each server: the operations its database reflects
  restarts

kvVars == <<lastAppliedIndex, duplicateMap, db, ran>>
clientVars == <<LatestOffset, write, tries, waiting, results>>
vars == <<consensusVars, kvVars, clientVars, calls, restarts>>

-----------------------------------------------------------------------------
(* The state machine. *)

IsCas(op) == op.kind \in {"Lock", "Unlock"}

\* The OriValue of a CAS, and the value after an operation on value v
OriValue(op) == IF op.kind = "Lock" THEN <<>> ELSE <<op.client>>

Effect(op, v) ==
  CASE op.kind = "Put"    -> <<op.client>>
    [] op.kind = "Append" -> Append(v, op.client)
    [] op.kind = "Del"    -> <<>>
    [] op.kind = "Lock"   -> IF v = OriValue(op) THEN <<op.client>> ELSE v
    [] op.kind = "Unlock" -> IF v = OriValue(op) THEN <<>> ELSE v

NoDuplicate == [Offset |-> 0, CASResult |-> FALSE]

\* Mutant of CASResult: a success is not recorded
CASResultLost(op, v) == FALSE

CASResult(op, v) == IsCas(op) /\ v = OriValue(op)

\* Mutant of Discarded: the same offset runs again
DiscardedIfOlder(s, op) == op.offset < duplicateMap[s][op.client].Offset

Discarded(s, op) == op.offset <= duplicateMap[s][op.client].Offset

\* HandleApplych with the next committed entry
HandleApplych(s) ==
  LET op == chosen[lastAppliedIndex[s] + 1].op IN
  /\ lastAppliedIndex[s] < Len(chosen)
  /\ lastAppliedIndex' = [lastAppliedIndex EXCEPT ![s] = @ + 1]
  /\ IF op = NoOp \/ Discarded(s, op)
     THEN UNCHANGED <<duplicateMap, db, ran>>
     ELSE LET ok == CASResult(op, db[s]) IN
          /\ duplicateMap' = [duplicateMap EXCEPT ![s][op.client] =
                                [Offset |-> op.offset, CASResult |-> ok]]
          /\ db' = [db EXCEPT ![s] = Effect(op, @)]
          /\ ran' = [ran EXCEPT ![s] = Append(@, op)]
  /\ UNCHANGED <<consensusVars, clientVars, calls, restarts>>

\* Mutant of ReadPersist: duplicateMap is not taken over
ReadPersistDbOnly(s, r) ==
  /\ db' = [db EXCEPT ![s] = db[r]]
  /\ ran' = [ran EXCEPT ![s] = ran[r]]
  /\ UNCHANGED duplicateMap

ReadPersist(s, r) ==
  /\ db' = [db EXCEPT ![s] = db[r]]
  /\ ran' = [ran EXCEPT ![s] = ran[r]]
  /\ duplicateMap' = [duplicateMap EXCEPT ![s] = duplicateMap[r]]

\* Mutant of SnapshotIndex: one too many is added
SnapshotIndexPast(r) == lastAppliedIndex[r] + 1

SnapshotIndex(r) == lastAppliedIndex[r]

\* s gets a snapshot that r has taken (HandleApplychSnapshot, readPersist)
HandleApplychSnapshot(s, r) ==
  /\ SnapshotIndex(r) >= lastAppliedIndex[s] /\ s # r
  /\ lastAppliedIndex' = [lastAppliedIndex EXCEPT ![s] = SnapshotIndex(r)]
  /\ ReadPersist(s, r)
  /\ UNCHANGED <<consensusVars, clientVars, calls, restarts>>

-----------------------------------------------------------------------------
(* Client.write. *)

\* A new write; n tells the writes of a client apart, which offset may not
Write(c, kind) ==
  LET n == Cardinality({r \in results : r.op.client = c}) + 1 IN
  /\ write[c] = None /\ n <= MaxWrites
  /\ write' = [write EXCEPT ![c] = [client |-> c, n |-> n, offset |-> LatestOffset[c],
                                    kind |-> kind]]
  /\ tries' = [tries EXCEPT ![c] = 0]
  /\ UNCHANGED <<consensusVars, kvVars, LatestOffset, waiting, results, calls, restarts>>

\* The next call, to the server nextSendLocalId happens to name
Call(c, s) ==
  /\ write[c] # None /\ ~ waiting[c]
  /\ tries[c] < MaxTries
  /\ tries' = [tries EXCEPT ![c] = @ + 1]
  /\ waiting' = [waiting EXCEPT ![c] = TRUE]
  /\ calls' = calls \cup {[op |-> write[c], try |-> tries[c] + 1, server |-> s,
                           at |-> "called", index |-> 0, term |-> 0]}
  /\ UNCHANGED <<consensusVars, kvVars, LatestOffset, write, results, restarts>>

Returns(c, res, t) ==
  /\ results' = results \cup {[op |-> write[c], res |-> res, term |-> t]}
  /\ write' = [write EXCEPT ![c] = None]

\* Out of tries: the write fails, and its offset is used again
GiveUp(c) ==
  /\ write[c] # None /\ ~ waiting[c]
  /\ tries[c] = MaxTries
  /\ Cardinality({r \in results : r.op.client = c /\ r.res = "ErrFaild"}) < MaxGiveUps
  /\ Returns(c, "ErrFaild", 0)
  /\ UNCHANGED <<consensusVars, kvVars, LatestOffset, tries, waiting, calls, restarts>>

\* The latest call fails on the way, or its server is gone
CallFails(c) ==
  /\ waiting[c]
  /\ waiting' = [waiting EXCEPT ![c] = FALSE]
  /\ UNCHANGED <<consensusVars, kvVars, LatestOffset, write, tries, results, calls,
                 restarts>>

-----------------------------------------------------------------------------
(* KVServer.PutAppend, called by k. *)

Becomes(k, next) ==
  /\ calls' = (calls \ {k}) \cup {next}
  /\ UNCHANGED clientVars

\* The call returns err. A client that still waits for it ends its write, or
\* goes on to its next try if the server was not the leader
Answer(k, err, t) ==
  LET c == k.op.client
      latest == waiting[c] /\ write[c] = k.op /\ tries[c] = k.try
  IN  /\ calls' = calls \ {k}
      /\ waiting' = [waiting EXCEPT ![c] = @ /\ ~ latest]
      /\ IF latest /\ err # "ErrWrongLeader"
         THEN /\ LatestOffset' = [LatestOffset EXCEPT ![c] = @ + 1]
              /\ Returns(c, err, t)
         ELSE UNCHANGED <<LatestOffset, write, results>>
      /\ UNCHANGED tries

WrongLeader(k) == Answer(k, "ErrWrongLeader", 0)

\* An offset below that of duplicateMap is refused, its own is answered with
\* the result duplicateMap has, which no later term changes
AnswerKnown(k) ==
  LET known == duplicateMap[k.server][k.op.client]
      failed == IsCas(k.op) /\ ~ known.CASResult
  IN  \/ k.op.offset < known.Offset /\ WrongLeader(k)
      \/ /\ k.op.offset = known.Offset
         /\ Answer(k, IF failed THEN "ErrCasFaildInt" ELSE "ErrOK", MaxTerm)

IsNew(k) == k.op.offset > duplicateMap[k.server][k.op.client].Offset

\* GetState
PutAppend(k) ==
  /\ k.at = "called"
  /\ IF leads[k.server] THEN Becomes(k, [k EXCEPT !.at = "leader"]) ELSE WrongLeader(k)
  /\ UNCHANGED <<consensusVars, kvVars, restarts>>

\* The first look at duplicateMap
LookUp(k) ==
  /\ k.at = "leader"
  /\ AnswerKnown(k) \/ (IsNew(k) /\ Becomes(k, [k EXCEPT !.at = "new"]))
  /\ UNCHANGED <<consensusVars, kvVars, restarts>>

\* lastAppliedIndex counts from 1 and the index of Start from 0: this holds
\* before the entry is applied
IndexApplied(s, index) == index <= lastAppliedIndex[s]

\* rf.Start, and the loop that waits for the index up to its first look
StartWrite(k) ==
  LET s == k.server
      index == Len(log[s])
  IN
  /\ k.at = "new"
  /\ IF leads[s]
     THEN /\ index < MaxLog
          /\ Start(s, k.op)
          /\ Becomes(k, [k EXCEPT !.at = IF IndexApplied(s, index) THEN "applied" ELSE "waits",
                                  !.index = index, !.term = term[s]])
     ELSE WrongLeader(k) /\ UNCHANGED consensusVars
  /\ UNCHANGED <<kvVars, restarts>>

\* Mutant of TermMatches: the term is not looked at
TermIgnored(k) == TRUE

TermMatches(k) == k.term = term[k.server]

\* The index is applied: a look at duplicateMap and at the term
WaitApplied(k) ==
  /\ k.at \in {"waits", "applied"}
  /\ IndexApplied(k.server, k.index)
  /\ \/ AnswerKnown(k)
     \/ IsNew(k) /\ ~ TermMatches(k) /\ WrongLeader(k)
     \/ /\ IsNew(k) /\ TermMatches(k)
        /\ Becomes(k, [k EXCEPT !.at = "matched", !.term = term[k.server]])
  /\ UNCHANGED <<consensusVars, kvVars, restarts>>

\* The last look, at GetState again, after kv.mu is released
ReplyOK(k) ==
  /\ k.at = "matched"
  /\ IF leads[k.server] THEN Answer(k, "ErrOK", k.term) ELSE WrongLeader(k)
  /\ UNCHANGED <<consensusVars, kvVars, restarts>>

\* 500 milliseconds are over, or a send on lastIndexCh was missed
WaitTimeOut(k) ==
  /\ k.at = "waits"
  /\ WrongLeader(k)
  /\ UNCHANGED <<consensusVars, kvVars, restarts>>

-----------------------------------------------------------------------------

\* StartKVServer on a fresh database: everything but the log is gone
RestartServer(s) ==
  /\ restarts < MaxRestarts /\ restarts' = restarts + 1
  /\ Restart(s)
  /\ lastAppliedIndex' = [lastAppliedIndex EXCEPT ![s] = 0]
  /\ duplicateMap' = [duplicateMap EXCEPT ![s] = [c \in Client |-> NoDuplicate]]
  /\ db' = [db EXCEPT ![s] = <<>>]
  /\ ran' = [ran EXCEPT ![s] = <<>>]
  /\ calls' = {k \in calls : k.server # s}
  /\ UNCHANGED clientVars

\* Raft on its own; a new leader, and Get while it recovers, start a no-op
RaftStep ==
  /\ \E s \in Server : \/ BecomeLeader(s)
                       \/ StepDown(s)
                       \/ Commit(s)
                       \/ Len(log[s]) < MaxLog /\ Start(s, NoOp)
  /\ UNCHANGED <<kvVars, clientVars, calls, restarts>>

Init ==
  /\ ConsensusInit
  /\ lastAppliedIndex = [s \in Server |-> 0]
  /\ duplicateMap = [s \in Server |-> [c \in Client |-> NoDuplicate]]
  /\ db = [s \in Server |-> <<>>]
  /\ ran = [s \in Server |-> <<>>]
  /\ LatestOffset = [c \in Client |-> 1]
  /\ write = [c \in Client |-> None]
  /\ tries = [c \in Client |-> 0]
  /\ waiting = [c \in Client |-> FALSE]
  /\ results = {}
  /\ calls = {}
  /\ restarts = 0

Next ==
  \/ RaftStep
  \/ \E s \in Server : HandleApplych(s) \/ RestartServer(s)
  \/ \E s, r \in Server : HandleApplychSnapshot(s, r)
  \/ \E c \in Client : GiveUp(c) \/ CallFails(c)
  \/ \E c \in Client, kind \in Kinds : Write(c, kind)
  \/ \E c \in Client, s \in Server : Call(c, s)
  \/ \E k \in calls : \/ PutAppend(k) \/ LookUp(k) \/ StartWrite(k)
                      \/ WaitApplied(k) \/ ReplyOK(k) \/ WaitTimeOut(k)

Spec == Init /\ [][Next]_vars

-----------------------------------------------------------------------------

Op == [client : Client, n : 1..MaxWrites, offset : Nat, kind : Kinds]

\* Every variable has its type.
TypeOK ==
  /\ lastAppliedIndex \in [Server -> 0..Len(chosen)]
  /\ duplicateMap \in [Server -> [Client -> [Offset : Nat, CASResult : BOOLEAN]]]
  /\ db \in [Server -> Seq(Client)]
  /\ LatestOffset \in [Client -> Nat]
  /\ write \in [Client -> Op \cup {None}]
  /\ tries \in [Client -> 0..MaxTries]
  /\ waiting \in [Client -> BOOLEAN]
  /\ \A r \in results :
       r.op \in Op /\ r.res \in {"ErrOK", "ErrCasFaildInt", "ErrFaild"}
  /\ \A k \in calls : k.op \in Op /\ k.server \in Server

\* What a log means: an operation runs if its offset is above all offsets of
\* the same client before it; the result is the value, what ran, and which
\* CAS found another value
Meaning(es) ==
  LET runs(i) == /\ es[i].op # NoOp
                 /\ \A j \in 1..(i - 1) :
                      es[j].op # NoOp /\ es[j].op.client = es[i].op.client
                        => es[j].op.offset < es[i].op.offset
      step(st, i) ==
        IF runs(i)
        THEN LET op == es[i].op IN
             [db |-> Effect(op, st.db),
              ran |-> Append(st.ran, op),
              failed |-> IF IsCas(op) /\ st.db # OriValue(op) THEN st.failed \cup {op}
                         ELSE st.failed]
        ELSE st
  IN  FoldLeft(step, [db |-> <<>>, ran |-> <<>>, failed |-> {}],
               [i \in 1..Len(es) |-> i])

\* Every replica is where the log up to its lastAppliedIndex leads: retries,
\* restarts and snapshots neither run an operation twice nor leave one out
\* (HandleApplychCommand, duplicateMap, readPersist).
ReplicaFollowsLog ==
  \A s \in Server :
    LET means == Meaning(SubSeq(chosen, 1, lastAppliedIndex[s]))
    IN  db[s] = means.db /\ ran[s] = means.ran

\* A CAS that is reported as failed is committed and did fail when it ran, also
\* when it was sent twice (CASResult of duplicateMap).
CasFaildIsTrue ==
  \A r \in results :
    r.res = "ErrCasFaildInt" => r.op \in Meaning(chosen).failed

\* A write that is reported as done went into the log of a leader: it is
\* chosen or in the log of some server, or a leader of a newer term than the
\* one PutAppend saw has come. There is no such excuse for a write that
\* duplicateMap has.
AckedWasStarted ==
  \A r \in results :
    r.res = "ErrOK" =>
      \/ \E i \in 1..Len(chosen) : chosen[i].op = r.op
      \/ r.term < newest
      \/ \E s \in Server, i \in 1..MaxLog :
           i <= Len(log[s]) /\ log[s][i].op = r.op

\* A write that is reported as done is committed ("term match, so this
\* submission is certainly effective", PutAppend).
AckedIsChosen ==
  \A r \in results : r.res = "ErrOK" => \E i \in 1..Len(chosen) : chosen[i].op = r.op

=============================================================================
