---------------------------- MODULE ClerkProofs ----------------------------
(***************************************************************************)
(* Proofs about the client's table of servers, for any number of servers   *)
(* and any order of their addresses.                                       *)
(***************************************************************************)
EXTENDS Clerk, TLAPS

\* Types of the variables that routing depends on.
RoutingTypeOK ==
  /\ up \subseteq Server /\ leaderId \in [Server -> Server \cup {None}]
  /\ conns \in [Local -> {"never", "valid", "closed"}]
  /\ nextSendLocalId \in Local /\ sToc \in [Server -> Local \cup {-1}]
  /\ reply \in Server \cup {None}

\* While no lease call interferes, the server that is called is the one
\* nextSendLocalId points to, over a valid connection.
CallInv ==
  /\ op = "idle" => at = "loop"
  /\ Running /\ at = "send" /\ ~ moved => conns[nextSendLocalId] = "valid"
  /\ Running /\ at \in {"sent", "served"} /\ ~ moved => target = idOf[nextSendLocalId]

ClerkInv == RoutingTypeOK /\ CallInv /\ HintTableSound /\ PanicsOnlyIfMoved

\* The next local id is a local id.
LEMMA NextIsLocal ==
  ASSUME NEW l \in Local
  PROVE  changeNextSendId(l) \in Local
BY ClerkAssumption, SMT DEF Local, changeNextSendId

\* Every step keeps the types.
LEMMA TypeStep ==
  ASSUME RoutingTypeOK, [Next]_vars
  PROVE  RoutingTypeOK'
<1>1. ASSUME NEW s \in Server, Elect(s) PROVE  RoutingTypeOK'
  BY <1>1, ClerkAssumption, NextIsLocal, SMT
    DEF Elect, Change, Quiet, serverVars, opVars, leaseVars, RoutingTypeOK
<1>2. ASSUME NEW s \in Server, Forget(s) PROVE  RoutingTypeOK'
  BY <1>2, ClerkAssumption, NextIsLocal, SMT
    DEF Forget, Change, Quiet, serverVars, opVars, leaseVars, RoutingTypeOK
<1>3. ASSUME NEW s \in Server, Heartbeat(s) PROVE  RoutingTypeOK'
  BY <1>3, ClerkAssumption, NextIsLocal, SMT
    DEF Heartbeat, Quiet, serverVars, opVars, leaseVars, RoutingTypeOK
<1>4. ASSUME NEW s \in Server, Crash(s) PROVE  RoutingTypeOK'
  BY <1>4, ClerkAssumption, NextIsLocal, SMT
    DEF Crash, Change, Quiet, serverVars, opVars, leaseVars, RoutingTypeOK
<1>5. ASSUME NEW s \in Server, Restart(s) PROVE  RoutingTypeOK'
  BY <1>5, ClerkAssumption, NextIsLocal, SMT
    DEF Restart, Quiet, serverVars, opVars, leaseVars, RoutingTypeOK
<1>6. ASSUME NEW l \in Local, Disconnect(l) PROVE  RoutingTypeOK'
  BY <1>6, ClerkAssumption, NextIsLocal, SMT
    DEF Disconnect, Change, Quiet, serverVars, opVars, leaseVars, RoutingTypeOK
<1>7. ASSUME NEW l \in Local, WatchEtcd(l) PROVE  RoutingTypeOK'
  BY <1>7, ClerkAssumption, NextIsLocal, SMT
    DEF WatchEtcd, NewKvConn, Quiet, serverVars, opVars, leaseVars, RoutingTypeOK
<1>8. ASSUME NEW k \in {"read", "write"}, NEW ttl, Begin(k, ttl) PROVE  RoutingTypeOK'
  BY <1>8, ClerkAssumption, NextIsLocal, SMT
    DEF Begin, serverVars, opVars, leaseVars, RoutingTypeOK
<1>9. CASE Loop
  <2>1. nextSendLocalId' \in Local
    BY <1>9, NextIsLocal DEF Loop, FirstValid, RoutingTypeOK
  <2>2. reply' \in {reply, None}
    BY <1>9 DEF Loop, Return
  <2>3. QED
    BY <1>9, <2>1, <2>2 DEF Loop, serverVars, RoutingTypeOK
<1>10. CASE Panic
  BY <1>10, ClerkAssumption, NextIsLocal, SMT
    DEF Panic, Panics, serverVars, opVars, leaseVars, RoutingTypeOK
<1>11. CASE GrantLease
  <2>1. nextSendLocalId' \in Local
    BY <1>11, NextIsLocal DEF GrantLease, RoutingTypeOK
  <2>2. QED
    BY <1>11, <2>1 DEF GrantLease, RoutingTypeOK
<1>12. CASE Send
  BY <1>12, ClerkAssumption, NextIsLocal, SMT
    DEF Send, serverVars, opVars, leaseVars, RoutingTypeOK
<1>13. CASE Serve
  BY <1>13, ClerkAssumption, NextIsLocal, SMT
    DEF Serve, serverVars, opVars, leaseVars, RoutingTypeOK
<1>14. CASE CallFails
  BY <1>14, ClerkAssumption, NextIsLocal, SMT
    DEF CallFails, CallLost, Change, serverVars, opVars, leaseVars, RoutingTypeOK
<1>15. CASE ReplyOK
  <2>1. sToc' \in [Server -> Local \cup {-1}]
    BY <1>15, SMT DEF ReplyOK, Replies, Learnt, RoutingTypeOK
  <2>2. reply' = None
    BY <1>15 DEF ReplyOK, Return
  <2>3. QED
    BY <1>15, <2>1, <2>2 DEF ReplyOK, Replies, serverVars, RoutingTypeOK
<1>16. CASE ReplyWrongLeader
  <2>1. Learnt \in [Server -> Local \cup {-1}]
    BY <1>16, SMT DEF ReplyWrongLeader, Replies, Learnt, RoutingTypeOK
  <2>2. Hinted \in Local
    <3>1. CASE reply = None \/ Learnt[reply] = -1
      BY <3>1, NextIsLocal DEF Hinted, RoutingTypeOK
    <3>2. CASE ~ (reply = None \/ Learnt[reply] = -1)
      BY <3>2, <2>1, SMT DEF Hinted, RoutingTypeOK
    <3>3. QED
      BY <3>1, <3>2
  <2>3. QED
    BY <1>16, <2>1, <2>2 DEF ReplyWrongLeader, Replies, Continue, serverVars, RoutingTypeOK
<1>17. CASE ReplyWaitForRecover
  <2>1. sToc' \in [Server -> Local \cup {-1}]
    BY <1>17, SMT DEF ReplyWaitForRecover, Replies, Learnt, RoutingTypeOK
  <2>2. reply' = None
    BY <1>17 DEF ReplyWaitForRecover, Continue
  <2>3. QED
    BY <1>17, <2>1, <2>2 DEF ReplyWaitForRecover, Replies, serverVars, RoutingTypeOK
<1>18. CASE LeaseCheck
  BY <1>18, ClerkAssumption, NextIsLocal, SMT
    DEF LeaseCheck, serverVars, opVars, leaseVars, RoutingTypeOK
<1>19. CASE LeaseMove
  BY <1>19, ClerkAssumption, NextIsLocal, SMT
    DEF LeaseMove, Change, serverVars, opVars, leaseVars, RoutingTypeOK
<1>20. CASE MakeClerk
  <2>1. /\ conns' = [l \in Local |-> "never"] /\ nextSendLocalId' \in Local
        /\ sToc' = [s \in Server |-> -1] /\ leaderId' = leaderId /\ up' = up
        /\ reply' = None
    BY <1>20 DEF MakeClerk, serverVars
  <2>2. QED
    BY <2>1, SMT DEF RoutingTypeOK
<1>21. CASE UNCHANGED vars
  BY <1>21 DEF vars, serverVars, opVars, leaseVars, RoutingTypeOK
<1>22. QED
  BY <1>1, <1>2, <1>3, <1>4, <1>5, <1>6, <1>7, <1>8, <1>9, <1>10, <1>11,
     <1>12, <1>13, <1>14, <1>15, <1>16, <1>17, <1>18, <1>19, <1>20, <1>21
  DEF Next, ClientStep

\* Every step keeps what is known of the call.
LEMMA CallStep ==
  ASSUME RoutingTypeOK, CallInv, [Next]_vars
  PROVE  CallInv'
<1>1. ASSUME NEW s \in Server, Elect(s) PROVE  CallInv'
  BY <1>1, ClerkAssumption, SMT
    DEF Elect, Change, Quiet, serverVars, opVars, leaseVars, RoutingTypeOK, CallInv, Running
<1>2. ASSUME NEW s \in Server, Forget(s) PROVE  CallInv'
  BY <1>2, ClerkAssumption, SMT
    DEF Forget, Change, Quiet, serverVars, opVars, leaseVars, RoutingTypeOK, CallInv, Running
<1>3. ASSUME NEW s \in Server, Heartbeat(s) PROVE  CallInv'
  BY <1>3, ClerkAssumption, SMT
    DEF Heartbeat, Quiet, serverVars, opVars, leaseVars, RoutingTypeOK, CallInv, Running
<1>4. ASSUME NEW s \in Server, Crash(s) PROVE  CallInv'
  BY <1>4, ClerkAssumption, SMT
    DEF Crash, Change, Quiet, serverVars, opVars, leaseVars, RoutingTypeOK, CallInv, Running
<1>5. ASSUME NEW s \in Server, Restart(s) PROVE  CallInv'
  BY <1>5, ClerkAssumption, SMT
    DEF Restart, Quiet, serverVars, opVars, leaseVars, RoutingTypeOK, CallInv, Running
<1>6. ASSUME NEW l \in Local, Disconnect(l) PROVE  CallInv'
  BY <1>6, ClerkAssumption, SMT
    DEF Disconnect, Change, Quiet, serverVars, opVars, leaseVars, RoutingTypeOK, CallInv, Running
<1>7. ASSUME NEW l \in Local, WatchEtcd(l) PROVE  CallInv'
  BY <1>7, ClerkAssumption, SMT
    DEF WatchEtcd, NewKvConn, Quiet, serverVars, opVars, leaseVars, RoutingTypeOK, CallInv,
        Running
<1>8. ASSUME NEW k \in {"read", "write"}, NEW ttl, Begin(k, ttl) PROVE  CallInv'
  BY <1>8, ClerkAssumption, SMT
    DEF Begin, serverVars, opVars, leaseVars, RoutingTypeOK, CallInv, Running
<1>9. CASE Loop
  BY <1>9, ClerkAssumption, SMT
    DEF Loop, Return, FirstValid, serverVars, opVars, leaseVars, RoutingTypeOK, CallInv, Running
<1>10. CASE Panic
  BY <1>10, ClerkAssumption, SMT
    DEF Panic, Panics, serverVars, opVars, leaseVars, RoutingTypeOK, CallInv, Running
<1>11. CASE GrantLease
  <2>1. \/ at' = at /\ nextSendLocalId' = nextSendLocalId
        \/ at' = "loop"
    BY <1>11 DEF GrantLease
  <2>2. UNCHANGED <<op, conns, target, moved>>
    BY <1>11 DEF GrantLease
  <2>3. QED
    BY <2>1, <2>2 DEF CallInv, Running
<1>12. CASE Send
  BY <1>12, ClerkAssumption, SMT
    DEF Send, serverVars, opVars, leaseVars, RoutingTypeOK, CallInv, Running
<1>13. CASE Serve
  BY <1>13, ClerkAssumption, SMT
    DEF Serve, serverVars, opVars, leaseVars, RoutingTypeOK, CallInv, Running
<1>14. CASE CallFails
  BY <1>14, ClerkAssumption, SMT
    DEF CallFails, CallLost, Change, serverVars, opVars, leaseVars, RoutingTypeOK, CallInv,
        Running
<1>15. CASE ReplyOK
  BY <1>15, ClerkAssumption, SMT
    DEF ReplyOK, Replies, Return, Learnt, serverVars, opVars, leaseVars, RoutingTypeOK, CallInv,
        Running
<1>16. CASE ReplyWrongLeader
  BY <1>16, ClerkAssumption, SMT
    DEF ReplyWrongLeader, Replies, Continue, Learnt, Hinted, serverVars, opVars, leaseVars,
        RoutingTypeOK, CallInv, Running
<1>17. CASE ReplyWaitForRecover
  BY <1>17, ClerkAssumption, SMT
    DEF ReplyWaitForRecover, Replies, Continue, Learnt, serverVars, opVars, leaseVars,
        RoutingTypeOK, CallInv, Running
<1>18. CASE LeaseCheck
  BY <1>18, ClerkAssumption, SMT
    DEF LeaseCheck, serverVars, opVars, leaseVars, RoutingTypeOK, CallInv, Running
<1>19. CASE LeaseMove
  <2>1. moved => moved'
    BY <1>19 DEF LeaseMove
  <2>2. Running /\ at # "loop" => moved'
    BY <1>19 DEF LeaseMove
  <2>3. op' = op /\ at' = at /\ sToc' = sToc
    BY <1>19 DEF LeaseMove, opVars
  <2>4. QED
    BY <2>1, <2>2, <2>3 DEF CallInv, Running
<1>20. CASE MakeClerk
  BY <1>20, ClerkAssumption, SMT
    DEF MakeClerk, serverVars, opVars, leaseVars, RoutingTypeOK, CallInv, Running
<1>21. CASE UNCHANGED vars
  BY <1>21 DEF vars, serverVars, opVars, leaseVars, RoutingTypeOK, CallInv, Running
<1>22. QED
  BY <1>1, <1>2, <1>3, <1>4, <1>5, <1>6, <1>7, <1>8, <1>9, <1>10, <1>11,
     <1>12, <1>13, <1>14, <1>15, <1>16, <1>17, <1>18, <1>19, <1>20, <1>21
  DEF Next, ClientStep

\* Every step keeps sToc sound, and panics only for a reason.
LEMMA HintStep ==
  ASSUME ClerkInv, [Next]_vars
  PROVE  (HintTableSound /\ PanicsOnlyIfMoved)'
<1>1. ASSUME NEW s \in Server, Elect(s) PROVE  (HintTableSound /\ PanicsOnlyIfMoved)'
  BY <1>1, ClerkAssumption, SMT
    DEF Elect, Change, Quiet, serverVars, opVars, leaseVars, ClerkInv, RoutingTypeOK, CallInv,
        HintTableSound, PanicsOnlyIfMoved, Running
<1>2. ASSUME NEW s \in Server, Forget(s) PROVE  (HintTableSound /\ PanicsOnlyIfMoved)'
  BY <1>2, ClerkAssumption, SMT
    DEF Forget, Change, Quiet, serverVars, opVars, leaseVars, ClerkInv, RoutingTypeOK, CallInv,
        HintTableSound, PanicsOnlyIfMoved, Running
<1>3. ASSUME NEW s \in Server, Heartbeat(s) PROVE  (HintTableSound /\ PanicsOnlyIfMoved)'
  BY <1>3, ClerkAssumption, SMT
    DEF Heartbeat, Quiet, serverVars, opVars, leaseVars, ClerkInv, RoutingTypeOK, CallInv,
        HintTableSound, PanicsOnlyIfMoved, Running
<1>4. ASSUME NEW s \in Server, Crash(s) PROVE  (HintTableSound /\ PanicsOnlyIfMoved)'
  BY <1>4, ClerkAssumption, SMT
    DEF Crash, Change, Quiet, serverVars, opVars, leaseVars, ClerkInv, RoutingTypeOK, CallInv,
        HintTableSound, PanicsOnlyIfMoved, Running
<1>5. ASSUME NEW s \in Server, Restart(s) PROVE  (HintTableSound /\ PanicsOnlyIfMoved)'
  BY <1>5, ClerkAssumption, SMT
    DEF Restart, Quiet, serverVars, opVars, leaseVars, ClerkInv, RoutingTypeOK, CallInv,
        HintTableSound, PanicsOnlyIfMoved, Running
<1>6. ASSUME NEW l \in Local, Disconnect(l) PROVE  (HintTableSound /\ PanicsOnlyIfMoved)'
  BY <1>6, ClerkAssumption, SMT
    DEF Disconnect, Change, Quiet, serverVars, opVars, leaseVars, ClerkInv, RoutingTypeOK,
        CallInv, HintTableSound, PanicsOnlyIfMoved, Running
<1>7. ASSUME NEW l \in Local, WatchEtcd(l) PROVE  (HintTableSound /\ PanicsOnlyIfMoved)'
  BY <1>7, ClerkAssumption, SMT
    DEF WatchEtcd, NewKvConn, Quiet, serverVars, opVars, leaseVars, ClerkInv, RoutingTypeOK,
        CallInv, HintTableSound, PanicsOnlyIfMoved, Running
<1>8. ASSUME NEW k \in {"read", "write"}, NEW ttl, Begin(k, ttl) PROVE  (HintTableSound /\ PanicsOnlyIfMoved)'
  BY <1>8, ClerkAssumption, SMT
    DEF Begin, serverVars, opVars, leaseVars, ClerkInv, RoutingTypeOK, CallInv, HintTableSound,
        PanicsOnlyIfMoved, Running
<1>9. CASE Loop
  BY <1>9, ClerkAssumption, SMT
    DEF Loop, Return, FirstValid, serverVars, opVars, leaseVars, ClerkInv, RoutingTypeOK,
        CallInv, HintTableSound, PanicsOnlyIfMoved, Running
<1>10. CASE Panic
  BY <1>10, ClerkAssumption, SMT
    DEF Panic, Panics, serverVars, opVars, leaseVars, ClerkInv, RoutingTypeOK, CallInv,
        HintTableSound, PanicsOnlyIfMoved, Running
<1>11. CASE GrantLease
  BY <1>11, ClerkAssumption, SMT
    DEF GrantLease, CallLost, Change, serverVars, opVars, leaseVars, ClerkInv, RoutingTypeOK,
        CallInv, HintTableSound, PanicsOnlyIfMoved, Running
<1>12. CASE Send
  BY <1>12, ClerkAssumption, SMT
    DEF Send, serverVars, opVars, leaseVars, ClerkInv, RoutingTypeOK, CallInv, HintTableSound,
        PanicsOnlyIfMoved, Running
<1>13. CASE Serve
  BY <1>13, ClerkAssumption, SMT
    DEF Serve, serverVars, opVars, leaseVars, ClerkInv, RoutingTypeOK, CallInv, HintTableSound,
        PanicsOnlyIfMoved, Running
<1>14. CASE CallFails
  BY <1>14, ClerkAssumption, SMT
    DEF CallFails, CallLost, Change, serverVars, opVars, leaseVars, ClerkInv, RoutingTypeOK,
        CallInv, HintTableSound, PanicsOnlyIfMoved, Running
<1>15. CASE ReplyOK
  BY <1>15, ClerkAssumption, SMT
    DEF ReplyOK, Replies, Return, Learnt, serverVars, opVars, leaseVars, ClerkInv,
        RoutingTypeOK, CallInv, HintTableSound, PanicsOnlyIfMoved, Running
<1>16. CASE ReplyWrongLeader
  BY <1>16, ClerkAssumption, SMT
    DEF ReplyWrongLeader, Replies, Continue, Learnt, Hinted, serverVars, opVars, leaseVars,
        ClerkInv, RoutingTypeOK, CallInv, HintTableSound, PanicsOnlyIfMoved, Running
<1>17. CASE ReplyWaitForRecover
  BY <1>17, ClerkAssumption, SMT
    DEF ReplyWaitForRecover, Replies, Continue, Learnt, serverVars, opVars, leaseVars, ClerkInv,
        RoutingTypeOK, CallInv, HintTableSound, PanicsOnlyIfMoved, Running
<1>18. CASE LeaseCheck
  BY <1>18, ClerkAssumption, SMT
    DEF LeaseCheck, serverVars, opVars, leaseVars, ClerkInv, RoutingTypeOK, CallInv,
        HintTableSound, PanicsOnlyIfMoved, Running
<1>19. CASE LeaseMove
  <2>1. moved => moved'
    BY <1>19 DEF LeaseMove
  <2>2. Running /\ at # "loop" => moved'
    BY <1>19 DEF LeaseMove
  <2>3. op' = op /\ at' = at /\ sToc' = sToc
    BY <1>19 DEF LeaseMove, opVars
  <2>4. QED
    BY <2>1, <2>3 DEF ClerkInv, HintTableSound, PanicsOnlyIfMoved
<1>20. CASE MakeClerk
  BY <1>20, ClerkAssumption, SMT
    DEF MakeClerk, serverVars, opVars, leaseVars, ClerkInv, RoutingTypeOK, CallInv,
        HintTableSound, PanicsOnlyIfMoved, Running
<1>21. CASE UNCHANGED vars
  BY <1>21
    DEF vars, serverVars, opVars, leaseVars, ClerkInv, RoutingTypeOK, CallInv, HintTableSound,
        PanicsOnlyIfMoved, Running
<1>22. QED
  BY <1>1, <1>2, <1>3, <1>4, <1>5, <1>6, <1>7, <1>8, <1>9, <1>10, <1>11,
     <1>12, <1>13, <1>14, <1>15, <1>16, <1>17, <1>18, <1>19, <1>20, <1>21
  DEF Next, ClientStep

\* The inductive invariant of the client's routing.
THEOREM ClerkInvariant == Spec => []ClerkInv
<1>1. Init => ClerkInv
  BY ClerkAssumption, SMT DEF Init, ClerkInit, ClerkInv, RoutingTypeOK, CallInv, HintTableSound,
     PanicsOnlyIfMoved, Running
<1>2. ClerkInv /\ [Next]_vars => ClerkInv'
  BY TypeStep, CallStep, HintStep DEF ClerkInv
<1>3. QED
  BY <1>1, <1>2, PTL DEF Spec

\* sToc never sends a client to another server than the one that a reply named,
\* unless a lease call moved nextSendLocalId during a call.
THEOREM HintsAreSound == Spec => []HintTableSound
<1>1. ClerkInv => HintTableSound
  BY DEF ClerkInv
<1>2. QED
  BY <1>1, ClerkInvariant, PTL

\* read and write call over a connection that exists, with the same exception.
THEOREM NoPanicAlone == Spec => []PanicsOnlyIfMoved
<1>1. ClerkInv => PanicsOnlyIfMoved
  BY DEF ClerkInv
<1>2. QED
  BY <1>1, ClerkInvariant, PTL

=============================================================================
