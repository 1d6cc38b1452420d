---------------------------- MODULE WatchProofs ----------------------------
(***************************************************************************)
(* For any number of streams, any channels and any operations: Notify does *)
(* not send on a closed channel, and kv.mu is held by a handler exactly    *)
(* while it sends the initial state.                                       *)
(***************************************************************************)
EXTENDS Watch, TLAPS

HandlerState == {"none", "called", "registered", "initial", "loop", "leaving", "deregistered",
                 "ended"}

\* kv.mu is held by at most one handler of Watch, from the read of the initial
\* state to its last Send or the Send that fails.
LockIsHeld == \A i \in Streams : handler[i] = "initial" <=> locked = i

\* A watcher is registered while its handler runs, and its channel is closed
\* after that; a stream has no handler before the client has opened it.
WatchInv ==
  /\ cur \in Nat
  /\ handler \in [Streams -> HandlerState]
  /\ watchers \subseteq Streams /\ closed \subseteq Streams
  /\ locked \in Streams \cup {None}
  /\ \A i \in Streams : i > cur => handler[i] = "none"
  /\ \A i \in watchers : handler[i] \in {"registered", "initial", "loop", "leaving"}
  /\ \A i \in closed : handler[i] = "ended"
  /\ LockIsHeld
  /\ NeverPanics

\* The first state: no stream is open, no lock is held (Init).
LEMMA WatchInvInit == Init => WatchInv
  BY WatchBounds, NoneAssumption, SMT
    DEF Init, WatchInv, LockIsHeld, NeverPanics, Streams, HandlerState

\* Every step of the server, of a handler, of manageWatchStream and of the
\* network keeps WatchInv.
LEMMA WatchInvStep == WatchInv /\ [Next]_vars => WatchInv'
<1> SUFFICES ASSUME WatchInv, [Next]_vars PROVE WatchInv'
  OBVIOUS
<1>1. ASSUME NEW op \in Operations, HandleApplych(op) PROVE WatchInv'
  BY <1>1, NoneAssumption, SMT
    DEF HandleApplych, serverVars, streamVars, clientVars, readerVars, WatchInv, LockIsHeld,
        NeverPanics, HandlerState
<1>2. ASSUME NEW k \in Key, HandleApplychSnapshot(k) PROVE WatchInv'
  BY <1>2, NoneAssumption, SMT
    DEF HandleApplychSnapshot, serverVars, streamVars, clientVars, readerVars, WatchInv,
        LockIsHeld, NeverPanics, HandlerState
<1>3. ASSUME NEW i \in Streams, WatchBegins(i) PROVE WatchInv'
  BY <1>3, NoneAssumption, SMT
    DEF WatchBegins, Handler, serverVars, streamVars, clientVars, readerVars, WatchInv,
        LockIsHeld, NeverPanics, HandlerState
<1>4. ASSUME NEW i \in Streams, ReadInitial(i) PROVE WatchInv'
  BY <1>4, NoneAssumption, SMT
    DEF ReadInitial, Handler, serverVars, streamVars, clientVars, readerVars, WatchInv,
        LockIsHeld, NeverPanics, HandlerState
<1>5. ASSUME NEW i \in Streams, NoInitial(i) PROVE WatchInv'
  BY <1>5, NoneAssumption, SMT
    DEF NoInitial, Handler, serverVars, streamVars, clientVars, readerVars, WatchInv,
        LockIsHeld, NeverPanics, HandlerState
<1>6. ASSUME NEW i \in Streams, SendInitial(i) PROVE WatchInv'
  BY <1>6, NoneAssumption, SMT
    DEF SendInitial, serverVars, streamVars, clientVars, readerVars, WatchInv, LockIsHeld,
        NeverPanics, HandlerState
<1>7. ASSUME NEW i \in Streams, InitialSent(i) PROVE WatchInv'
  BY <1>7, NoneAssumption, SMT
    DEF InitialSent, Handler, serverVars, streamVars, clientVars, readerVars, WatchInv,
        LockIsHeld, NeverPanics, HandlerState
<1>8. ASSUME NEW i \in Streams, SendEvent(i) PROVE WatchInv'
  BY <1>8, NoneAssumption, SMT
    DEF SendEvent, serverVars, streamVars, clientVars, readerVars, WatchInv, LockIsHeld,
        NeverPanics, HandlerState
<1>9. ASSUME NEW i \in Streams, StreamDone(i) PROVE WatchInv'
  BY <1>9, NoneAssumption, SMT
    DEF StreamDone, Unlocked, serverVars, streamVars, clientVars, readerVars, WatchInv,
        LockIsHeld, NeverPanics, HandlerState
<1>10. ASSUME NEW i \in Streams, HandlerLeaves(i) PROVE WatchInv'
  BY <1>10, NoneAssumption, SMT
    DEF HandlerLeaves, Leave, Handler, serverVars, streamVars, clientVars, readerVars, WatchInv,
        LockIsHeld, NeverPanics, HandlerState
<1>11. ASSUME Emit PROVE WatchInv'
  BY <1>11, NoneAssumption, SMT
    DEF Emit, serverVars, streamVars, clientVars, readerVars, WatchInv, LockIsHeld, NeverPanics,
        HandlerState
<1>12. ASSUME Notify PROVE WatchInv'
  <2>1. watchers \cap closed = {}
    BY SMT DEF WatchInv
  <2>2. (IF Matches(Head(notifier).key) THEN watchers ELSE {}) \cap closed = {}
    BY <2>1
  <2>3. NeverPanics'
    BY <1>12, <2>2, Zenon DEF Notify, WatchInv, NeverPanics
  <2>4. UNCHANGED <<locked, handler, watchers, closed, cur>>
    BY <1>12 DEF Notify, clientVars
  <2> QED
    BY <2>3, <2>4 DEF WatchInv, LockIsHeld
<1>13. ASSUME Connect PROVE WatchInv'
  <2>1. cur + 1 \in Streams /\ cur' = cur + 1 /\ handler[cur + 1] = "none"
    BY <1>13, WatchBounds, SMT DEF Connect, WatchInv, Streams
  <2>2. handler' = [handler EXCEPT ![cur + 1] = "called"]
    BY <1>13, <2>1 DEF Connect
  <2>3. UNCHANGED <<locked, watchers, closed, panicked>>
    BY <1>13 DEF Connect
  <2> QED
    BY <2>1, <2>2, <2>3, NoneAssumption, WatchBounds, SMT
      DEF WatchInv, LockIsHeld, NeverPanics, HandlerState, Streams
<1>14. ASSUME Receive PROVE WatchInv'
  BY <1>14, NoneAssumption, SMT
    DEF Receive, serverVars, streamVars, clientVars, readerVars, WatchInv, LockIsHeld,
        NeverPanics, HandlerState
<1>15. ASSUME ReceiveFails PROVE WatchInv'
  BY <1>15, NoneAssumption, SMT
    DEF ReceiveFails, serverVars, streamVars, clientVars, readerVars, WatchInv, LockIsHeld,
        NeverPanics, HandlerState
<1>16. ASSUME Deliver PROVE WatchInv'
  BY <1>16, NoneAssumption, SMT
    DEF Deliver, serverVars, streamVars, clientVars, readerVars, WatchInv, LockIsHeld,
        NeverPanics, HandlerState
<1>17. ASSUME ClientEnds PROVE WatchInv'
  BY <1>17, NoneAssumption, SMT
    DEF ClientEnds, serverVars, streamVars, clientVars, readerVars, WatchInv, LockIsHeld,
        NeverPanics, HandlerState
<1>18. ASSUME CancelWatch PROVE WatchInv'
  BY <1>18, NoneAssumption, SMT
    DEF CancelWatch, serverVars, streamVars, clientVars, readerVars, WatchInv, LockIsHeld,
        NeverPanics, HandlerState
<1>19. ASSUME BreakStream PROVE WatchInv'
  BY <1>19, NoneAssumption, SMT
    DEF BreakStream, serverVars, streamVars, clientVars, readerVars, WatchInv, LockIsHeld,
        NeverPanics, HandlerState
<1>20. CASE UNCHANGED vars
  BY <1>20
    DEF vars, serverVars, streamVars, clientVars, readerVars, WatchInv, LockIsHeld, NeverPanics,
        HandlerState
<1> QED
  BY <1>1, <1>2, <1>3, <1>4, <1>5, <1>6, <1>7, <1>8, <1>9, <1>10, <1>11, <1>12, <1>13, <1>14, <1>15, <1>16, <1>17, <1>18, <1>19, <1>20
    DEF Next, HandlerStep, ClientStep

\* WatchInv holds in every state of Watch.
THEOREM WatchInvariant == Spec => []WatchInv
<1>1. Init => WatchInv
  BY WatchInvInit
<1>2. WatchInv /\ [Next]_vars => WatchInv'
  BY WatchInvStep
<1> QED
  BY <1>1, <1>2, PTL DEF Spec

\* Notify never sends on a closed channel (Notify, the deferred function of Watch).
THEOREM NeverSendsOnClosed == Spec => []NeverPanics
<1>1. WatchInv => NeverPanics
  BY DEF WatchInv
<1> QED
  BY <1>1, WatchInvariant, PTL

\* kv.mu is held by the handler that sends the initial state, and by no other
\* (Watch: kv.mu.Lock, and Unlock on each way out).
THEOREM LockDiscipline == Spec => []LockIsHeld
<1>1. WatchInv => LockIsHeld
  BY DEF WatchInv
<1> QED
  BY <1>1, WatchInvariant, PTL

=============================================================================
