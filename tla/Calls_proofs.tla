----------------------------- MODULE Calls_proofs -----------------------------
(***************************************************************************)
(* What a host's dealings with others promise.                             *)
(*                                                                         *)
(* The relay: for any users, sessions and requests.  Its invariants are    *)
(* not inductive alone: IInv adds which sockets are registered and what    *)
(* the task of a request holds while it waits.                             *)
(*                                                                         *)
(* The operator push (Push!...): for any operators, page size, attempts,   *)
(* restarts and artifacts of others.  A scan that has not met a row has it *)
(* still ahead, because a page never passes more places than it has rows   *)
(* and a row that others put in front only moves the rest further away; so *)
(* a push that creates something knows that it is not there.  With a       *)
(* second host that step fails: what a scan has passed may be created      *)
(* meanwhile.  The types need no such assumption.                          *)
(*                                                                         *)
(* The crystal: from CrystalFlow_proofs, for the directions and the        *)
(* instrument of the run.                                                  *)
(***************************************************************************)
EXTENDS MCCalls, FiniteSetTheorems, SequenceTheorems, WellFoundedInduction, TLAPS

\* What is proved of a crystal, for the directions and the instrument of the run.
C == INSTANCE CrystalFlow_proofs WITH Direction <- Directions, Unreadable <- {{}}

\* Every part counts alike.
LEMMA Counts ==
  /\ \A S : Push!Cardinality(S) = Cardinality(S)
  /\ \A S : Crystal!Cardinality(S) = Cardinality(S)
  /\ \A S : C!Cardinality(S) = Cardinality(S)
  /\ \A S : Crystal!IsFiniteSet(S) <=> C!IsFiniteSet(S)
<1>1. \A S : Push!Cardinality(S) = Cardinality(S)
  BY DEF Push!Cardinality, Cardinality
<1>2. \A S : Crystal!Cardinality(S) = Cardinality(S)
  BY DEF Crystal!Cardinality, Cardinality
<1>3. \A S : C!Cardinality(S) = Cardinality(S)
  BY DEF C!Cardinality, Cardinality
<1>4. \A S : Crystal!IsFiniteSet(S) <=> C!IsFiniteSet(S)
  BY DEF Crystal!IsFiniteSet, C!IsFiniteSet
<1> QED
  BY <1>1, <1>2, <1>3, <1>4

----------------------------------------------------------------------------
(* The relay *)

\* A session is in the manager exactly while its receive loop runs, and a
\* socket past the token check has its user.
SocketInv ==
  \A s \in Sessions :
    /\ s \in registered <=> socket[s] \in {"open", "gone"}
    /\ socket[s] # "new" => user[s] \in Users

\* A task that waits knows its session and its user and owns a future; one
\* that has not started owns nothing.
TaskInv ==
  \A r \in Requests :
    /\ pc[r] = "idle" => /\ future[r] = Unset
                         /\ \A s \in Sessions : r \notin pending[s]
                         /\ outcome[r] = "none"
    /\ pc[r] \in {"sending", "awaiting"} =>
         /\ via[r] \in Sessions
         /\ socket[via[r]] # "new"
         /\ caller[r] = user[via[r]]
         /\ future[r] # Unset
         /\ outcome[r] = "none"
    /\ future[r] # Unset => /\ via[r] \in Sessions
                            /\ socket[via[r]] # "new"
                            /\ caller[r] = user[via[r]]
    /\ future[r] \in Answers => future[r].from = via[r]
    /\ future[r] = Cancelled => r \in timedOut

IInv ==
  /\ TypeOK
  /\ SocketInv
  /\ TaskInv
  /\ IndexAgrees
  /\ PendingOwned
  /\ NoOrphan

----------------------------------------------------------------------------
\* The states of a future are told apart by their `state` field.
LEMMA FutureStates ==
  /\ Unset # Waiting /\ Unset # Cancelled /\ Unset # Dropped
  /\ Waiting # Cancelled /\ Waiting # Dropped /\ Cancelled # Dropped
  /\ Unset \notin Answers /\ Waiting \notin Answers
  /\ Cancelled \notin Answers /\ Dropped \notin Answers
  /\ \A s \in Sessions, ok \in BOOLEAN :
       /\ Answered(s, ok) \in Answers
       /\ Answered(s, ok).from = s
  /\ Futures = {Unset, Waiting, Cancelled, Dropped} \cup Answers
BY DEF Unset, Waiting, Cancelled, Dropped, Answers, Answered, Futures

LEMMA SettledOutcome ==
  ASSUME NEW f \in Futures
  PROVE  Settled(f) \in Outcomes
BY DEF Settled, Futures, Unset, Waiting, Cancelled, Dropped, Answers, Outcomes

LEMMA AcceptStep ==
  ASSUME IInv, NEW s \in Sessions, NEW u \in Users, Accept(s, u)
  PROVE  IInv'
<1> USE RelayAssumption, FutureStates DEF Accept, requestVars
<1>1. TypeOK'
  BY DEF IInv, TypeOK, SocketInv, TaskInv, Outcomes
<1>2. SocketInv'
  BY <1>1 DEF IInv, TypeOK, SocketInv, TaskInv
<1>3. TaskInv'
  BY <1>1 DEF IInv, TypeOK, SocketInv, TaskInv, PendingOwned
<1>4. IndexAgrees'
  BY <1>1 DEF IInv, TypeOK, SocketInv, TaskInv, IndexAgrees
<1>5. PendingOwned'
  BY <1>1 DEF IInv, TypeOK, SocketInv, TaskInv, PendingOwned, IndexAgrees
<1>6. NoOrphan'
  BY <1>1 DEF IInv, TypeOK, SocketInv, TaskInv, NoOrphan, PendingOwned
<1> QED  BY <1>1, <1>2, <1>3, <1>4, <1>5, <1>6 DEF IInv

LEMMA AcceptFailsStep ==
  ASSUME IInv, NEW s \in Sessions, AcceptFails(s)
  PROVE  IInv'
<1> USE RelayAssumption, FutureStates DEF AcceptFails, requestVars
<1>1. TypeOK'
  BY DEF IInv, TypeOK, SocketInv, TaskInv, Outcomes
<1>2. SocketInv'
  BY <1>1 DEF IInv, TypeOK, SocketInv, TaskInv
<1>3. TaskInv'
  BY <1>1 DEF IInv, TypeOK, SocketInv, TaskInv, PendingOwned
<1>4. IndexAgrees'
  BY <1>1 DEF IInv, TypeOK, SocketInv, TaskInv, IndexAgrees
<1>5. PendingOwned'
  BY <1>1 DEF IInv, TypeOK, SocketInv, TaskInv, PendingOwned, IndexAgrees
<1>6. NoOrphan'
  BY <1>1 DEF IInv, TypeOK, SocketInv, TaskInv, NoOrphan, PendingOwned
<1> QED  BY <1>1, <1>2, <1>3, <1>4, <1>5, <1>6 DEF IInv

LEMMA RegisterStep ==
  ASSUME IInv, NEW s \in Sessions, Register(s)
  PROVE  IInv'
<1> USE RelayAssumption, FutureStates DEF Register, requestVars
<1>1. TypeOK'
  BY DEF IInv, TypeOK, SocketInv, TaskInv, Outcomes
<1>2. SocketInv'
  BY <1>1 DEF IInv, TypeOK, SocketInv, TaskInv
<1>3. TaskInv'
  BY <1>1 DEF IInv, TypeOK, SocketInv, TaskInv, PendingOwned
<1>4. IndexAgrees'
  BY <1>1 DEF IInv, TypeOK, SocketInv, TaskInv, IndexAgrees
<1>5. PendingOwned'
  BY <1>1 DEF IInv, TypeOK, SocketInv, TaskInv, PendingOwned, IndexAgrees
<1>6. NoOrphan'
  BY <1>1 DEF IInv, TypeOK, SocketInv, TaskInv, NoOrphan, PendingOwned
<1> QED  BY <1>1, <1>2, <1>3, <1>4, <1>5, <1>6 DEF IInv

LEMMA PeerGoneStep ==
  ASSUME IInv, NEW s \in Sessions, PeerGone(s)
  PROVE  IInv'
<1> USE RelayAssumption, FutureStates DEF PeerGone, requestVars
<1>1. TypeOK'
  BY DEF IInv, TypeOK, SocketInv, TaskInv, Outcomes
<1>2. SocketInv'
  BY <1>1 DEF IInv, TypeOK, SocketInv, TaskInv
<1>3. TaskInv'
  BY <1>1 DEF IInv, TypeOK, SocketInv, TaskInv, PendingOwned
<1>4. IndexAgrees'
  BY <1>1 DEF IInv, TypeOK, SocketInv, TaskInv, IndexAgrees
<1>5. PendingOwned'
  BY <1>1 DEF IInv, TypeOK, SocketInv, TaskInv, PendingOwned, IndexAgrees
<1>6. NoOrphan'
  BY <1>1 DEF IInv, TypeOK, SocketInv, TaskInv, NoOrphan, PendingOwned
<1> QED  BY <1>1, <1>2, <1>3, <1>4, <1>5, <1>6 DEF IInv

LEMMA DisconnectStep ==
  ASSUME IInv, NEW s \in Sessions, Disconnect(s)
  PROVE  IInv'
<1> USE RelayAssumption, FutureStates DEF Disconnect, Unindex, FailPending, requestVars
<1>1. TypeOK'
  BY DEF IInv, TypeOK, SocketInv, TaskInv, Outcomes
<1>2. SocketInv'
  BY <1>1 DEF IInv, TypeOK, SocketInv, TaskInv
<1>3. TaskInv'
  BY <1>1 DEF IInv, TypeOK, SocketInv, TaskInv, PendingOwned
<1>4. IndexAgrees'
  BY <1>1 DEF IInv, TypeOK, SocketInv, TaskInv, IndexAgrees
<1>5. PendingOwned'
  BY <1>1 DEF IInv, TypeOK, SocketInv, TaskInv, PendingOwned, IndexAgrees
<1>6. NoOrphan'
  BY <1>1 DEF IInv, TypeOK, SocketInv, TaskInv, NoOrphan, PendingOwned
<1> QED  BY <1>1, <1>2, <1>3, <1>4, <1>5, <1>6 DEF IInv

LEMMA ReceiveStep ==
  ASSUME IInv, NEW s \in Sessions, NEW r \in Requests, NEW ok \in BOOLEAN, Receive(s, r, ok)
  PROVE  IInv'
<1> USE RelayAssumption, FutureStates DEF Receive, Accepts, sessionVars, requestVars
<1>1. TypeOK'
  BY DEF IInv, TypeOK, SocketInv, TaskInv, Outcomes
<1>2. SocketInv'
  BY <1>1 DEF IInv, TypeOK, SocketInv, TaskInv
<1>3. TaskInv'
  BY <1>1 DEF IInv, TypeOK, SocketInv, TaskInv, PendingOwned
<1>4. IndexAgrees'
  BY <1>1 DEF IInv, TypeOK, SocketInv, TaskInv, IndexAgrees
<1>5. PendingOwned'
  BY <1>1 DEF IInv, TypeOK, SocketInv, TaskInv, PendingOwned, IndexAgrees
<1>6. NoOrphan'
  BY <1>1 DEF IInv, TypeOK, SocketInv, TaskInv, NoOrphan, PendingOwned
<1> QED  BY <1>1, <1>2, <1>3, <1>4, <1>5, <1>6 DEF IInv

LEMMA NoActiveSessionStep ==
  ASSUME IInv, NEW r \in Requests, NEW u \in Users, NoActiveSession(r, u)
  PROVE  IInv'
<1> USE RelayAssumption, FutureStates DEF NoActiveSession, sessionVars
<1>1. TypeOK'
  BY DEF IInv, TypeOK, SocketInv, TaskInv, Outcomes
<1>2. SocketInv'
  BY <1>1 DEF IInv, TypeOK, SocketInv, TaskInv
<1>3. TaskInv'
  BY <1>1 DEF IInv, TypeOK, SocketInv, TaskInv, PendingOwned
<1>4. IndexAgrees'
  BY <1>1 DEF IInv, TypeOK, SocketInv, TaskInv, IndexAgrees
<1>5. PendingOwned'
  BY <1>1 DEF IInv, TypeOK, SocketInv, TaskInv, PendingOwned, IndexAgrees
<1>6. NoOrphan'
  BY <1>1 DEF IInv, TypeOK, SocketInv, TaskInv, NoOrphan, PendingOwned
<1> QED  BY <1>1, <1>2, <1>3, <1>4, <1>5, <1>6 DEF IInv

LEMMA ForwardStep ==
  ASSUME IInv, NEW r \in Requests, NEW u \in Users, NEW s \in Sessions, Forward(r, u, s)
  PROVE  IInv'
<1> USE RelayAssumption, FutureStates DEF Forward, Active, sessionVars
<1>1. TypeOK'
  BY DEF IInv, TypeOK, SocketInv, TaskInv, Outcomes
<1>2. SocketInv'
  BY <1>1 DEF IInv, TypeOK, SocketInv, TaskInv
<1>3. TaskInv'
  BY <1>1 DEF IInv, TypeOK, SocketInv, TaskInv, PendingOwned, IndexAgrees
<1>4. IndexAgrees'
  BY <1>1 DEF IInv, TypeOK, SocketInv, TaskInv, IndexAgrees
<1>5. PendingOwned'
  BY <1>1 DEF IInv, TypeOK, SocketInv, TaskInv, PendingOwned, IndexAgrees
<1>6. NoOrphan'
  BY <1>1 DEF IInv, TypeOK, SocketInv, TaskInv, NoOrphan, PendingOwned
<1> QED  BY <1>1, <1>2, <1>3, <1>4, <1>5, <1>6 DEF IInv

LEMMA SendDoneStep ==
  ASSUME IInv, NEW r \in Requests, SendDone(r)
  PROVE  IInv'
<1> USE RelayAssumption, FutureStates DEF SendDone, sessionVars
<1>1. TypeOK'
  BY DEF IInv, TypeOK, SocketInv, TaskInv, Outcomes
<1>2. SocketInv'
  BY <1>1 DEF IInv, TypeOK, SocketInv, TaskInv
<1>3. TaskInv'
  BY <1>1 DEF IInv, TypeOK, SocketInv, TaskInv, PendingOwned
<1>4. IndexAgrees'
  BY <1>1 DEF IInv, TypeOK, SocketInv, TaskInv, IndexAgrees
<1>5. PendingOwned'
  BY <1>1 DEF IInv, TypeOK, SocketInv, TaskInv, PendingOwned, IndexAgrees
<1>6. NoOrphan'
  BY <1>1 DEF IInv, TypeOK, SocketInv, TaskInv, NoOrphan, PendingOwned
<1> QED  BY <1>1, <1>2, <1>3, <1>4, <1>5, <1>6 DEF IInv

LEMMA SendFailsStep ==
  ASSUME IInv, NEW r \in Requests, SendFails(r)
  PROVE  IInv'
<1> USE RelayAssumption, FutureStates DEF SendFails, Finish, sessionVars
<1>1. TypeOK'
  BY DEF IInv, TypeOK, SocketInv, TaskInv, Outcomes
<1>2. SocketInv'
  BY <1>1 DEF IInv, TypeOK, SocketInv, TaskInv
<1>3. TaskInv'
  BY <1>1 DEF IInv, TypeOK, SocketInv, TaskInv, PendingOwned
<1>4. IndexAgrees'
  BY <1>1 DEF IInv, TypeOK, SocketInv, TaskInv, IndexAgrees
<1>5. PendingOwned'
  BY <1>1 DEF IInv, TypeOK, SocketInv, TaskInv, PendingOwned, IndexAgrees
<1>6. NoOrphan'
  BY <1>1 DEF IInv, TypeOK, SocketInv, TaskInv, NoOrphan, PendingOwned
<1> QED  BY <1>1, <1>2, <1>3, <1>4, <1>5, <1>6 DEF IInv

LEMMA TimerFiresStep ==
  ASSUME IInv, NEW r \in Requests, TimerFires(r)
  PROVE  IInv'
<1> USE RelayAssumption, FutureStates DEF TimerFires, sessionVars, requestVars
<1>1. TypeOK'
  BY DEF IInv, TypeOK, SocketInv, TaskInv, Outcomes
<1>2. SocketInv'
  BY <1>1 DEF IInv, TypeOK, SocketInv, TaskInv
<1>3. TaskInv'
  BY <1>1 DEF IInv, TypeOK, SocketInv, TaskInv, PendingOwned
<1>4. IndexAgrees'
  BY <1>1 DEF IInv, TypeOK, SocketInv, TaskInv, IndexAgrees
<1>5. PendingOwned'
  BY <1>1 DEF IInv, TypeOK, SocketInv, TaskInv, PendingOwned, IndexAgrees
<1>6. NoOrphan'
  BY <1>1 DEF IInv, TypeOK, SocketInv, TaskInv, NoOrphan, PendingOwned
<1> QED  BY <1>1, <1>2, <1>3, <1>4, <1>5, <1>6 DEF IInv

LEMMA ResumeStep ==
  ASSUME IInv, NEW r \in Requests, Resume(r)
  PROVE  IInv'
<1> USE RelayAssumption, FutureStates DEF Resume, Finish, sessionVars
<1>1. TypeOK'
  BY SettledOutcome DEF IInv, TypeOK, SocketInv, TaskInv, Outcomes
<1>2. SocketInv'
  BY <1>1 DEF IInv, TypeOK, SocketInv, TaskInv
<1>3. TaskInv'
  BY <1>1 DEF IInv, TypeOK, SocketInv, TaskInv, PendingOwned
<1>4. IndexAgrees'
  BY <1>1 DEF IInv, TypeOK, SocketInv, TaskInv, IndexAgrees
<1>5. PendingOwned'
  BY <1>1 DEF IInv, TypeOK, SocketInv, TaskInv, PendingOwned, IndexAgrees
<1>6. NoOrphan'
  BY <1>1 DEF IInv, TypeOK, SocketInv, TaskInv, NoOrphan, PendingOwned
<1> QED  BY <1>1, <1>2, <1>3, <1>4, <1>5, <1>6 DEF IInv

LEMMA InitIInv == Init => IInv
BY RelayAssumption, FutureStates
   DEF Init, IInv, TypeOK, SocketInv, TaskInv, IndexAgrees, PendingOwned,
       NoOrphan, Outcomes

LEMMA NextIInv == IInv /\ [Next]_vars => IInv'
<1> SUFFICES ASSUME IInv, [Next]_vars PROVE IInv'
  OBVIOUS
<1>1. CASE UNCHANGED vars
  BY <1>1 DEF vars, IInv, TypeOK, SocketInv, TaskInv, IndexAgrees, PendingOwned,
              NoOrphan
<1>2. ASSUME NEW s \in Sessions, SessionStep(s) PROVE IInv'
  BY <1>2, AcceptStep, AcceptFailsStep, RegisterStep, PeerGoneStep,
     DisconnectStep, ReceiveStep DEF SessionStep
<1>3. ASSUME NEW r \in Requests, RequestStep(r) PROVE IInv'
  BY <1>3, NoActiveSessionStep, ForwardStep, SendDoneStep, SendFailsStep,
     TimerFiresStep, ResumeStep DEF RequestStep
<1> QED  BY <1>1, <1>2, <1>3 DEF Next

\* IInv holds in every state the relay reaches.
THEOREM Invariance == Spec => []IInv
BY InitIInv, NextIInv, PTL DEF Spec

\* The variables of the relay keep their types.
THEOREM RelayTypeOK == Spec => []TypeOK
<1>1. IInv => TypeOK  BY DEF IInv
<1> QED  BY <1>1, Invariance, PTL

\* The user index is exactly the registered sessions of each user.
THEOREM IndexAgreesAlways == Spec => []IndexAgrees
<1>1. IInv => IndexAgrees  BY DEF IInv
<1> QED  BY <1>1, Invariance, PTL

\* No session holds a request that has ended, that another session carries or
\* that another user made.
THEOREM PendingOwnedAlways == Spec => []PendingOwned
<1>1. IInv => PendingOwned  BY DEF IInv
<1> QED  BY <1>1, Invariance, PTL

\* No request waits for an answer that can no longer reach it.
THEOREM NoOrphanAlways == Spec => []NoOrphan
<1>1. IInv => NoOrphan  BY DEF IInv
<1> QED  BY <1>1, Invariance, PTL

----------------------------------------------------------------------------
\* The refinement: every step is a step of RelayPromise or leaves it alone.

LEMMA PromiseInitially == Init => Promise!PromiseInit
BY FutureStates DEF Init, Promise!PromiseInit, Promise!NoReply, RepliesOf, PhaseOf

LEMMA PromiseStep ==
  IInv /\ IInv' /\ [Next]_vars => [Promise!PromiseNext]_(Promise!promiseVars)
<1> SUFFICES ASSUME IInv, IInv', [Next]_vars
             PROVE  [Promise!PromiseNext]_(Promise!promiseVars)
  OBVIOUS
<1> USE RelayAssumption, FutureStates
<1>1. CASE UNCHANGED vars
  BY <1>1 DEF vars, Promise!promiseVars, PhaseOf, RepliesOf, Settled
<1>2. ASSUME NEW s \in Sessions, NEW u \in Users, Accept(s, u)
      PROVE  UNCHANGED Promise!promiseVars
  BY <1>2
     DEF Accept, requestVars, Promise!promiseVars, PhaseOf, RepliesOf, PhaseOf, IInv, TypeOK,
         TaskInv
<1>3. ASSUME NEW s \in Sessions,
             AcceptFails(s) \/ Register(s) \/ PeerGone(s)
      PROVE  UNCHANGED Promise!promiseVars
  BY <1>3 DEF AcceptFails, Register, PeerGone, requestVars, Promise!promiseVars, PhaseOf, RepliesOf
<1>4. ASSUME NEW s \in Sessions, Disconnect(s)
      PROVE  UNCHANGED Promise!promiseVars
  BY <1>4
     DEF Disconnect, FailPending, requestVars, Promise!promiseVars, PhaseOf, RepliesOf, PhaseOf,
         IInv, TypeOK
<1>5. ASSUME NEW s \in Sessions, NEW r \in Requests, NEW ok \in BOOLEAN,
             Receive(s, r, ok)
      PROVE  \E u \in Users, a \in Promise!Replies : Promise!Answer(r, u, a)
  <2> DEFINE a == Settled(Answered(s, ok))
  <2>1. a \in Promise!Replies
    BY DEF Settled, Answered, Promise!Replies
  <2>2. /\ r \in pending[s] /\ future[r] = Waiting
        /\ UNCHANGED <<pc, caller, user, outcome>>
        /\ future' = [future EXCEPT ![r] = Answered(s, ok)]
    BY <1>5 DEF Receive, Accepts, sessionVars, requestVars
  <2>3. /\ caller[r] = user[s] /\ user[s] \in Users
        /\ pc[r] \in {"sending", "awaiting"}
    BY <2>2 DEF IInv, PendingOwned, SocketInv
  <2>4. RepliesOf(r) = Promise!NoReply
    BY <2>2 DEF RepliesOf, Promise!NoReply
  <2>5. RepliesOf(r)' = [by |-> user[s], what |-> a]
    <3>1. future'[r] = Answered(s, ok)  BY <2>2 DEF IInv, TypeOK
    <3> HIDE DEF a
    <3>2. Settled(future'[r]) = a  BY <3>1 DEF a
    <3> QED  BY <2>2, <3>1, <3>2 DEF RepliesOf
  <2>6. \A q \in Requests \ {r} : RepliesOf(q)' = RepliesOf(q)
    BY <2>2 DEF RepliesOf, PhaseOf, IInv, TypeOK
  <2> HIDE DEF a
  <2>7. [q \in Requests |-> RepliesOf(q)]'
          = [[q \in Requests |-> RepliesOf(q)] EXCEPT ![r] = [by |-> user[s], what |-> a]]
    BY <2>5, <2>6
  <2>8. /\ PhaseOf(r) = "open"
        /\ [q \in Requests |-> PhaseOf(q)]' = [q \in Requests |-> PhaseOf(q)]
    BY <2>2, <2>3 DEF PhaseOf
  <2>9. Promise!Answer(r, user[s], a)
    BY <2>2, <2>3, <2>4, <2>7, <2>8 DEF Promise!Answer
  <2> QED  BY <2>1, <2>3, <2>9
<1>6. ASSUME NEW r \in Requests, NEW u \in Users, NoActiveSession(r, u)
      PROVE  Promise!Refuse(r, u)
  <2>1. \A q \in Requests : RepliesOf(q)' = RepliesOf(q)
    BY <1>6 DEF NoActiveSession, sessionVars, RepliesOf
  <2>2. [q \in Requests |-> PhaseOf(q)]'
          = [[q \in Requests |-> PhaseOf(q)] EXCEPT ![r] = "ended"]
    BY <1>6 DEF NoActiveSession, PhaseOf, IInv, TypeOK
  <2> QED
    BY <1>6, <2>1, <2>2 DEF NoActiveSession, Promise!Refuse, PhaseOf
<1>7. ASSUME NEW r \in Requests, NEW u \in Users, NEW s \in Sessions,
             Forward(r, u, s)
      PROVE  Promise!Open(r, u)
  <2>1. \A q \in Requests : RepliesOf(q)' = RepliesOf(q)
    BY <1>7 DEF Forward, sessionVars, RepliesOf, PhaseOf, IInv, TypeOK, TaskInv
  <2>2. [q \in Requests |-> PhaseOf(q)]'
          = [[q \in Requests |-> PhaseOf(q)] EXCEPT ![r] = "open"]
    BY <1>7 DEF Forward, PhaseOf, IInv, TypeOK
  <2> QED
    BY <1>7, <2>1, <2>2 DEF Forward, Promise!Open, PhaseOf
<1>8. ASSUME NEW r \in Requests, SendDone(r)
      PROVE  UNCHANGED Promise!promiseVars
  BY <1>8 DEF SendDone, sessionVars, Promise!promiseVars, PhaseOf, RepliesOf, PhaseOf, IInv, TypeOK
<1>9. ASSUME NEW r \in Requests, NEW o \in Promise!Failures \cup Promise!Replies,
             pc[r] \in {"sending", "awaiting"}, Finish(r, o),
             o \in Promise!Replies => o = RepliesOf(r).what
      PROVE  Promise!End(r, o)
  <2>1. \A q \in Requests : RepliesOf(q)' = RepliesOf(q)
    BY <1>9 DEF Finish, sessionVars, RepliesOf
  <2>2. [q \in Requests |-> PhaseOf(q)]'
          = [[q \in Requests |-> PhaseOf(q)] EXCEPT ![r] = "ended"]
    BY <1>9 DEF Finish, PhaseOf, IInv, TypeOK
  <2>3. PhaseOf(r) = "open"
    BY <1>9 DEF PhaseOf
  <2> QED
    BY <1>9, <2>1, <2>2, <2>3 DEF Finish, Promise!End
<1>10. ASSUME NEW r \in Requests, SendFails(r)
       PROVE  Promise!End(r, "sendFailed")
  BY <1>9, <1>10 DEF SendFails, Promise!Failures, Promise!Replies
<1>11. ASSUME NEW r \in Requests, TimerFires(r)
       PROVE  UNCHANGED Promise!promiseVars
  BY <1>11 DEF TimerFires, sessionVars, requestVars, Promise!promiseVars, PhaseOf, RepliesOf,
               IInv, TypeOK
<1>12. ASSUME NEW r \in Requests, Resume(r)
       PROVE  \E o \in Promise!Failures \cup Promise!Replies : Promise!End(r, o)
  <2>1. CASE Finish(r, "timeout")
    BY <1>9, <1>12, <2>1 DEF Resume, Promise!Failures, Promise!Replies
  <2>2. CASE Finish(r, Settled(future[r]))
    <3>1. Settled(future[r]) \in Promise!Failures \cup Promise!Replies
      BY DEF Settled, Promise!Failures, Promise!Replies, IInv, TypeOK, Futures, Answers
    <3>2. Settled(future[r]) \in Promise!Replies => future[r] \in Answers
      BY DEF Settled, Promise!Replies, IInv, TypeOK, Futures, Unset, Waiting, Cancelled,
             Dropped
    <3>3. future[r] \in Answers => RepliesOf(r).what = Settled(future[r])
      BY DEF RepliesOf
    <3> QED
      BY <1>9, <1>12, <2>2, <3>1, <3>2, <3>3 DEF Resume
  <2> QED  BY <1>12, <2>1, <2>2 DEF Resume
<1> QED
  <2>1. CASE UNCHANGED vars
    BY <1>1, <2>1
  <2>2. ASSUME NEW s \in Sessions, SessionStep(s)
        PROVE  [Promise!PromiseNext]_(Promise!promiseVars)
    BY <1>2, <1>3, <1>4, <1>5, <2>2 DEF SessionStep, Promise!PromiseNext
  <2>3. ASSUME NEW r \in Requests, RequestStep(r)
        PROVE  [Promise!PromiseNext]_(Promise!promiseVars)
    BY <1>6, <1>7, <1>8, <1>10, <1>11, <1>12, <2>3
       DEF RequestStep, Promise!PromiseNext, Promise!Failures
  <2> QED  BY <2>1, <2>2, <2>3 DEF Next

\* The relay keeps the promise of RelayPromise.
THEOREM RelayKeepsPromise == Spec => KeepsPromise
<1>1. Spec => []IInv  BY Invariance
<1> QED
  BY <1>1, PromiseInitially, PromiseStep, PTL
     DEF Spec, KeepsPromise, Promise!PromiseSpec

----------------------------------------------------------------------------
(* The operator push *)

\* Mantle's ids are not above the number of its rows.
PushTypeInv == Push!TypeOK /\ \A i \in 1..Len(rows) : rows[i].id <= Len(rows)

Once == \A name \in Operators \cup {Catalog} : \A i, j \in Push!Named(name) : i = j

\* The rows of that name come after the n-th place of a listing.
Ahead(names, name, n) == \A i \in Push!Named(name) : Push!Rank(names, i) > n

Holding(name, content) == \E i \in Push!Named(name) : Push!Content(i) = content
Defined(name, spec) == \E i \in Push!Named(name) : rows[i].spec = spec

\* A scan for the catalog that has not met it has it still before it; one that is over says
\* whether it is there, unless it was cut.
CatalogInv(h) ==
  /\ cut = 0 /\ at[h] = "catalog" /\ ~found[h] => Ahead(Push!Names, Catalog, offset[h])
  /\ at[h] = "catalog" /\ found[h] => Push!Named(Catalog) # {}
  /\ cut = 0 /\ at[h] = "create" => Push!Named(Catalog) = {}
  /\ at[h] = "create" => offset[h] = 0
  /\ at[h] \in {"index", "put", "done"} => Push!Named(Catalog) # {}

\* An operator that is not in the index is after what was scanned, or not stored when the scan
\* is over, unless one was cut; and what is in it is stored.
IndexInv(h) ==
  /\ at[h] \in {"catalog", "create"} => \A o \in Operators : index[h][o] = Push!NotStored
  /\ at[h] \in {"catalog", "create", "index"} => todo[h] = Operators
  /\ cut = 0 /\ at[h] = "index" =>
       \A o \in Operators : index[h][o] = Push!NotStored => Ahead(Operators, o, offset[h])
  /\ at[h] \in {"index", "put"} =>
       \A o \in todo[h] : index[h][o] = Push!NotStored \/ Holding(o, index[h][o])
  /\ cut = 0 /\ at[h] = "put" =>
       \A o \in todo[h] : index[h][o] = Push!NotStored => Push!Named(o) = {}

\* What was put is stored as the build defines it.
PutInv(h) ==
  /\ at[h] \in {"put", "done"} => \A o \in Operators \ todo[h] : Defined(o, manifest[h][o])
  /\ at[h] = "done" => todo[h] = {}

HostInv(h) == CatalogInv(h) /\ IndexInv(h) /\ PutInv(h)
PushInv == PushTypeInv /\ (cut = 0 => Once) /\ \A h \in Hosts : HostInv(h)

----------------------------------------------------------------------------
(* Mantle *)

\* The rows of a listing are finitely many.
LEMMA ListedType ==
  ASSUME Push!TypeOK, NEW names
  PROVE  /\ Len(rows) \in Nat /\ DOMAIN rows = 1..Len(rows)
         /\ IsFiniteSet(Push!Listed(names)) /\ Cardinality(Push!Listed(names)) \in Nat
         /\ Cardinality(Push!Listed(names)) <= Len(rows)
<1>1. Len(rows) \in Nat /\ DOMAIN rows = 1..Len(rows)
  BY DEF Push!TypeOK
<1>2. IsFiniteSet(1..Len(rows)) /\ Cardinality(1..Len(rows)) = Len(rows)
  <2>1. Len(rows) \in Int /\ 1 \in Int
    BY <1>1
  <2>2. /\ IsFiniteSet(1..Len(rows))
        /\ Cardinality(1..Len(rows)) = IF 1 > Len(rows) THEN 0 ELSE Len(rows) - 1 + 1
    BY <2>1, FS_Interval
  <2> QED
    BY <1>1, <2>2
<1>3. Push!Listed(names) \in SUBSET (1..Len(rows))
  BY <1>1 DEF Push!Listed
<1>4. /\ IsFiniteSet(Push!Listed(names))
      /\ Cardinality(Push!Listed(names)) <= Cardinality(1..Len(rows))
  BY <1>2, <1>3, FS_Subset
<1>5. Cardinality(Push!Listed(names)) \in Nat
  BY <1>4, FS_CardinalityType
<1> QED
  BY <1>1, <1>2, <1>4, <1>5

\* The place of a row in a listing.
LEMMA RankType ==
  ASSUME Push!TypeOK, NEW names, NEW i \in Push!Listed(names)
  PROVE  /\ Push!Rank(names, i) \in Nat /\ Push!Rank(names, i) >= 1
         /\ Push!Rank(names, i) <= Cardinality(Push!Listed(names))
<1> DEFINE A == {j \in 1..i : rows[j].name \in names}
<1>1. i \in 1..Len(rows) /\ Len(rows) \in Nat /\ rows[i].name \in names
  BY ListedType DEF Push!Listed
<1>2. A \in SUBSET Push!Listed(names) /\ i \in A
  BY <1>1, ListedType DEF Push!Listed
<1>3. IsFiniteSet(A) /\ Cardinality(A) <= Cardinality(Push!Listed(names)) /\ Cardinality(A) \in Nat
  BY <1>2, ListedType, FS_Subset, FS_CardinalityType
<1>4. Cardinality(A) # 0
  BY <1>2, <1>3, FS_EmptySet
<1> QED
  BY <1>3, <1>4, Counts DEF Push!Rank

\* No two rows of a listing have one place.
LEMMA RanksApart ==
  ASSUME Push!TypeOK, NEW names, NEW i \in Push!Listed(names), NEW j \in Push!Listed(names), i < j
  PROVE  Push!Rank(names, i) < Push!Rank(names, j)
<1> DEFINE A == {k \in 1..i : rows[k].name \in names}
           B == {k \in 1..j : rows[k].name \in names}
<1>1. i \in 1..Len(rows) /\ j \in 1..Len(rows) /\ Len(rows) \in Nat /\ rows[j].name \in names
  BY ListedType DEF Push!Listed
<1>2. A \in SUBSET B /\ B \in SUBSET Push!Listed(names) /\ j \in B /\ j \notin A
  BY <1>1, ListedType DEF Push!Listed
<1>3. IsFiniteSet(B)
  BY <1>2, ListedType, FS_Subset
<1>4. Cardinality(A) <= Cardinality(B) /\ Cardinality(A) # Cardinality(B)
  BY <1>2, <1>3, FS_Subset
<1>5. Cardinality(A) \in Nat /\ Cardinality(B) \in Nat
  BY RankType, Counts DEF Push!Rank
<1> QED
  BY <1>4, <1>5, Counts DEF Push!Rank

\* A page has at most _PAGE rows, and the last one has all that are left.
\* A page has the next rows of the listing, or some of them, and goes not beyond it.
LEMMA PageSize ==
  ASSUME Push!TypeOK, NEW names, NEW n \in Nat, NEW page \in Push!Pages(names, n)
  PROVE  /\ page.rows \in SUBSET Push!Listed(names) /\ Cardinality(page.rows) \in Nat
         /\ page.rows # {} => n + Cardinality(page.rows) <= Len(rows)
         /\ \A i \in Push!Listed(names) :
              n < Push!Rank(names, i) /\ i \notin page.rows
                => Push!Rank(names, i) > n + Cardinality(page.rows)
<1> DEFINE all == Cardinality(Push!Listed(names))
<1>0. \A i \in Push!Listed(names) : /\ Push!Rank(names, i) \in Nat /\ Push!Rank(names, i) >= 1
                                   /\ Push!Rank(names, i) <= all
  BY RankType
<1>1. PICK k \in Nat : page.rows = Push!Window(names, n, k)
  <2>1. Push!Window(names, n, 0) = {}
    BY <1>0 DEF Push!Window, Push!Rest
  <2>2. CASE dry
    BY <2>1, <2>2 DEF Push!Pages
  <2>3. CASE ~dry
    <3>1. page.rows \in {Push!Window(names, n, k) : k \in 0..Page} /\ Page \in Nat
      BY <2>3, PushAssumption DEF Push!Pages, Push!OperatorPushAssumption
    <3> QED
      BY <3>1
  <2> QED
    BY <2>2, <2>3
<1> DEFINE W == Push!Window(names, n, k)
           T == (n + 1)..(n + k)
           U == (n + 1)..all
           f == [i \in W |-> Push!Rank(names, i)]
<1>2. W \in SUBSET Push!Listed(names)
  BY DEF Push!Window, Push!Rest
<1>3. \A i \in W : f[i] \in T /\ f[i] \in U
  <2> SUFFICES ASSUME NEW i \in W PROVE Push!Rank(names, i) \in T /\ Push!Rank(names, i) \in U
    OBVIOUS
  <2>1. /\ n < Push!Rank(names, i) /\ Push!Rank(names, i) <= n + k
    BY DEF Push!Window, Push!Rest
  <2>2. all \in Nat
    BY ListedType
  <2> QED
    BY <1>0, <1>2, <2>1, <2>2
<1>4. \A i, j \in W : f[i] = f[j] => i = j
  <2> SUFFICES ASSUME NEW i \in W, NEW j \in W, f[i] = f[j] PROVE i = j
    OBVIOUS
  <2>1. i \in Nat /\ j \in Nat
    <3>1. Push!Listed(names) \in SUBSET Nat
      BY ListedType DEF Push!Listed
    <3> QED
      BY <1>2, <3>1
  <2>2. Push!Rank(names, i) = Push!Rank(names, j) /\ Push!Rank(names, i) \in Nat
    BY <1>2, RankType
  <2> QED
    BY <1>2, <2>1, <2>2, RanksApart
<1>5. f \in Injection(W, T) /\ f \in Injection(W, U)
  BY <1>3, <1>4 DEF Injection, IsInjective
<1>6. all \in Nat /\ all <= Len(rows) /\ Len(rows) \in Nat
  BY ListedType
<1>7. IsFiniteSet(T) /\ Cardinality(T) = k
  BY FS_Interval
<1>8. IsFiniteSet(U) /\ Cardinality(U) = IF n + 1 <= all THEN all - n ELSE 0
  <2>1. PICK m \in Nat : m = all
    BY <1>6
  <2>2. /\ IsFiniteSet((n + 1)..m)
        /\ Cardinality((n + 1)..m) = IF n + 1 <= m THEN m - (n + 1) + 1 ELSE 0
    BY FS_Interval
  <2> QED
    BY <2>1, <2>2
<1>9. Cardinality(W) <= k /\ Cardinality(W) <= IF n + 1 <= all THEN all - n ELSE 0
  BY <1>5, <1>7, <1>8, FS_Injection
<1>10. IsFiniteSet(W) /\ Cardinality(W) \in Nat
  BY <1>2, ListedType, FS_Subset, FS_CardinalityType
<1>11. W # {} => n + 1 <= all
  <2> SUFFICES ASSUME NEW i \in W PROVE n + 1 <= all
    OBVIOUS
  <2> QED
    BY <1>0, <1>2, <1>3, <1>6
<1>12. ASSUME NEW i \in Push!Listed(names), n < Push!Rank(names, i), i \notin W
       PROVE  Push!Rank(names, i) > n + k
  BY <1>0, <1>12 DEF Push!Window, Push!Rest
<1> HIDE DEF W, T, U, f, all
<1>13. ASSUME NEW i \in Push!Listed(names), n < Push!Rank(names, i), i \notin W
       PROVE  Push!Rank(names, i) > n + Cardinality(W)
  BY <1>0, <1>9, <1>10, <1>12, <1>13
<1>14. W # {} => n + Cardinality(W) <= Len(rows)
  BY <1>6, <1>9, <1>10, <1>11
<1>15. page.rows = W
  BY <1>1 DEF W
<1> QED
  BY <1>2, <1>10, <1>13, <1>14, <1>15

\* A new row comes first, and the others move by one (d), or last.
Comes(row, d) ==
  /\ d \in {0, 1} /\ Len(rows') = Len(rows) + 1
  /\ rows'[IF d = 1 THEN 1 ELSE Len(rows) + 1] = row
  /\ \A i \in 1..Len(rows) : rows'[i + d] = rows[i]

LEMMA CreatedComes ==
  ASSUME Push!TypeOK, NEW name \in Push!Names, NEW s \in Specs \cup {Push!NoSpec},
         Push!Created(Push!Row(name, s))
  PROVE  /\ rows' \in Seq(Push!Rows) /\ Push!Row(name, s).name = name /\ Push!Row(name, s).spec = s
         /\ Push!Row(name, s).id = Len(rows) + 1
         /\ \E d \in {0, 1} : Comes(Push!Row(name, s), d)
<1> DEFINE row == Push!Row(name, s)
<1>1. rows \in Seq(Push!Rows) /\ Len(rows) \in Nat
  BY DEF Push!TypeOK
<1>2. row \in Push!Rows /\ row.name = name /\ row.spec = s /\ row.id = Len(rows) + 1
  BY <1>1 DEF Push!Row, Push!Rows
<1> HIDE DEF row
<1>3. CASE rows' = Append(rows, row)
  <2>1. rows' \in Seq(Push!Rows) /\ Len(rows') = Len(rows) + 1 /\ rows'[Len(rows) + 1] = row
        /\ \A i \in 1..Len(rows) : rows'[i] = rows[i]
    BY <1>1, <1>2, <1>3, AppendProperties
  <2>2. Comes(row, 0)
    BY <1>1, <2>1 DEF Comes
  <2> QED
    BY <1>2, <2>1, <2>2 DEF row
<1>4. CASE rows' = <<row>> \o rows
  <2>1. <<row>> \in Seq(Push!Rows) /\ Len(<<row>>) = 1 /\ <<row>>[1] = row
    BY <1>2
  <2>2. rows' \in Seq(Push!Rows) /\ Len(rows') = 1 + Len(rows)
    BY <1>1, <1>4, <2>1, ConcatProperties
  <2>3. \A i \in 1..(1 + Len(rows)) : rows'[i] = IF i <= 1 THEN row ELSE rows[i - 1]
    BY <1>1, <1>4, <2>1, ConcatProperties
  <2>4. rows'[1] = row /\ \A i \in 1..Len(rows) : rows'[i + 1] = rows[i]
    BY <1>1, <2>3
  <2>5. Comes(row, 1)
    BY <1>1, <2>2, <2>4 DEF Comes
  <2> QED
    BY <1>2, <2>2, <2>5 DEF row
<1> QED
  BY <1>3, <1>4 DEF Push!Created, row

\* What a new row changes: nothing of the others but their place, which does not fall.
LEMMA ComesKeeps ==
  ASSUME Push!TypeOK, Push!TypeOK', NEW row, NEW d \in {0, 1}, Comes(row, d), NEW names, NEW name
  PROVE  /\ \A i \in Push!Named(name) :
              /\ i + d \in Push!Named(name)' /\ Push!Content(i + d)' = Push!Content(i)
              /\ rows'[i + d] = rows[i]
              /\ i \in Push!Listed(names) => Push!Rank(names, i + d)' >= Push!Rank(names, i)
         /\ \A k \in Push!Named(name)' :
              \/ row.name = name /\ k = IF d = 1 THEN 1 ELSE Len(rows) + 1
              \/ \E i \in Push!Named(name) : k = i + d
         /\ row.name = name => (IF d = 1 THEN 1 ELSE Len(rows) + 1) \in Push!Named(name)'
<1>1. /\ Len(rows) \in Nat /\ DOMAIN rows = 1..Len(rows)
      /\ DOMAIN rows' = 1..(Len(rows) + 1)
  BY DEF Push!TypeOK, Comes
<1>2. ASSUME NEW i \in Push!Named(name)
      PROVE  /\ i + d \in Push!Named(name)' /\ Push!Content(i + d)' = Push!Content(i)
             /\ rows'[i + d] = rows[i]
             /\ i \in 1..Len(rows) /\ i + d \in 1..(Len(rows) + 1)
  BY <1>1 DEF Push!Named, Comes, Push!Content
<1>3. ASSUME NEW i \in Push!Named(name), i \in Push!Listed(names)
      PROVE  Push!Rank(names, i + d)' >= Push!Rank(names, i)
  <2> DEFINE A == {j \in 1..i : rows[j].name \in names}
             B == {j \in 1..(i + d) : rows'[j].name \in names}
             f == [j \in A |-> j + d]
  <2>1. \A j \in A : j \in 1..Len(rows) /\ f[j] \in B
    <3> SUFFICES ASSUME NEW j \in A PROVE j \in 1..Len(rows) /\ j + d \in B
      OBVIOUS
    <3>1. j \in 1..i /\ i \in 1..Len(rows) /\ Len(rows) \in Nat
      BY <1>1, <1>2
    <3>2. j \in 1..Len(rows) /\ j + d \in 1..(i + d)
      BY <3>1
    <3>3. rows'[j + d] = rows[j]
      BY <3>2 DEF Comes
    <3> QED
      BY <3>2, <3>3
  <2>2. \A j, k \in A : f[j] = f[k] => j = k
    BY <2>1
  <2>3. f \in Injection(A, B)
    BY <2>1, <2>2 DEF Injection, IsInjective
  <2>4. IsFiniteSet(B)
    <3>1. IsFiniteSet(1..(i + d))
      BY <1>2, FS_Interval
    <3>2. B \in SUBSET (1..(i + d))
      OBVIOUS
    <3> QED
      BY <3>1, <3>2, FS_Subset
  <2>5. Cardinality(A) <= Cardinality(B)
    BY <2>3, <2>4, FS_Injection
  <2>6. Cardinality(A) = Push!Rank(names, i) /\ Cardinality(B) = Push!Rank(names, i + d)'
    BY Counts DEF Push!Rank
  <2>7. Cardinality(A) \in Nat /\ Cardinality(B) \in Nat
    BY <1>3, <2>3, <2>4, FS_Injection, FS_CardinalityType
  <2> QED
    BY <2>5, <2>6, <2>7
<1>4. ASSUME NEW k \in Push!Named(name)'
      PROVE  \/ row.name = name /\ k = IF d = 1 THEN 1 ELSE Len(rows) + 1
             \/ \E i \in Push!Named(name) : k = i + d
  <2>1. k \in 1..(Len(rows) + 1) /\ rows'[k].name = name
    BY <1>1, <1>4 DEF Push!Named
  <2>2. CASE k = IF d = 1 THEN 1 ELSE Len(rows) + 1
    BY <2>1, <2>2 DEF Comes
  <2>3. CASE k # IF d = 1 THEN 1 ELSE Len(rows) + 1
    <3>1. k - d \in 1..Len(rows)
      BY <1>1, <2>1, <2>3
    <3>2. rows'[(k - d) + d] = rows[k - d] /\ (k - d) + d = k
      BY <2>1, <3>1 DEF Comes
    <3> QED
      BY <1>1, <2>1, <3>1, <3>2 DEF Push!Named
  <2> QED
    BY <2>2, <2>3
<1>5. ASSUME row.name = name
      PROVE  (IF d = 1 THEN 1 ELSE Len(rows) + 1) \in Push!Named(name)'
  BY <1>1, <1>5 DEF Comes, Push!Named
<1> QED
  BY <1>2, <1>3, <1>4, <1>5

\* Where the rows do not change, neither does what is asked of them.
LEMMA SameRows ==
  ASSUME rows' = rows
  PROVE  /\ \A name : Push!Named(name)' = Push!Named(name)
         /\ \A names, i : Push!Rank(names, i)' = Push!Rank(names, i)
         /\ \A i : Push!Content(i)' = Push!Content(i)
         /\ \A names, name, n : Ahead(names, name, n)' <=> Ahead(names, name, n)
         /\ \A name, content : Holding(name, content)' <=> Holding(name, content)
         /\ \A name, spec : Defined(name, spec)' <=> Defined(name, spec)
         /\ Once' <=> Once
BY DEF Push!Named, Push!Rank, Push!Content, Ahead, Holding, Defined, Once

\* What a row is.
LEMMA RowType ==
  ASSUME Push!TypeOK
  PROVE  /\ rows \in Seq(Push!Rows) /\ Len(rows) \in Nat /\ DOMAIN rows = 1..Len(rows)
         /\ \A i \in 1..Len(rows) : /\ rows[i] \in Push!Rows /\ rows[i].id \in Nat \ {0}
                                    /\ rows[i].name \in Push!Names
                                    /\ rows[i].spec \in Specs \cup {Push!NoSpec}
         /\ \A i, j \in 1..Len(rows) : i # j => rows[i].id # rows[j].id
<1>1. rows \in Seq(Push!Rows) /\ \A i, j \in 1..Len(rows) : i # j => rows[i].id # rows[j].id
  BY DEF Push!TypeOK
<1>2. \A i \in 1..Len(rows) : rows[i] \in Push!Rows
  BY <1>1
<1> QED
  BY <1>1, <1>2 DEF Push!Rows

\* A new row keeps the types of the rows, whose ids are not above their number.
LEMMA CreatedType ==
  ASSUME PushTypeInv, NEW name \in Push!Names, NEW s \in Specs \cup {Push!NoSpec},
         Push!Created(Push!Row(name, s))
  PROVE  /\ rows' \in Seq(Push!Rows) /\ Len(rows') = Len(rows) + 1 /\ Len(rows) \in Nat
         /\ \A i, j \in 1..Len(rows') : i # j => rows'[i].id # rows'[j].id
         /\ \A i \in 1..Len(rows') : rows'[i].id <= Len(rows')
<1> DEFINE row == Push!Row(name, s)
<1>0. Push!TypeOK
  BY DEF PushTypeInv
<1>1. Push!TypeOK /\ Len(rows) \in Nat
  BY <1>0, RowType
<1>2. rows' \in Seq(Push!Rows) /\ row.id = Len(rows) + 1
  BY <1>1, CreatedComes
<1>3. PICK d \in {0, 1} : Comes(row, d)
  BY <1>1, CreatedComes
<1> HIDE DEF row
<1>4. Len(rows') = Len(rows) + 1
  BY <1>3 DEF Comes
<1>5. ASSUME NEW i \in 1..Len(rows')
      PROVE  \/ i = (IF d = 1 THEN 1 ELSE Len(rows) + 1) /\ rows'[i].id = Len(rows) + 1
             \/ i - d \in 1..Len(rows) /\ rows'[i].id = rows[i - d].id
  <2>1. CASE i = IF d = 1 THEN 1 ELSE Len(rows) + 1
    BY <1>2, <1>3, <2>1 DEF Comes
  <2>2. CASE i # IF d = 1 THEN 1 ELSE Len(rows) + 1
    <3>1. i - d \in 1..Len(rows) /\ (i - d) + d = i
      BY <1>1, <1>4, <2>2
    <3>2. rows'[(i - d) + d] = rows[i - d]
      BY <1>3, <3>1 DEF Comes
    <3> QED
      BY <3>1, <3>2
  <2> QED
    BY <2>1, <2>2
<1>6. \A i \in 1..Len(rows) : rows[i].id \in Nat /\ rows[i].id <= Len(rows)
  BY <1>1, RowType DEF PushTypeInv
<1>7. \A i, j \in 1..Len(rows) : i # j => rows[i].id # rows[j].id
  BY <1>1, RowType
<1>8. \A i \in 1..Len(rows') : rows'[i].id <= Len(rows')
  BY <1>1, <1>4, <1>5, <1>6
<1>9. ASSUME NEW i \in 1..Len(rows'), NEW j \in 1..Len(rows'), i # j
      PROVE  rows'[i].id # rows'[j].id
  <2>1. i \in Int /\ j \in Int /\ i - d # j - d
    BY <1>1, <1>4, <1>9
  <2>2. CASE i - d \in 1..Len(rows) /\ j - d \in 1..Len(rows)
             /\ rows'[i].id = rows[i - d].id /\ rows'[j].id = rows[j - d].id
    BY <1>7, <2>1, <2>2
  <2>3. CASE i = (IF d = 1 THEN 1 ELSE Len(rows) + 1) /\ rows'[i].id = Len(rows) + 1
    <3>1. j - d \in 1..Len(rows) /\ rows'[j].id = rows[j - d].id
      BY <1>5, <1>9, <2>3
    <3> QED
      BY <1>1, <1>6, <2>3, <3>1
  <2>4. CASE j = (IF d = 1 THEN 1 ELSE Len(rows) + 1) /\ rows'[j].id = Len(rows) + 1
    <3>1. i - d \in 1..Len(rows) /\ rows'[i].id = rows[i - d].id
      BY <1>5, <1>9, <2>4
    <3> QED
      BY <1>1, <1>6, <2>4, <3>1
  <2> QED
    BY <1>5, <2>2, <2>3, <2>4
<1> QED
  BY <1>1, <1>2, <1>4, <1>8, <1>9

\* The last row of some rows is one of them.
LEMMA LatestIsOne ==
  ASSUME NEW n \in Nat, NEW S \in SUBSET (1..n), S # {}
  PROVE  Push!Latest(S) \in S
<1> DEFINE Above == {m \in Nat : \A j \in S : j <= m}
<1>1. n \in Above
  OBVIOUS
<1>2. PICK m \in Above : \A k \in Above : m <= k
  <2>1. PICK m \in Above : \A k \in Above : ~(<<k, m>> \in OpToRel(<, Nat))
    BY <1>1, NatLessThanWellFounded, WFMin
  <2>2. OpToRel(<, Nat) = {ss \in Nat \X Nat : ss[1] < ss[2]}
    BY DEF OpToRel
  <2>3. \A k \in Above : ~(k < m)
    BY <2>1, <2>2
  <2> QED
    BY <2>3
<1>3. m \in S
  <2> SUFFICES ASSUME m \notin S PROVE FALSE
    OBVIOUS
  <2>1. m - 1 \in Nat /\ \A j \in S : j <= m - 1
    <3>1. PICK j0 \in S : TRUE
      OBVIOUS
    <3>2. j0 \in 1..n /\ j0 <= m /\ m \in Nat
      BY <1>2, <3>1
    <3>3. \A j \in S : j \in 1..n /\ j <= m /\ j # m
      BY <1>2
    <3> QED
      BY <3>2, <3>3
  <2>2. m - 1 \in Above
    BY <2>1
  <2> QED
    BY <1>2, <2>2
<1>4. \A j \in S : j <= m
  BY <1>2
<1> QED
  BY <1>3, <1>4 DEF Push!Latest

----------------------------------------------------------------------------
(* Types *)

\* Everything but the rows.
HostTypes ==
  /\ dry \in BOOLEAN /\ cut \in Nat
  /\ deploys \in 0..MaxDeploys
  /\ manifest \in [Hosts -> [Operators -> Specs]]
  /\ at \in [Hosts -> {"catalog", "create", "index", "put", "backoff", "done", "gaveUp"}]
  /\ attempt \in [Hosts -> 1..Attempts]
  /\ found \in [Hosts -> BOOLEAN]
  /\ index \in [Hosts -> [Operators -> [id : Nat, spec : Specs \cup {Push!NoSpec}]]]
  /\ todo \in [Hosts -> SUBSET Operators]

RowTypes ==
  /\ rows \in Seq(Push!Rows)
  /\ \A i, j \in 1..Len(rows) : i # j => rows[i].id # rows[j].id
  /\ \A i \in 1..Len(rows) : rows[i].id <= Len(rows)

LEMMA TypeParts == PushTypeInv <=> HostTypes /\ RowTypes /\ offset \in [Hosts -> 0..Len(rows)]
BY DEF PushTypeInv, Push!TypeOK, HostTypes, RowTypes

LEMMA TypePartsNext ==
  HostTypes' /\ RowTypes' /\ offset' \in [Hosts -> 0..Len(rows')] => PushTypeInv'
BY DEF PushTypeInv, Push!TypeOK, HostTypes, RowTypes

LEMMA TypeInit == Push!Init => PushTypeInv
<1> SUFFICES ASSUME Push!Init PROVE PushTypeInv
  OBVIOUS
<1>1. RowTypes
  BY DEF Push!Init, RowTypes
<1>2. HostTypes
  <2>1. MaxDeploys \in Nat /\ Attempts \in Nat \ {0}
    BY PushAssumption DEF Push!OperatorPushAssumption
  <2>2. Push!NothingIndexed \in [Operators -> [id : Nat, spec : Specs \cup {Push!NoSpec}]]
    BY DEF Push!NothingIndexed, Push!NotStored
  <2>3. dry \in BOOLEAN /\ cut \in Nat
    BY DEF Push!Init
  <2> QED
    BY <2>1, <2>2, <2>3 DEF Push!Init, HostTypes
<1>3. offset \in [Hosts -> 0..Len(rows)]
  BY DEF Push!Init
<1> QED
  BY <1>1, <1>2, <1>3, TypeParts

\* A step of a host that leaves the rows alone.
LEMMA TypeOfHosts ==
  ASSUME PushTypeInv, HostTypes', rows' = rows, offset' \in [Hosts -> 0..Len(rows)]
  PROVE  PushTypeInv'
<1>1. RowTypes'
  BY TypeParts DEF RowTypes
<1> QED
  BY <1>1, TypePartsNext

\* A step that adds a row.
LEMMA TypeOfNew ==
  ASSUME PushTypeInv, HostTypes', offset' = offset,
         NEW name \in Push!Names, NEW s \in Specs \cup {Push!NoSpec},
         Push!Created(Push!Row(name, s))
  PROVE  PushTypeInv'
<1>1. RowTypes' /\ Len(rows') = Len(rows) + 1 /\ Len(rows) \in Nat
  BY CreatedType DEF RowTypes
<1>2. offset \in [Hosts -> 0..Len(rows)]
  BY TypeParts
<1>3. offset' \in [Hosts -> 0..Len(rows')]
  BY <1>1, <1>2
<1> QED
  BY <1>1, <1>3, TypePartsNext

LEMMA TypeOthers == PushTypeInv /\ Push!OthersCreate => PushTypeInv'
<1> SUFFICES ASSUME PushTypeInv, Push!OthersCreate PROVE PushTypeInv'
  OBVIOUS
<1>1. HostTypes'
  BY TypeParts DEF HostTypes, Push!OthersCreate
<1>2. Other \in Push!Names /\ Push!NoSpec \in Specs \cup {Push!NoSpec}
  BY DEF Push!Names
<1> QED
  BY <1>1, <1>2, TypeOfNew DEF Push!OthersCreate

LEMMA TypeStalls == PushTypeInv /\ Push!Stalls => PushTypeInv'
<1> SUFFICES ASSUME PushTypeInv, Push!Stalls PROVE PushTypeInv'
  OBVIOUS
<1>1. HostTypes' /\ rows' = rows /\ offset' \in [Hosts -> 0..Len(rows)]
  BY TypeParts DEF HostTypes, Push!Stalls
<1> QED
  BY <1>1, TypeOfHosts

LEMMA TypeFresh ==
  ASSUME PushTypeInv, NEW h \in Hosts, Push!Fresh(h)
  PROVE  /\ at' \in [Hosts -> {"catalog", "create", "index", "put", "backoff", "done", "gaveUp"}]
         /\ found' \in [Hosts -> BOOLEAN]
         /\ index' \in [Hosts -> [Operators -> [id : Nat, spec : Specs \cup {Push!NoSpec}]]]
         /\ todo' \in [Hosts -> SUBSET Operators]
         /\ offset' \in [Hosts -> 0..Len(rows)]
<1>1. HostTypes /\ Push!TypeOK /\ Len(rows) \in Nat /\ offset \in [Hosts -> 0..Len(rows)]
  BY TypeParts, RowType DEF PushTypeInv
<1>2. Push!NothingIndexed \in [Operators -> [id : Nat, spec : Specs \cup {Push!NoSpec}]]
  BY DEF Push!NothingIndexed, Push!NotStored
<1> QED
  BY <1>1, <1>2 DEF Push!Fresh, HostTypes

LEMMA TypeRetry ==
  ASSUME PushTypeInv, NEW h \in Hosts, Push!Retry(h)
  PROVE  PushTypeInv'
<1>1. HostTypes /\ offset \in [Hosts -> 0..Len(rows)] /\ rows' = rows
  BY TypeParts DEF Push!Retry
<1>2. CASE Push!LastAttempt(h) /\ at' = [at EXCEPT ![h] = "gaveUp"]
           /\ UNCHANGED <<attempt, offset, found, index, todo>>
  <2>1. HostTypes'
    BY <1>1, <1>2 DEF HostTypes, Push!Retry
  <2> QED
    BY <1>1, <1>2, <2>1, TypeOfHosts
<1>3. CASE ~Push!LastAttempt(h) /\ attempt' = [attempt EXCEPT ![h] = @ + 1] /\ Push!Fresh(h)
  <2>1. attempt[h] \in 1..Attempts /\ attempt[h] # Attempts /\ Attempts \in Nat
    BY <1>1, <1>3, PushAssumption DEF HostTypes, Push!LastAttempt, Push!OperatorPushAssumption
  <2>2. attempt[h] + 1 \in 1..Attempts
    BY <2>1
  <2>3. attempt' \in [Hosts -> 1..Attempts]
    BY <1>1, <1>3, <2>2 DEF HostTypes
  <2>4. HostTypes'
    BY <1>1, <1>3, <2>3, TypeFresh DEF HostTypes, Push!Retry
  <2> QED
    BY <1>1, <1>3, <2>4, TypeFresh, TypeOfHosts
<1> QED
  BY <1>2, <1>3 DEF Push!Retry

LEMMA TypeDeploy ==
  ASSUME PushTypeInv, NEW h \in Hosts, NEW build \in [Operators -> Specs], Push!Deploy(h, build)
  PROVE  PushTypeInv'
<1>1. HostTypes /\ rows' = rows
  BY TypeParts DEF Push!Deploy
<1>2. Push!Fresh(h)
  BY DEF Push!Deploy
<1>3. deploys' \in 0..MaxDeploys
  <2>1. deploys \in 0..MaxDeploys /\ MaxDeploys \in Nat /\ deploys < MaxDeploys
        /\ deploys' = deploys + 1
    BY <1>1, PushAssumption DEF HostTypes, Push!Deploy, Push!OperatorPushAssumption
  <2> QED
    BY <2>1
<1>4. manifest' \in [Hosts -> [Operators -> Specs]]
  BY <1>1 DEF HostTypes, Push!Deploy
<1>5. attempt' \in [Hosts -> 1..Attempts]
  <2>1. 1 \in 1..Attempts
    BY PushAssumption DEF Push!OperatorPushAssumption
  <2> QED
    BY <1>1, <2>1 DEF HostTypes, Push!Deploy
<1>6. dry' \in BOOLEAN /\ cut' \in Nat
  BY <1>1 DEF HostTypes, Push!Deploy
<1>7. HostTypes'
  BY <1>2, <1>3, <1>4, <1>5, <1>6, TypeFresh DEF HostTypes
<1> QED
  BY <1>1, <1>2, <1>7, TypeFresh, TypeOfHosts

LEMMA TypeFails ==
  ASSUME PushTypeInv, NEW h \in Hosts, Push!Fails(h)
  PROVE  PushTypeInv'
<1>1. HostTypes' /\ rows' = rows /\ offset' \in [Hosts -> 0..Len(rows)]
  BY TypeParts DEF HostTypes, Push!Fails
<1> QED
  BY <1>1, TypeOfHosts

LEMMA TypeCreateCatalog ==
  ASSUME PushTypeInv, NEW h \in Hosts, Push!CreateCatalog(h)
  PROVE  PushTypeInv'
<1>1. HostTypes'
  BY TypeParts DEF HostTypes, Push!CreateCatalog
<1>2. Catalog \in Push!Names /\ Push!NoSpec \in Specs \cup {Push!NoSpec}
  BY DEF Push!Names
<1> QED
  BY <1>1, <1>2, TypeOfNew DEF Push!CreateCatalog

\* The next page of a listing begins within it.
LEMMA NextPage ==
  ASSUME PushTypeInv, NEW h \in Hosts, NEW names, NEW page \in Push!Pages(names, offset[h]),
         Push!Scans(h, names, page)
  PROVE  offset' \in [Hosts -> 0..Len(rows)] /\ dry' \in BOOLEAN /\ cut' \in Nat
<1>1. Push!TypeOK /\ offset \in [Hosts -> 0..Len(rows)] /\ cut \in Nat
  BY TypeParts DEF PushTypeInv, HostTypes
<1>2. Len(rows) \in Nat /\ offset[h] \in Nat
  BY <1>1, RowType
<1>3. /\ Cardinality(page.rows) \in Nat
      /\ page.rows # {} => offset[h] + Cardinality(page.rows) <= Len(rows)
  BY <1>1, <1>2, PageSize
<1>4. Push!Advance(offset[h], page) \in 0..Len(rows)
  BY <1>2, <1>3, Counts DEF Push!Advance, Push!Ended
<1> QED
  BY <1>1, <1>4 DEF Push!Scans

LEMMA TypeCatalogPage ==
  ASSUME PushTypeInv, NEW h \in Hosts, Push!CatalogPage(h)
  PROVE  PushTypeInv'
<1>1. PICK page \in Push!Pages(Push!Names, offset[h]) :
        /\ Push!Scans(h, Push!Names, page)
        /\ found' = [found EXCEPT ![h] = Push!Holds(h, page.rows)]
        /\ at' = [at EXCEPT ![h] = IF ~Push!Ended(page) THEN "catalog"
                                   ELSE IF Push!Holds(h, page.rows) THEN "index" ELSE "create"]
  BY DEF Push!CatalogPage
<1>2. offset' \in [Hosts -> 0..Len(rows)] /\ dry' \in BOOLEAN /\ cut' \in Nat
  BY <1>1, NextPage
<1>3. Push!Holds(h, page.rows) \in BOOLEAN
  BY TypeParts DEF HostTypes, Push!Holds
<1>4. found' \in [Hosts -> BOOLEAN]
  BY <1>1, <1>3, TypeParts DEF HostTypes
<1>5. at' \in [Hosts -> {"catalog", "create", "index", "put", "backoff", "done", "gaveUp"}]
  BY <1>1, TypeParts DEF HostTypes
<1>6. HostTypes' /\ rows' = rows
  BY <1>2, <1>4, <1>5, TypeParts DEF HostTypes, Push!CatalogPage
<1> QED
  BY <1>2, <1>6, TypeOfHosts

LEMMA IndexedType ==
  ASSUME PushTypeInv, NEW h \in Hosts, NEW window
  PROVE  Push!Indexed(h, window) \in [Operators -> [id : Nat, spec : Specs \cup {Push!NoSpec}]]
<1>0. Push!TypeOK /\ HostTypes
  BY TypeParts DEF PushTypeInv
<1> SUFFICES ASSUME NEW o \in Operators
             PROVE  (IF window \cap Push!Named(o) # {}
                     THEN Push!Content(Push!Latest(window \cap Push!Named(o)))
                     ELSE index[h][o]) \in [id : Nat, spec : Specs \cup {Push!NoSpec}]
  BY DEF Push!Indexed
<1>1. CASE window \cap Push!Named(o) # {}
  <2>1. window \cap Push!Named(o) \in SUBSET (1..Len(rows)) /\ Len(rows) \in Nat
    BY <1>0, RowType DEF Push!Named
  <2>2. Push!Latest(window \cap Push!Named(o)) \in 1..Len(rows)
    BY <1>1, <2>1, LatestIsOne
  <2>3. Push!Content(Push!Latest(window \cap Push!Named(o)))
          \in [id : Nat, spec : Specs \cup {Push!NoSpec}]
    BY <1>0, <2>2, RowType DEF Push!Content
  <2> QED
    BY <1>1, <2>3
<1>2. CASE window \cap Push!Named(o) = {}
  BY <1>0, <1>2 DEF HostTypes
<1> QED
  BY <1>1, <1>2

LEMMA TypeIndexPage ==
  ASSUME PushTypeInv, NEW h \in Hosts, Push!IndexPage(h)
  PROVE  PushTypeInv'
<1>1. PICK page \in Push!Pages(Operators, offset[h]) :
        /\ Push!Scans(h, Operators, page)
        /\ index' = [index EXCEPT ![h] = Push!Indexed(h, page.rows)]
        /\ at' = [at EXCEPT ![h] = IF Push!Ended(page) THEN "put" ELSE "index"]
  BY DEF Push!IndexPage
<1>2. offset' \in [Hosts -> 0..Len(rows)] /\ dry' \in BOOLEAN /\ cut' \in Nat
  BY <1>1, NextPage
<1>3. index' \in [Hosts -> [Operators -> [id : Nat, spec : Specs \cup {Push!NoSpec}]]]
  BY <1>1, IndexedType, TypeParts DEF HostTypes
<1>4. at' \in [Hosts -> {"catalog", "create", "index", "put", "backoff", "done", "gaveUp"}]
  BY <1>1, TypeParts DEF HostTypes
<1>5. HostTypes' /\ rows' = rows
  BY <1>2, <1>3, <1>4, TypeParts DEF HostTypes, Push!IndexPage
<1> QED
  BY <1>2, <1>5, TypeOfHosts

\* The write of a definition: the row of that id gets it.
Patched(id, spec) ==
  [i \in DOMAIN rows |-> IF rows[i].id = id THEN [rows[i] EXCEPT !.spec = spec] ELSE rows[i]]

LEMMA PatchedRows ==
  ASSUME PushTypeInv, NEW id, NEW spec \in Specs, rows' = Patched(id, spec)
  PROVE  /\ rows' \in Seq(Push!Rows) /\ Len(rows') = Len(rows) /\ RowTypes'
         /\ \A i \in 1..Len(rows) : /\ rows'[i].id = rows[i].id /\ rows'[i].name = rows[i].name
                                    /\ rows[i].id = id => rows'[i].spec = spec
                                    /\ rows[i].id # id => rows'[i] = rows[i]
<1>1. Push!TypeOK /\ \A i \in 1..Len(rows) : rows[i].id <= Len(rows)
  BY DEF PushTypeInv
<1>2. /\ Len(rows) \in Nat /\ DOMAIN rows = 1..Len(rows)
      /\ \A i \in 1..Len(rows) : rows[i] \in Push!Rows
      /\ \A i, j \in 1..Len(rows) : i # j => rows[i].id # rows[j].id
  BY <1>1, RowType
<1>3. ASSUME NEW i \in 1..Len(rows)
      PROVE  /\ rows'[i] \in Push!Rows /\ rows'[i].id = rows[i].id /\ rows'[i].name = rows[i].name
             /\ rows[i].id = id => rows'[i].spec = spec
             /\ rows[i].id # id => rows'[i] = rows[i]
  <2>1. rows'[i] = IF rows[i].id = id THEN [rows[i] EXCEPT !.spec = spec] ELSE rows[i]
    BY <1>2 DEF Patched
  <2> QED
    BY <1>2, <2>1 DEF Push!Rows
<1>4. rows' \in [1..Len(rows) -> Push!Rows]
  BY <1>2, <1>3 DEF Patched
<1>5. rows' \in Seq(Push!Rows) /\ Len(rows') = Len(rows)
  BY <1>2, <1>4
<1>6. RowTypes'
  BY <1>1, <1>2, <1>3, <1>5 DEF RowTypes
<1> QED
  BY <1>3, <1>5, <1>6

\* The push goes on after a write, or raises.
LEMMA TypeWritten ==
  ASSUME PushTypeInv, NEW h \in Hosts, NEW o, Push!PutDone(h, o) \/ Push!Raised(h),
         UNCHANGED <<dry, cut, deploys, manifest, attempt, offset, found, index>>
  PROVE  HostTypes'
<1>1. HostTypes
  BY TypeParts
<1>2. todo' \in [Hosts -> SUBSET Operators]
  <2>1. todo \in [Hosts -> SUBSET Operators]
    BY <1>1 DEF HostTypes
  <2>2. CASE Push!PutDone(h, o)
    <3>1. todo' = [todo EXCEPT ![h] = todo[h] \ {o}] /\ todo[h] \ {o} \in SUBSET Operators
      BY <2>1, <2>2 DEF Push!PutDone
    <3> QED
      BY <2>1, <3>1
  <2>3. CASE Push!Raised(h)
    BY <2>1, <2>3 DEF Push!Raised
  <2> QED
    BY <2>2, <2>3
<1>3. at' \in [Hosts -> {"catalog", "create", "index", "put", "backoff", "done", "gaveUp"}]
  BY <1>1 DEF HostTypes, Push!PutDone, Push!Raised
<1> QED
  BY <1>1, <1>2, <1>3 DEF HostTypes

LEMMA TypePut ==
  ASSUME PushTypeInv, NEW h \in Hosts, NEW o \in Operators, Push!Put(h, o)
  PROVE  PushTypeInv'
<1>1. HostTypes' /\ manifest[h][o] \in Specs /\ offset' = offset
  <2>1. Push!PutDone(h, o) \/ Push!Raised(h)
    BY DEF Push!Put
  <2>2. UNCHANGED <<dry, cut, deploys, manifest, attempt, offset, found, index>>
    BY DEF Push!Put
  <2>3. HostTypes'
    BY <2>1, <2>2, TypeWritten
  <2> QED
    BY <2>2, <2>3, TypeParts DEF HostTypes
<1>2. CASE Push!Created(Push!Row(o, manifest[h][o]))
  BY <1>1, <1>2, TypeOfNew DEF Push!Names
<1>3. CASE rows' = Patched(index[h][o].id, manifest[h][o])
  <2>1. RowTypes' /\ Len(rows') = Len(rows)
    BY <1>1, <1>3, PatchedRows
  <2>2. offset' \in [Hosts -> 0..Len(rows')]
    BY <1>1, <2>1, TypeParts
  <2> QED
    BY <1>1, <2>1, <2>2, TypePartsNext
<1>4. CASE rows' = rows
  BY <1>1, <1>4, TypeParts, TypeOfHosts
<1> QED
  BY <1>2, <1>3, <1>4 DEF Push!Put, Patched

LEMMA TypeNext == PushTypeInv /\ [Push!Next]_(Push!vars) => PushTypeInv'
<1>1. ASSUME PushTypeInv, UNCHANGED Push!vars PROVE PushTypeInv'
  <2>1. HostTypes' /\ rows' = rows /\ offset' \in [Hosts -> 0..Len(rows)]
    BY <1>1, TypeParts DEF Push!vars, HostTypes
  <2> QED
    BY <1>1, <2>1, TypeOfHosts
<1>2. ASSUME PushTypeInv, NEW h \in Hosts, Push!PushStep(h) PROVE PushTypeInv'
  BY <1>2, TypeCatalogPage, TypeCreateCatalog, TypeIndexPage, TypePut, TypeRetry DEF Push!PushStep
<1> QED
  BY <1>1, <1>2, TypeOthers, TypeStalls, TypeFails, TypeDeploy DEF Push!Next

----------------------------------------------------------------------------
(* One host *)

\* A step keeps the rows of other names: those that are there stay, as they were, and none comes
\* before a place that a scan has passed.
Keeps(name) ==
  /\ \A other : Push!Named(other) # {} => Push!Named(other)' # {}
  /\ \A other : other # name /\ Push!Named(other) = {} => Push!Named(other)' = {}
  /\ \A other, content : other # name /\ Holding(other, content)
                           => \E i \in Push!Named(other)' : Push!Content(i)' = content
  /\ \A other, spec : other # name /\ Defined(other, spec)
                        => \E i \in Push!Named(other)' : rows'[i].spec = spec
  /\ \A names, other, n : n \in Nat /\ other # name /\ other \in names /\ Ahead(names, other, n)
                            => \A i \in Push!Named(other)' : Push!Rank(names, i)' > n

LEMMA NewRow ==
  ASSUME PushTypeInv, PushTypeInv',
         NEW name \in Push!Names, NEW s \in Specs \cup {Push!NoSpec},
         Push!Created(Push!Row(name, s))
  PROVE  /\ Keeps(name)
         /\ Once /\ (name \in Operators \cup {Catalog} => Push!Named(name) = {}) => Once'
         /\ \E i \in Push!Named(name)' : rows'[i].spec = s
<1> DEFINE row == Push!Row(name, s)
<1>1. Push!TypeOK /\ Push!TypeOK'
  BY DEF PushTypeInv
<1>2. PICK d \in {0, 1} : Comes(row, d)
  BY <1>1, CreatedComes
<1>3. row.name = name /\ row.spec = s
  BY <1>1, CreatedComes
<1> HIDE DEF row
<1> DEFINE k == IF d = 1 THEN 1 ELSE Len(rows) + 1
<1>4. rows'[k] = row
  BY <1>2 DEF Comes
<1> HIDE DEF k
<1>5. ASSUME NEW other
      PROVE  /\ \A i \in Push!Named(other) :
                  /\ i + d \in Push!Named(other)' /\ Push!Content(i + d)' = Push!Content(i)
                  /\ rows'[i + d] = rows[i]
             /\ \A j \in Push!Named(other)' :
                  (name = other /\ j = k) \/ \E i \in Push!Named(other) : j = i + d
             /\ name = other => k \in Push!Named(other)'
  <2>1. /\ \A i \in Push!Named(other) :
              /\ i + d \in Push!Named(other)' /\ Push!Content(i + d)' = Push!Content(i)
              /\ rows'[i + d] = rows[i]
        /\ \A j \in Push!Named(other)' :
              \/ row.name = other /\ j = IF d = 1 THEN 1 ELSE Len(rows) + 1
              \/ \E i \in Push!Named(other) : j = i + d
        /\ row.name = other => (IF d = 1 THEN 1 ELSE Len(rows) + 1) \in Push!Named(other)'
    BY <1>1, <1>2, ComesKeeps
  <2> QED
    BY <1>3, <2>1 DEF k
<1>6. ASSUME Once, name \in Operators \cup {Catalog} => Push!Named(name) = {} PROVE Once'
  <2> SUFFICES ASSUME NEW other \in Operators \cup {Catalog},
                      NEW i \in Push!Named(other)', NEW j \in Push!Named(other)'
               PROVE  i = j
    BY DEF Once
  <2>1. CASE other = name
    <3>1. Push!Named(other) = {}
      BY <1>6, <2>1
    <3> QED
      BY <1>5, <3>1
  <2>2. CASE other # name
    <3>1. PICK i0 \in Push!Named(other) : i = i0 + d
      BY <1>5, <2>2
    <3>2. PICK j0 \in Push!Named(other) : j = j0 + d
      BY <1>5, <2>2
    <3> QED
      BY <1>6, <3>1, <3>2 DEF Once
  <2> QED
    BY <2>1, <2>2
<1>7. \E i \in Push!Named(name)' : rows'[i].spec = s
  BY <1>3, <1>4, <1>5
<1>8. ASSUME NEW names, NEW other, NEW n \in Nat, other # name, other \in names,
             Ahead(names, other, n),
             NEW j \in Push!Named(other)'
      PROVE  Push!Rank(names, j)' > n
  <2>1. PICK i \in Push!Named(other) : j = i + d
    BY <1>5, <1>8
  <2>2. i \in Push!Listed(names)
    BY <1>8 DEF Push!Named, Push!Listed
  <2>3. Push!Rank(names, i + d)' >= Push!Rank(names, i)
    BY <1>1, <1>2, <2>2, ComesKeeps
  <2>4. Push!Rank(names, i) \in Nat /\ Push!Rank(names, i) > n
    BY <1>1, <1>8, <2>2, RankType DEF Ahead
  <2>5. Push!Rank(names, j)' \in Nat
    <3>1. DOMAIN rows' = 1..Len(rows') /\ j \in DOMAIN rows'
      BY <1>1, RowType DEF Push!Named, Push!TypeOK
    <3>2. IsFiniteSet(1..j)
      BY <3>1, FS_Interval
    <3>3. {m \in 1..j : rows'[m].name \in names} \in SUBSET (1..j)
      OBVIOUS
    <3>4. IsFiniteSet({m \in 1..j : rows'[m].name \in names})
      BY <3>2, <3>3, FS_Subset
    <3> QED
      BY <3>4, FS_CardinalityType, Counts DEF Push!Rank
  <2>6. Push!Rank(names, j)' >= Push!Rank(names, i)
    BY <2>1, <2>3
  <2> QED
    BY <2>4, <2>5, <2>6
<1>9. \A other, content : Holding(other, content)
                            => \E i \in Push!Named(other)' : Push!Content(i)' = content
  BY <1>5 DEF Holding
<1>10. \A other, spec : Defined(other, spec) => \E i \in Push!Named(other)' : rows'[i].spec = spec
  BY <1>5 DEF Defined
<1>11. /\ \A other : Push!Named(other) # {} => Push!Named(other)' # {}
       /\ \A other : other # name /\ Push!Named(other) = {} => Push!Named(other)' = {}
  BY <1>5
<1>12. Keeps(name)
  BY <1>8, <1>9, <1>10, <1>11 DEF Keeps
<1> QED
  BY <1>6, <1>7, <1>12

LEMMA InitPush == Push!Init => PushInv
<1> SUFFICES ASSUME Push!Init PROVE PushInv
  OBVIOUS
<1>1. \A name : Push!Named(name) = {}
  BY DEF Push!Init, Push!Named
<1>2. ASSUME NEW h \in Hosts PROVE HostInv(h)
  BY <1>1 DEF Push!Init, HostInv, CatalogInv, IndexInv, PutInv, Ahead, Push!NothingIndexed
<1> QED
  BY <1>1, <1>2, TypeInit DEF PushInv, Once

\* The first place of a listing is 1.
LEMMA AllAhead ==
  ASSUME PushTypeInv, rows' = rows
  PROVE  /\ \A o \in Operators : \A i \in Push!Named(o)' : Push!Rank(Operators, i)' > 0
         /\ \A i \in Push!Named(Catalog)' : Push!Rank(Push!Names, i)' > 0
<1>1. Push!TypeOK
  BY DEF PushTypeInv
<1>2. ASSUME NEW names, NEW name \in names, NEW i \in Push!Named(name)
      PROVE  Push!Rank(names, i) > 0
  <2>1. i \in Push!Listed(names)
    BY DEF Push!Named, Push!Listed
  <2> QED
    BY <1>1, <2>1, RankType
<1>3. Catalog \in Push!Names
  BY DEF Push!Names
<1> QED
  BY <1>2, <1>3, SameRows

\* A push that begins knows nothing, and the rows are all ahead of it.
LEMMA FreshHolds ==
  ASSUME PushTypeInv, PushTypeInv', NEW h \in Hosts, Push!Fresh(h), rows' = rows
  PROVE  HostInv(h)'
<1>1. at'[h] = "catalog" /\ offset'[h] = 0 /\ found'[h] = FALSE
      /\ index'[h] = Push!NothingIndexed /\ todo'[h] = Operators
  BY TypeParts DEF Push!Fresh, HostTypes
<1>2. \A i \in Push!Named(Catalog)' : Push!Rank(Push!Names, i)' > 0
  BY AllAhead
<1>3. CatalogInv(h)'
  BY <1>1, <1>2 DEF CatalogInv, Ahead
<1>4. IndexInv(h)' /\ PutInv(h)'
  BY <1>1 DEF IndexInv, PutInv, Push!NothingIndexed
<1> QED
  BY <1>3, <1>4 DEF HostInv

\* A step of others, or one that a host's state is not touched by.
LEMMA HostKept ==
  ASSUME PushTypeInv, NEW h \in Hosts, HostInv(h), NEW name, Keeps(name),
         name \notin Operators \cup {Catalog},
         UNCHANGED <<cut, manifest, at, offset, found, index, todo>>
  PROVE  HostInv(h)'
<1>1. offset[h] \in Nat /\ todo[h] \subseteq Operators
  <2>1. Push!TypeOK /\ offset[h] \in 0..Len(rows) /\ todo[h] \subseteq Operators
    BY TypeParts DEF PushTypeInv, HostTypes
  <2> QED
    BY <2>1, RowType
<1>2. Operators \subseteq Push!Names /\ Catalog \in Push!Names
  BY DEF Push!Names
<1>3. CatalogInv(h)'
  <2>1. CatalogInv(h)
    BY DEF HostInv
  <2> QED
    BY <1>1, <1>2, <2>1 DEF CatalogInv, Keeps, Ahead
<1>4. IndexInv(h)'
  <2>1. IndexInv(h)
    BY DEF HostInv
  <2>2. ASSUME NEW o \in Operators, Ahead(Operators, o, offset[h])
        PROVE  Ahead(Operators, o, offset[h])'
    BY <1>1, <1>2, <2>2 DEF Keeps, Ahead
  <2>3. ASSUME NEW o \in Operators, Holding(o, index[h][o])
        PROVE  Holding(o, index[h][o])'
    <3>1. PICK content : content = index[h][o]
      OBVIOUS
    <3>2. \E i \in Push!Named(o)' : Push!Content(i)' = content
      BY <2>3, <3>1 DEF Keeps
    <3> QED
      BY <3>1, <3>2 DEF Holding
  <2>4. ASSUME NEW o \in Operators, Push!Named(o) = {} PROVE Push!Named(o)' = {}
    BY <2>4 DEF Keeps
  <2> QED
    BY <1>1, <2>1, <2>2, <2>3, <2>4 DEF IndexInv
<1>5. PutInv(h)'
  <2>1. PutInv(h)
    BY DEF HostInv
  <2>2. ASSUME NEW o \in Operators, Defined(o, manifest[h][o])
        PROVE  Defined(o, manifest[h][o])'
    <3>1. PICK spec : spec = manifest[h][o]
      OBVIOUS
    <3>2. \E i \in Push!Named(o)' : rows'[i].spec = spec
      BY <2>2, <3>1 DEF Keeps
    <3> QED
      BY <3>1, <3>2 DEF Defined
  <2> QED
    BY <2>1, <2>2 DEF PutInv
<1> QED
  BY <1>3, <1>4, <1>5 DEF HostInv

LEMMA PushOthers == ASSUME PushInv, Push!OthersCreate PROVE PushInv'
<1>1. PushTypeInv /\ PushTypeInv' /\ (cut = 0 => Once)
  BY TypeOthers DEF PushInv
<1>2. /\ Other \in Push!Names /\ Push!NoSpec \in Specs \cup {Push!NoSpec}
      /\ Other \notin Operators \cup {Catalog}
  BY PushAssumption DEF Push!Names, Push!OperatorPushAssumption
<1>3. /\ Push!Created(Push!Row(Other, Push!NoSpec))
      /\ UNCHANGED <<cut, manifest, at, offset, found, index, todo>>
  BY DEF Push!OthersCreate
<1>4. Keeps(Other) /\ (cut' = 0 => Once')
  BY <1>1, <1>2, <1>3, NewRow
<1>5. ASSUME NEW h \in Hosts PROVE HostInv(h)'
  BY <1>1, <1>2, <1>3, <1>4, HostKept DEF PushInv
<1> QED
  BY <1>1, <1>4, <1>5 DEF PushInv

\* Once an invariant of one host: the rows are as they were, and the host's own part holds.
LEMMA PushOfHost ==
  ASSUME PushInv, NEW h \in Hosts, Hosts = {h}, PushTypeInv', rows' = rows, HostInv(h)',
         cut' = 0 => cut = 0
  PROVE  PushInv'
BY SameRows DEF PushInv

\* What a page has not: a row of the listing that the scan had ahead, and that is not in the
\* page, is ahead of the next one.
LEMMA PagePasses ==
  ASSUME PushTypeInv, NEW h \in Hosts, NEW names, NEW name \in names,
         NEW page \in Push!Pages(names, offset[h]),
         Ahead(names, name, offset[h]), page.rows \cap Push!Named(name) = {}
  PROVE  /\ ~Push!Ended(page) => Ahead(names, name, Push!Advance(offset[h], page))
         /\ page.rows = Push!Rest(names, offset[h]) => Push!Named(name) = {}
<1>1. Push!TypeOK /\ offset[h] \in 0..Len(rows)
  BY TypeParts DEF PushTypeInv
<1>2. offset[h] \in Nat
  BY <1>1, RowType
<1>3. /\ Cardinality(page.rows) \in Nat
      /\ \A i \in Push!Listed(names) :
           offset[h] < Push!Rank(names, i) /\ i \notin page.rows
             => Push!Rank(names, i) > offset[h] + Cardinality(page.rows)
  BY <1>1, <1>2, PageSize
<1>4. ASSUME NEW i \in Push!Named(name)
      PROVE  /\ i \in Push!Listed(names) /\ i \notin page.rows
             /\ Push!Rank(names, i) \in Nat /\ Push!Rank(names, i) > offset[h]
  <2>1. i \in Push!Listed(names)
    BY DEF Push!Named, Push!Listed
  <2> QED
    BY <1>1, <2>1, RankType DEF Ahead
<1>5. \A i \in Push!Named(name) : Push!Rank(names, i) > offset[h] + Cardinality(page.rows)
  BY <1>2, <1>3, <1>4
<1>6. ~Push!Ended(page) => Ahead(names, name, Push!Advance(offset[h], page))
  BY <1>5, Counts DEF Ahead, Push!Advance
<1>7. page.rows = Push!Rest(names, offset[h]) => Push!Named(name) = {}
  BY <1>2, <1>4 DEF Push!Rest
<1> QED
  BY <1>6, <1>7

\* A scan that ends without having been cut has had the rest of the listing.
LEMMA ScanEnds ==
  ASSUME PushTypeInv, NEW h \in Hosts, NEW names, NEW page, Push!Scans(h, names, page)
  PROVE  /\ cut' = 0 => cut = 0 /\ (Push!Ended(page) => page.rows = Push!Rest(names, offset[h]))
         /\ offset'[h] = Push!Advance(offset[h], page)
         /\ Push!Ended(page) => offset'[h] = 0
<1>1. cut \in Nat /\ offset \in [Hosts -> 0..Len(rows)]
  BY TypeParts DEF HostTypes
<1>2. offset'[h] = Push!Advance(offset[h], page)
  BY <1>1 DEF Push!Scans
<1>3. cut' = 0 => cut = 0 /\ (Push!Ended(page) => page.rows = Push!Rest(names, offset[h]))
  BY <1>1 DEF Push!Scans
<1>4. Push!Ended(page) => offset'[h] = 0
  BY <1>2 DEF Push!Advance
<1> QED
  BY <1>2, <1>3, <1>4

LEMMA PushCatalogPage ==
  ASSUME PushInv, NEW h \in Hosts, Hosts = {h}, Push!CatalogPage(h)
  PROVE  PushInv'
<1>0. PICK page \in Push!Pages(Push!Names, offset[h]) :
        /\ Push!Scans(h, Push!Names, page)
        /\ found' = [found EXCEPT ![h] = Push!Holds(h, page.rows)]
        /\ at' = [at EXCEPT ![h] = IF ~Push!Ended(page) THEN "catalog"
                                   ELSE IF Push!Holds(h, page.rows) THEN "index" ELSE "create"]
  BY DEF Push!CatalogPage
<1> DEFINE W == page.rows
           over == Push!Ended(page)
           holds == Push!Holds(h, W)
           next == Push!Advance(offset[h], page)
<1>1. PushTypeInv /\ PushTypeInv' /\ HostInv(h) /\ rows' = rows
  BY TypeCatalogPage DEF PushInv, Push!CatalogPage
<1>2. /\ at[h] = "catalog" /\ Catalog \in Push!Names /\ HostTypes
      /\ offset[h] \in Nat /\ Push!TypeOK
  <2>1. offset \in [Hosts -> 0..Len(rows)] /\ Push!TypeOK
    BY <1>1, TypeParts DEF PushTypeInv
  <2> QED
    BY <1>1, <2>1, TypeParts, RowType DEF Push!CatalogPage, Push!Names
<1>3. /\ found'[h] = holds
      /\ at'[h] = IF ~over THEN "catalog" ELSE IF holds THEN "index" ELSE "create"
      /\ UNCHANGED <<manifest, index, todo>>
  BY <1>0, <1>2 DEF Push!CatalogPage, HostTypes
<1>4. /\ cut' = 0 => cut = 0 /\ (over => W = Push!Rest(Push!Names, offset[h]))
      /\ offset'[h] = next /\ (over => offset'[h] = 0)
  BY <1>0, <1>1, ScanEnds
<1>5. holds => Push!Named(Catalog) # {}
  <2>1. found[h] => Push!Named(Catalog) # {}
    BY <1>1, <1>2 DEF HostInv, CatalogInv
  <2>2. W \in SUBSET Push!Listed(Push!Names)
    BY <1>2, PageSize
  <2>3. (\E i \in W : rows[i].name = Catalog) => Push!Named(Catalog) # {}
    BY <2>2 DEF Push!Listed, Push!Named
  <2> QED
    BY <2>1, <2>3 DEF Push!Holds
<1>6. ASSUME ~holds, cut' = 0
      PROVE  /\ ~over => Ahead(Push!Names, Catalog, next)
             /\ over => Push!Named(Catalog) = {}
  <2>1. ~found[h] /\ W \cap Push!Named(Catalog) = {}
    BY <1>6 DEF Push!Holds, Push!Named
  <2>2. Ahead(Push!Names, Catalog, offset[h])
    BY <1>1, <1>2, <1>4, <1>6, <2>1 DEF HostInv, CatalogInv
  <2>3. /\ ~over => Ahead(Push!Names, Catalog, next)
        /\ W = Push!Rest(Push!Names, offset[h]) => Push!Named(Catalog) = {}
    BY <1>1, <1>2, <2>1, <2>2, PagePasses
  <2> QED
    BY <1>4, <1>6, <2>3
<1> HIDE DEF W, over, holds, next
<1>7. CatalogInv(h)'
  <2>1. Push!Named(Catalog)' = Push!Named(Catalog)
    BY <1>1, SameRows
  <2>2. cut' = 0 /\ ~over /\ ~holds => Ahead(Push!Names, Catalog, offset[h])'
    <3>1. \A i : Push!Rank(Push!Names, i)' = Push!Rank(Push!Names, i)
      BY <1>1, SameRows
    <3> QED
      BY <1>4, <1>6, <2>1, <3>1 DEF Ahead
  <2> QED
    BY <1>3, <1>4, <1>5, <1>6, <2>1, <2>2 DEF CatalogInv
<1>8. IndexInv(h)'
  <2>1. \A o \in Operators : index'[h][o] = Push!NotStored
    BY <1>1, <1>2, <1>3 DEF HostInv, IndexInv
  <2>2. todo'[h] = Operators
    BY <1>1, <1>2, <1>3 DEF HostInv, IndexInv
  <2>3. at'[h] = "index" => offset'[h] = 0
    BY <1>3, <1>4
  <2>4. \A o \in Operators : \A i \in Push!Named(o)' : Push!Rank(Operators, i)' > 0
    BY <1>1, AllAhead
  <2>5. at'[h] # "put"
    BY <1>3
  <2> QED
    BY <2>1, <2>2, <2>3, <2>4, <2>5 DEF IndexInv, Ahead
<1>9. PutInv(h)'
  BY <1>3 DEF PutInv
<1> QED
  BY <1>1, <1>4, <1>7, <1>8, <1>9, PushOfHost DEF HostInv

LEMMA PushStalls == ASSUME PushInv, Push!Stalls PROVE PushInv'
<1>1. PushTypeInv /\ PushTypeInv' /\ rows' = rows
  BY TypeStalls DEF PushInv, Push!Stalls
<1>2. Keeps(Other) /\ Other \notin Operators \cup {Catalog}
  BY <1>1, SameRows, PushAssumption DEF Keeps, Ahead, Holding, Defined, Push!OperatorPushAssumption
<1>3. ASSUME NEW h \in Hosts PROVE HostInv(h)'
  BY <1>1, <1>2, HostKept DEF PushInv, Push!Stalls
<1> QED
  BY <1>1, <1>3, SameRows DEF PushInv, Push!Stalls

LEMMA PushFails ==
  ASSUME PushInv, NEW h \in Hosts, Hosts = {h}, Push!Fails(h)
  PROVE  PushInv'
<1>1. PushTypeInv /\ PushTypeInv' /\ rows' = rows /\ cut' = cut
  BY TypeFails DEF PushInv, Push!Fails
<1>2. at'[h] = "backoff"
  BY <1>1, TypeParts DEF Push!Fails, HostTypes
<1>3. HostInv(h)'
  BY <1>2 DEF HostInv, CatalogInv, IndexInv, PutInv
<1> QED
  BY <1>1, <1>3, PushOfHost

LEMMA PushRetry ==
  ASSUME PushInv, NEW h \in Hosts, Hosts = {h}, Push!Retry(h)
  PROVE  PushInv'
<1>1. PushTypeInv /\ PushTypeInv' /\ rows' = rows /\ cut' = cut
  BY TypeRetry DEF PushInv, Push!Retry
<1>2. CASE at' = [at EXCEPT ![h] = "gaveUp"]
  <2>1. at'[h] = "gaveUp"
    BY <1>1, <1>2, TypeParts DEF HostTypes
  <2>2. HostInv(h)'
    BY <2>1 DEF HostInv, CatalogInv, IndexInv, PutInv
  <2> QED
    BY <1>1, <2>2, PushOfHost
<1>3. CASE Push!Fresh(h)
  BY <1>1, <1>3, FreshHolds, PushOfHost
<1> QED
  BY <1>2, <1>3 DEF Push!Retry

LEMMA PushDeploy ==
  ASSUME PushInv, NEW h \in Hosts, Hosts = {h}, NEW build \in [Operators -> Specs],
         Push!Deploy(h, build)
  PROVE  PushInv'
<1>1. PushTypeInv /\ PushTypeInv' /\ rows' = rows /\ Push!Fresh(h) /\ cut' = cut
  BY TypeDeploy DEF PushInv, Push!Deploy
<1> QED
  BY <1>1, FreshHolds, PushOfHost

LEMMA PushStays == ASSUME PushInv, UNCHANGED Push!vars PROVE PushInv'
<1>1. PushTypeInv' /\ rows' = rows
  BY TypeNext DEF PushInv, Push!vars
<1>2. Keeps(Other) /\ Other \notin Operators \cup {Catalog}
  BY <1>1, SameRows, PushAssumption DEF Keeps, Ahead, Holding, Defined, Push!OperatorPushAssumption
<1>3. ASSUME NEW h \in Hosts PROVE HostInv(h)'
  BY <1>2, HostKept DEF PushInv, Push!vars
<1> QED
  BY <1>1, <1>3, SameRows DEF PushInv, Push!vars

LEMMA PushCreateCatalog ==
  ASSUME PushInv, NEW h \in Hosts, Hosts = {h}, Push!CreateCatalog(h)
  PROVE  PushInv'
<1>1. PushTypeInv /\ PushTypeInv' /\ HostInv(h) /\ (cut = 0 => Once)
  BY TypeCreateCatalog DEF PushInv
<1>2. /\ at[h] = "create" /\ Push!Created(Push!Row(Catalog, Push!NoSpec))
      /\ UNCHANGED <<cut, manifest, offset, found, index, todo>>
      /\ Catalog \in Push!Names /\ Push!NoSpec \in Specs \cup {Push!NoSpec}
      /\ Catalog \notin Operators
      /\ Operators \subseteq Push!Names
  BY PushAssumption DEF Push!CreateCatalog, Push!Names, Push!OperatorPushAssumption
<1>3. at'[h] \in {"index", "backoff"}
  BY <1>1, TypeParts DEF Push!CreateCatalog, HostTypes
<1>4. (cut = 0 => Push!Named(Catalog) = {}) /\ offset[h] = 0
  BY <1>1, <1>2 DEF HostInv, CatalogInv
<1>5. Keeps(Catalog) /\ (cut' = 0 => Once') /\ Push!Named(Catalog)' # {}
  BY <1>1, <1>2, <1>4, NewRow
<1>6. CatalogInv(h)'
  BY <1>3, <1>5 DEF CatalogInv
<1>7. IndexInv(h)'
  <2>1. (\A o \in Operators : index'[h][o] = Push!NotStored) /\ todo'[h] = Operators
    BY <1>1, <1>2 DEF HostInv, IndexInv
  <2>2. ASSUME NEW o \in Operators PROVE Ahead(Operators, o, offset[h])'
    <3>1. Ahead(Operators, o, 0)
      <4>1. Push!TypeOK
        BY <1>1 DEF PushTypeInv
      <4>2. \A i \in Push!Named(o) : i \in Push!Listed(Operators)
        BY DEF Push!Named, Push!Listed
      <4> QED
        BY <4>1, <4>2, RankType DEF Ahead
    <3>2. \A i \in Push!Named(o)' : Push!Rank(Operators, i)' > 0
      BY <1>2, <1>5, <3>1 DEF Keeps
    <3> QED
      BY <1>2, <1>4, <3>2 DEF Ahead
  <2> QED
    BY <1>3, <2>1, <2>2 DEF IndexInv
<1>8. PutInv(h)'
  BY <1>3 DEF PutInv
<1> QED
  BY <1>1, <1>5, <1>6, <1>7, <1>8 DEF PushInv, HostInv

LEMMA PushIndexPage ==
  ASSUME PushInv, NEW h \in Hosts, Hosts = {h}, Push!IndexPage(h)
  PROVE  PushInv'
<1>0. PICK page \in Push!Pages(Operators, offset[h]) :
        /\ Push!Scans(h, Operators, page)
        /\ index' = [index EXCEPT ![h] = Push!Indexed(h, page.rows)]
        /\ at' = [at EXCEPT ![h] = IF Push!Ended(page) THEN "put" ELSE "index"]
  BY DEF Push!IndexPage
<1> DEFINE W == page.rows
           over == Push!Ended(page)
           indexed == Push!Indexed(h, W)
           next == Push!Advance(offset[h], page)
<1>1. PushTypeInv /\ PushTypeInv' /\ HostInv(h) /\ rows' = rows /\ Push!TypeOK
  BY TypeIndexPage DEF PushInv, Push!IndexPage, PushTypeInv
<1>2. at[h] = "index" /\ HostTypes /\ offset \in [Hosts -> 0..Len(rows)]
  BY <1>1, TypeParts DEF Push!IndexPage
<1>3. /\ index'[h] = indexed
      /\ at'[h] = IF over THEN "put" ELSE "index"
      /\ UNCHANGED <<manifest, found, todo>> /\ todo[h] = Operators
      /\ cut' = 0 => cut = 0 /\ (over => W = Push!Rest(Operators, offset[h]))
      /\ offset'[h] = next
  <2>1. /\ cut' = 0 => cut = 0 /\ (over => W = Push!Rest(Operators, offset[h]))
        /\ offset'[h] = next
    BY <1>0, <1>1, ScanEnds
  <2> QED
    BY <1>0, <1>1, <1>2, <2>1 DEF Push!IndexPage, HostTypes, HostInv, IndexInv
<1>4. ASSUME NEW o \in Operators
      PROVE  indexed[o] = Push!NotStored \/ Holding(o, indexed[o])
  <2>1. CASE W \cap Push!Named(o) # {}
    <3>1. W \cap Push!Named(o) \in SUBSET (1..Len(rows)) /\ Len(rows) \in Nat
      BY <1>1, RowType DEF Push!Named
    <3>2. Push!Latest(W \cap Push!Named(o)) \in Push!Named(o)
      BY <2>1, <3>1, LatestIsOne
    <3>3. indexed[o] = Push!Content(Push!Latest(W \cap Push!Named(o)))
      BY <2>1 DEF Push!Indexed
    <3> QED
      BY <3>2, <3>3 DEF Holding
  <2>2. CASE W \cap Push!Named(o) = {}
    <3>1. indexed[o] = index[h][o]
      BY <2>2 DEF Push!Indexed
    <3> QED
      BY <1>1, <1>2, <1>3, <3>1 DEF HostInv, IndexInv
  <2> QED
    BY <2>1, <2>2
<1>5. ASSUME NEW o \in Operators, indexed[o] = Push!NotStored
      PROVE  W \cap Push!Named(o) = {} /\ index[h][o] = Push!NotStored
  <2>1. W \cap Push!Named(o) = {}
    <3> SUFFICES ASSUME W \cap Push!Named(o) # {} PROVE FALSE
      OBVIOUS
    <3>1. W \cap Push!Named(o) \in SUBSET (1..Len(rows)) /\ Len(rows) \in Nat
      BY <1>1, RowType DEF Push!Named
    <3>2. Push!Latest(W \cap Push!Named(o)) \in 1..Len(rows)
      BY <3>1, LatestIsOne
    <3>3. indexed[o] = Push!Content(Push!Latest(W \cap Push!Named(o)))
      BY DEF Push!Indexed
    <3>4. indexed[o].id # 0
      BY <1>1, <3>2, <3>3, RowType DEF Push!Content
    <3> QED
      BY <1>5, <3>4 DEF Push!NotStored
  <2> QED
    BY <1>5, <2>1 DEF Push!Indexed
<1>6. ASSUME NEW o \in Operators, indexed[o] = Push!NotStored, cut' = 0
      PROVE  /\ ~over => Ahead(Operators, o, next)
             /\ over => Push!Named(o) = {}
  <2>1. Ahead(Operators, o, offset[h]) /\ W \cap Push!Named(o) = {}
    BY <1>1, <1>2, <1>3, <1>5, <1>6 DEF HostInv, IndexInv
  <2>2. /\ ~over => Ahead(Operators, o, next)
        /\ W = Push!Rest(Operators, offset[h]) => Push!Named(o) = {}
    BY <1>1, <2>1, PagePasses
  <2> QED
    BY <1>3, <1>6, <2>2
<1> HIDE DEF W, over, indexed, next
<1>7. CatalogInv(h)'
  <2>1. Push!Named(Catalog)' # {}
    BY <1>1, <1>2, SameRows DEF HostInv, CatalogInv
  <2> QED
    BY <1>3, <2>1 DEF CatalogInv
<1>8. IndexInv(h)'
  <2>1. ASSUME NEW o \in Operators PROVE index'[h][o] = Push!NotStored \/ Holding(o, index[h][o])'
    <3>1. CASE indexed[o] = Push!NotStored
      BY <1>3, <3>1
    <3>2. CASE Holding(o, indexed[o])
      <4>1. Push!Named(o)' = Push!Named(o) /\ \A i : Push!Content(i)' = Push!Content(i)
        BY <1>1, SameRows
      <4> QED
        BY <1>3, <3>2, <4>1 DEF Holding
    <3> QED
      BY <1>4, <3>1, <3>2
  <2>2. ASSUME NEW o \in Operators, index'[h][o] = Push!NotStored, ~over, cut' = 0
        PROVE  Ahead(Operators, o, offset[h])'
    <3>1. Ahead(Operators, o, next) /\ offset'[h] = next
      BY <1>3, <1>6, <2>2
    <3>2. /\ Push!Named(o)' = Push!Named(o)
          /\ \A i : Push!Rank(Operators, i)' = Push!Rank(Operators, i)
      BY <1>1, SameRows
    <3> QED
      BY <3>1, <3>2 DEF Ahead
  <2>3. ASSUME NEW o \in Operators, index'[h][o] = Push!NotStored, over, cut' = 0
        PROVE  Push!Named(o)' = {}
    BY <1>1, <1>3, <1>6, <2>3, SameRows
  <2>4. todo'[h] = Operators /\ at'[h] = IF over THEN "put" ELSE "index"
    BY <1>3
  <2> QED
    BY <2>1, <2>2, <2>3, <2>4 DEF IndexInv
<1>9. PutInv(h)'
  BY <1>3 DEF PutInv
<1> QED
  BY <1>1, <1>3, <1>7, <1>8, <1>9, PushOfHost DEF HostInv

\* What follows a write of o's definition, or the finding that it needs none: the other rows
\* are kept, o is stored as the build defines it.
LEMMA PushWritten ==
  ASSUME PushInv, NEW h \in Hosts, Hosts = {h}, NEW o \in Operators, o \in todo[h],
         PushTypeInv', at[h] = "put", Push!PutDone(h, o) \/ Push!Raised(h), Keeps(o),
         cut = 0 => Once',
         \E i \in Push!Named(o)' : rows'[i].spec = manifest[h][o],
         UNCHANGED <<cut, manifest, offset, found, index>>
  PROVE  PushInv'
<1>1. PushTypeInv /\ HostInv(h) /\ HostTypes
  BY TypeParts DEF PushInv
<1>2. CASE Push!Raised(h)
  <2>1. at'[h] = "backoff"
    BY <1>1, <1>2 DEF Push!Raised, HostTypes
  <2>2. HostInv(h)'
    BY <2>1 DEF HostInv, CatalogInv, IndexInv, PutInv
  <2> QED
    BY <2>2 DEF PushInv
<1>3. CASE Push!PutDone(h, o)
  <2>1. /\ todo'[h] = todo[h] \ {o}
        /\ at'[h] = IF todo'[h] = {} THEN "done" ELSE "put"
    BY <1>1, <1>3 DEF Push!PutDone, HostTypes
  <2>2. todo[h] \subseteq Operators
    BY <1>1 DEF HostTypes
  <2>3. CatalogInv(h)'
    <3>1. Push!Named(Catalog)' # {}
      BY <1>1 DEF HostInv, CatalogInv, Keeps
    <3> QED
      BY <2>1, <3>1 DEF CatalogInv
  <2>4. IndexInv(h)'
    <3>1. ASSUME NEW x \in todo'[h] PROVE index'[h][x] = Push!NotStored \/ Holding(x, index[h][x])'
      <4>1. x \in todo[h] /\ x # o
        BY <2>1
      <4>2. index[h][x] = Push!NotStored \/ Holding(x, index[h][x])
        BY <1>1, <4>1 DEF HostInv, IndexInv
      <4>3. ASSUME Holding(x, index[h][x]) PROVE Holding(x, index[h][x])'
        <5>1. PICK content : content = index[h][x]
          OBVIOUS
        <5>2. \E i \in Push!Named(x)' : Push!Content(i)' = content
          BY <4>1, <4>3, <5>1 DEF Keeps
        <5> QED
          BY <5>1, <5>2 DEF Holding
      <4> QED
        BY <4>2, <4>3
    <3>2. ASSUME NEW x \in todo'[h], index'[h][x] = Push!NotStored, cut' = 0 PROVE Push!Named(x)' = {}
      <4>1. x \in todo[h] /\ x # o /\ Push!Named(x) = {}
        BY <1>1, <2>1, <3>2 DEF HostInv, IndexInv
      <4> QED
        BY <4>1 DEF Keeps
    <3> QED
      BY <2>1, <3>1, <3>2 DEF IndexInv
  <2>5. PutInv(h)'
    <3>1. ASSUME NEW x \in Operators \ todo'[h] PROVE Defined(x, manifest[h][x])'
      <4>1. CASE x = o
        BY <4>1 DEF Defined
      <4>2. CASE x # o
        <5>1. PICK spec : spec = manifest[h][x]
          OBVIOUS
        <5>2. x \in Operators \ todo[h] /\ Defined(x, spec)
          BY <1>1, <2>1, <4>2, <5>1 DEF HostInv, PutInv
        <5>3. \E i \in Push!Named(x)' : rows'[i].spec = spec
          BY <4>2, <5>2 DEF Keeps
        <5> QED
          BY <5>1, <5>3 DEF Defined
      <4> QED
        BY <4>1, <4>2
    <3> QED
      BY <2>1, <3>1 DEF PutInv
  <2> QED
    BY <2>3, <2>4, <2>5 DEF PushInv, HostInv
<1> QED
  BY <1>2, <1>3

LEMMA PushPut ==
  ASSUME PushInv, NEW h \in Hosts, Hosts = {h}, NEW o \in Operators, Push!Put(h, o)
  PROVE  PushInv'
<1>1. PushTypeInv /\ PushTypeInv' /\ HostInv(h) /\ (cut = 0 => Once) /\ Push!TypeOK /\ HostTypes
  BY TypePut, TypeParts DEF PushInv, PushTypeInv
<1>2. at[h] = "put" /\ o \in todo[h] /\ (Push!PutDone(h, o) \/ Push!Raised(h))
      /\ UNCHANGED <<cut, manifest, offset, found, index>>
  BY DEF Push!Put
<1>3. PICK spec \in Specs : spec = manifest[h][o]
  BY <1>1 DEF HostTypes
<1>4. SUFFICES Keeps(o) /\ (cut = 0 => Once') /\ \E i \in Push!Named(o)' : rows'[i].spec = spec
  BY <1>1, <1>2, <1>3, PushWritten
<1>5. index[h][o] = Push!NotStored \/ Holding(o, index[h][o])
  BY <1>1, <1>2 DEF HostInv, IndexInv
<1>6. CASE index[h][o] = Push!NotStored /\ Push!Created(Push!Row(o, manifest[h][o]))
  <2>1. cut = 0 => Push!Named(o) = {}
    BY <1>1, <1>2, <1>6 DEF HostInv, IndexInv
  <2> QED
    BY <1>1, <1>3, <1>6, <2>1, NewRow DEF Push!Names
<1>7. CASE index[h][o] # Push!NotStored /\ rows' = Patched(index[h][o].id, manifest[h][o])
  <2>1. PICK i \in Push!Named(o) : Push!Content(i) = index[h][o]
    BY <1>5, <1>7 DEF Holding
  <2>2. i \in 1..Len(rows) /\ rows[i].name = o /\ rows[i].id = index[h][o].id
    BY <1>1, <2>1, RowType DEF Push!Named, Push!Content
  <2>3. rows' = Patched(rows[i].id, spec)
    BY <1>3, <1>7, <2>2
  <2>4. /\ Len(rows') = Len(rows) /\ rows' \in Seq(Push!Rows)
        /\ \A j \in 1..Len(rows) : /\ rows'[j].name = rows[j].name
                                   /\ rows[j].id = rows[i].id => rows'[j].spec = spec
                                   /\ rows[j].id # rows[i].id => rows'[j] = rows[j]
    BY <1>1, <2>3, PatchedRows
  <2>5. DOMAIN rows = 1..Len(rows) /\ DOMAIN rows' = 1..Len(rows)
    BY <1>1, <2>4, RowType
  <2>6. \A name : Push!Named(name)' = Push!Named(name)
    BY <2>4, <2>5 DEF Push!Named
  <2>7. cut = 0 => Once'
    BY <1>1, <2>6 DEF Once
  <2>8. \A j \in 1..Len(rows) : rows[j].name # o => rows'[j] = rows[j]
    BY <1>1, <2>2, <2>4, RowType
  <2>9. ASSUME NEW other, other # o, NEW j \in Push!Named(other)
        PROVE  rows'[j] = rows[j] /\ Push!Content(j)' = Push!Content(j)
    BY <2>5, <2>8, <2>9 DEF Push!Named, Push!Content
  <2>10. ASSUME NEW names, NEW other, other \in names, NEW j \in Push!Named(other)
         PROVE  Push!Rank(names, j)' = Push!Rank(names, j)
    <3>1. j \in 1..Len(rows) /\ Len(rows) \in Nat
      BY <1>1, <2>5, <2>10, RowType DEF Push!Named
    <3>2. \A k \in 1..j : rows'[k].name = rows[k].name
      BY <2>4, <3>1
    <3>3. {k \in 1..j : rows'[k].name \in names} = {k \in 1..j : rows[k].name \in names}
      BY <3>2
    <3> QED
      BY <3>3 DEF Push!Rank
  <2>11. Keeps(o)
    BY <2>6, <2>9, <2>10 DEF Keeps, Ahead, Holding, Defined
  <2> QED
    BY <2>1, <2>2, <2>4, <2>6, <2>7, <2>11
<1>8. CASE index[h][o] # Push!NotStored /\ ~Push!Changed(h, o) /\ UNCHANGED rows
  <2>1. PICK i \in Push!Named(o) : Push!Content(i) = index[h][o]
    BY <1>5, <1>8 DEF Holding
  <2>2. rows[i].spec = spec
    BY <1>3, <1>8, <2>1 DEF Push!Changed, Push!Content
  <2>3. Keeps(o) /\ (cut = 0 => Once') /\ Push!Named(o)' = Push!Named(o)
    BY <1>1, <1>8, SameRows DEF Keeps, Ahead, Holding, Defined
  <2> QED
    BY <1>8, <2>1, <2>2, <2>3
<1> QED
  BY <1>6, <1>7, <1>8 DEF Push!Put, Patched

LEMMA PushNext ==
  ASSUME NEW h \in Hosts, Hosts = {h}
  PROVE  PushInv /\ [Push!Next]_(Push!vars) => PushInv'
<1>1. ASSUME PushInv, Push!PushStep(h) PROVE PushInv'
  BY <1>1, PushCatalogPage, PushCreateCatalog, PushIndexPage, PushPut, PushRetry DEF Push!PushStep
<1>2. ASSUME PushInv, Push!Next PROVE PushInv'
  <2>1. CASE Push!OthersCreate
    BY <1>2, <2>1, PushOthers
  <2>3. CASE Push!Stalls
    BY <1>2, <2>3, PushStalls
  <2>2. CASE \/ Push!PushStep(h) \/ Push!Fails(h)
             \/ \E build \in [Operators -> Specs] : Push!Deploy(h, build)
    BY <1>1, <1>2, <2>2, PushFails, PushDeploy
  <2> QED
    BY <1>2, <2>1, <2>2, <2>3 DEF Push!Next
<1> QED
  BY <1>2, PushStays

\* Rows that are all one are at most one.
LEMMA PushInvSays == PushInv => Push!StoredOnce /\ Push!PushedIsStored
<1> SUFFICES ASSUME PushInv PROVE Push!StoredOnce /\ Push!PushedIsStored
  OBVIOUS
<1>1. ASSUME cut = 0, NEW name \in Operators \cup {Catalog}
      PROVE  Cardinality(Push!Named(name)) <= 1
  <2>1. CASE Push!Named(name) = {}
    BY <2>1, FS_EmptySet
  <2>2. CASE Push!Named(name) # {}
    <3>1. PICK i \in Push!Named(name) : Push!Named(name) = {i}
      BY <1>1, <2>2 DEF PushInv, Once
    <3>2. Cardinality({i}) = 1
      BY FS_Singleton
    <3> QED
      BY <3>1, <3>2
  <2> QED
    BY <2>1, <2>2
<1>2. ASSUME NEW h \in Hosts, at[h] = "done"
      PROVE  /\ Push!Named(Catalog) # {}
             /\ \A o \in Operators : \E i \in Push!Named(o) : rows[i].spec = manifest[h][o]
  <2>1. HostInv(h)
    BY DEF PushInv
  <2>2. Push!Named(Catalog) # {}
    BY <1>2, <2>1 DEF HostInv, CatalogInv
  <2>3. \A o \in Operators : Defined(o, manifest[h][o])
    BY <1>2, <2>1 DEF HostInv, PutInv
  <2> QED
    BY <2>2, <2>3 DEF Defined
<1> QED
  BY <1>1, <1>2, Counts DEF Push!StoredOnce, Push!PushedIsStored

----------------------------------------------------------------------------
(* The crystal *)

LEMMA SameFrames ==
  /\ C!Frames = Crystal!Frames /\ C!Members = Crystal!Members
  /\ C!Energies = Crystal!Energies /\ C!Entries = Crystal!Entries
  /\ C!NotSplit = Crystal!NotSplit /\ C!NothingGot = Crystal!NothingGot
  /\ C!NotMade = Crystal!NotMade /\ C!Screen = Crystal!Screen /\ C!Anew = Crystal!Anew
  /\ C!CanScreen <=> Crystal!CanScreen
  /\ \A frame : C!Energy(frame) = Crystal!Energy(frame)
  /\ \A entry, surface : C!Convert(entry, surface) = Crystal!Convert(entry, surface)
<1>1. C!Frames = Crystal!Frames /\ C!Members = Crystal!Members /\ C!Entries = Crystal!Entries
  BY DEF C!Frames, Crystal!Frames, C!Members, Crystal!Members, C!Entries, Crystal!Entries
<1>2. C!Energies = Crystal!Energies
  BY Counts DEF C!Energies, Crystal!Energies
<1>3. C!NotSplit = Crystal!NotSplit /\ C!NothingGot = Crystal!NothingGot /\ C!Anew = Crystal!Anew
  BY DEF C!NotSplit, Crystal!NotSplit, C!NothingGot, Crystal!NothingGot, C!Anew, Crystal!Anew
<1>4. C!NotMade = Crystal!NotMade
  BY DEF C!NotMade, Crystal!NotMade
<1>5. C!Screen = Crystal!Screen /\ (C!CanScreen <=> Crystal!CanScreen)
  BY DEF C!Screen, Crystal!Screen, C!CanScreen, Crystal!CanScreen
<1>6. \A frame : C!Energy(frame) = Crystal!Energy(frame)
  BY Counts DEF C!Energy, Crystal!Energy
<1>7. \A entry, surface : C!Convert(entry, surface) = Crystal!Convert(entry, surface)
  BY DEF C!Convert, Crystal!Convert
<1> QED
  BY <1>1, <1>2, <1>3, <1>4, <1>5, <1>6, <1>7

LEMMA SameBindings ==
  /\ C!Bindings = Crystal!Bindings
  /\ \A f, entry : C!Registered(f, entry) = Crystal!Registered(f, entry)
BY SameFrames DEF C!Bindings, Crystal!Bindings, C!Registered, Crystal!Registered

LEMMA SameCrossings ==
  /\ C!CanCross <=> Crystal!CanCross
  /\ C!Crossings = Crystal!Crossings
  /\ C!Crossing <=> Crystal!Crossing
<1>1. C!CanCross <=> Crystal!CanCross
  BY DEF C!CanCross, Crystal!CanCross
<1>2. C!Crossings = Crystal!Crossings
  BY SameFrames DEF C!Crossings, Crystal!Crossings
<1> QED
  BY <1>1, <1>2 DEF C!Crossing, Crystal!Crossing

LEMMA SameAnswers ==
  /\ \A crossing : C!Energy(C!Condensed(crossing)) = Crystal!Energy(Crystal!Condensed(crossing))
  /\ \A crossing :
       C!Energy(C!Transmitted(crossing)) = Crystal!Energy(Crystal!Transmitted(crossing))
  /\ \A crossing : C!Account(crossing) = Crystal!Account(crossing)
<1>1. \A crossing : C!Condensed(crossing) = Crystal!Condensed(crossing)
  BY DEF C!Condensed, Crystal!Condensed
<1>2. \A crossing : C!Transmitted(crossing) = Crystal!Transmitted(crossing)
  BY DEF C!Transmitted, Crystal!Transmitted
<1>3. \A crossing : C!Account(crossing) = Crystal!Account(crossing)
  BY SameFrames DEF C!Account, Crystal!Account
<1> QED
  BY <1>1, <1>2, <1>3, SameFrames

LEMMA SameCalls ==
  /\ Crystal!Condense => C!Condense
  /\ Crystal!Transmit => C!Transmit
  /\ Crystal!Ledger => C!Ledger
  /\ Crystal!Certificate => C!Certificate
<1>1. Crystal!Condense => C!Condense
  <2>1. C!Energy(C!Condensed(split')) = Crystal!Energy(Crystal!Condensed(split'))
    BY SameAnswers
  <2> QED
    BY <2>1, SameCrossings DEF C!Condense, Crystal!Condense
<1>2. Crystal!Transmit => C!Transmit
  <2>1. C!Energy(C!Transmitted(split')) = Crystal!Energy(Crystal!Transmitted(split'))
    BY SameAnswers
  <2> QED
    BY <2>1, SameCrossings DEF C!Transmit, Crystal!Transmit
<1>3. \A members : Crystal!Tell(members) => C!Tell(members)
  <2>1. C!Account(split') = Crystal!Account(split')
    BY SameAnswers
  <2> QED
    BY <2>1, SameCrossings DEF C!Tell, Crystal!Tell
<1> QED
  BY <1>3, <1>1, <1>2 DEF C!Ledger, Crystal!Ledger, C!Certificate, Crystal!Certificate

LEMMA SameNext == [Crystal!Next]_(Crystal!vars) => [C!Next]_(C!vars)
<1>1. \A f, entry : Crystal!Bind(f, entry) => C!Bind(f, entry)
  BY SameFrames, SameBindings DEF C!Bind, Crystal!Bind
<1>2. \A F : Crystal!Clear(F) => C!Clear(F)
  BY SameFrames DEF C!Clear, Crystal!Clear
<1>3. \A f, surface : Crystal!Conduct(f, surface) => C!Conduct(f, surface)
  BY SameFrames DEF C!Conduct, Crystal!Conduct
<1>4. Crystal!Measure => C!Measure
  BY SameFrames DEF C!Measure, Crystal!Measure
<1>5. Crystal!Next => C!Next
  BY <1>1, <1>2, <1>3, <1>4, SameCalls, SameFrames, SameBindings DEF C!Next, Crystal!Next
<1> QED
  BY <1>5 DEF C!vars, Crystal!vars

LEMMA SameInit == Crystal!Init => C!Init
BY SameFrames DEF C!Init, Crystal!Init

LEMMA SameSpec == Crystal!Spec => C!Spec
BY SameInit, SameNext, PTL DEF C!Spec, Crystal!Spec

\* The instrument of the run answers every frame that has energy.
LEMMA SameAssumption == C!AnswersAll /\ C!CrystalFlowAssumption
<1>1. C!CrystalFlowAssumption
  BY CrystalAssumption, Counts, SameFrames
     DEF C!CrystalFlowAssumption, Crystal!CrystalFlowAssumption
<1> QED
  BY <1>1 DEF C!AnswersAll

LEMMA SameProperties ==
  /\ C!TypeOK => Crystal!TypeOK
  /\ C!BeamAccounted => BeamAccounted
  /\ C!ScreenHears => ScreenHears
<1>1. C!TypeOK => Crystal!TypeOK
  BY SameFrames, SameBindings DEF C!TypeOK, Crystal!TypeOK
<1>2. C!BeamAccounted => BeamAccounted
  BY SameFrames DEF C!BeamAccounted, Crystal!BeamAccounted, BeamAccounted
<1>3. C!ScreenHears => ScreenHears
  BY DEF C!ScreenHears, Crystal!ScreenHears, ScreenHears
<1> QED
  BY <1>1, <1>2, <1>3

----------------------------------------------------------------------------
(* All three *)

\* A step of the run is one of each side, or none of it.
LEMMA SidesStep ==
  ASSUME [CallsNext]_<<side, vars, pushVars, crystalVars>>
  PROVE  [Next]_vars /\ [Push!Next]_(Push!vars) /\ [Crystal!Next]_(Crystal!vars)
<1>1. UNCHANGED pushVars => UNCHANGED Push!vars
  BY DEF pushVars, Push!vars
<1>2. UNCHANGED crystalVars => UNCHANGED Crystal!vars
  BY DEF crystalVars, Crystal!vars
<1>3. CASE UNCHANGED <<side, vars, pushVars, crystalVars>>
  BY <1>1, <1>2, <1>3
<1>4. CASE CallsNext
  BY <1>1, <1>2, <1>4 DEF CallsNext
<1> QED
  BY <1>3, <1>4

\* What each side promises holds of the run, which has all three.
LEMMA SidesHold == CallsSpec => Spec /\ Push!Spec /\ Crystal!Spec
<1>1. CallsInit => Init /\ Push!Init /\ Crystal!Init
  BY DEF CallsInit
<1>2. [CallsNext]_<<side, vars, pushVars, crystalVars>>
        => [Next]_vars /\ [Push!Next]_(Push!vars) /\ [Crystal!Next]_(Crystal!vars)
  BY SidesStep
<1> QED
  BY <1>1, <1>2, PTL DEF CallsSpec, Spec, Push!Spec, Crystal!Spec

\* Type correctness of the relay, of the push for any number of hosts, and of the crystal.
THEOREM CallsTypesOK == CallsSpec => []TypesOK
<1>1. Push!Spec => []PushTypeInv
  BY TypeInit, TypeNext, PTL DEF Push!Spec
<1>2. Crystal!Spec => []C!TypeOK
  BY SameSpec, SameAssumption, C!CrystalTypeOK, PTL
<1>3. TypeOK /\ PushTypeInv /\ C!TypeOK => TypesOK
  BY SameProperties DEF TypesOK, PushTypeInv
<1> QED
  BY <1>1, <1>2, <1>3, SidesHold, RelayTypeOK, PTL

\* What is proved of a push holds of the run, if one host pushes.
LEMMA OneHostHolds ==
  ASSUME NEW h \in Hosts, Hosts = {h}
  PROVE  CallsSpec => []PushInv
<1>1. Push!Spec => []PushInv
  BY InitPush, PushNext, PTL DEF Push!Spec
<1> QED
  BY <1>1, SidesHold, PTL

\* A host that is the only one to push stores every operator and the catalog once, whatever
\* answers are lost, however short the pages, in whatever order Mantle lists and others
\* create, and however often the host is restarted; unless a page with no rows cut a scan.
THEOREM OneHostStoresOnce ==
  ASSUME NEW h \in Hosts, Hosts = {h}
  PROVE  CallsSpec => []StoredOnce
<1>1. PushInv => StoredOnce
  BY PushInvSays DEF StoredOnce
<1> QED
  BY <1>1, OneHostHolds, PTL

\* A push that reports success has stored every operator as the build defines it, beside a
\* catalog, under the same condition.
THEOREM OneHostStoresAll ==
  ASSUME NEW h \in Hosts, Hosts = {h}
  PROVE  CallsSpec => []PushedIsStored
<1>1. PushInv => PushedIsStored
  BY PushInvSays DEF PushedIsStored
<1> QED
  BY <1>1, OneHostHolds, PTL

\* The beam is accounted for as a whole, for any facets and bands.
THEOREM CallsAccountBeam == CallsSpec => []BeamAccounted
<1>1. Crystal!Spec => []C!BeamAccounted
  BY SameSpec, SameAssumption, C!BeamAlwaysAccounted, PTL
<1> QED
  BY <1>1, SameProperties, SidesHold, PTL

\* The screen holds the beam that is accounted for, for any facets and bands.
THEOREM CallsScreenHears == CallsSpec => []ScreenHears
<1>1. Crystal!Spec => []C!ScreenHears
  BY SameSpec, SameAssumption, C!ScreenAlwaysHears, PTL
<1> QED
  BY <1>1, SameProperties, SidesHold, PTL
=============================================================================
