------------------------------- MODULE Relay -------------------------------
(***************************************************************************)
(* The relay: a user's desktop holds a WebSocket to the host, and an MCP   *)
(* request for a relay server is forwarded over it and answered on it      *)
(* (relay_manager.py, the socket loop of host.py, _proxy_via_relay of      *)
(* gateway_middleware.py).                                                 *)
(*                                                                         *)
(* Everything runs on one asyncio loop: an action is what one task does    *)
(* between two awaits.  A request's task stops at two places, in           *)
(* websocket.send_json ("sending") and in wait_for ("awaiting"); a         *)
(* session's task stops in websocket.accept and in receive_json.           *)
(***************************************************************************)
EXTENDS FiniteSets

CONSTANTS
  Users,      \* verified `sub`s
  Sessions,   \* session ids (uuid4: each is used once)
  Requests,   \* request ids (uuid4: each is used once)
  NoUser, NoSession

ASSUME RelayAssumption ==
  /\ NoUser \notin Users
  /\ NoSession \notin Sessions

VARIABLES
  socket,      \* socket[s]: the WebSocket of s, as the two ends made it
  user,        \* user[s]: RelaySession.user_id
  registered,  \* the keys of RelayManager._sessions
  byUser,      \* RelayManager._sessions_by_user; an absent user is {}
  pending,     \* pending[s]: the keys of s.pending_requests
  pc,          \* pc[r]: where the task forwarding r is
  caller,      \* caller[r]: the user r is forwarded for
  via,         \* via[r]: the session forward_mcp_request picked for r
  future,      \* future[r]: the asyncio.Future of r
  timedOut,    \* the requests whose wait_for timer has fired
  outcome      \* outcome[r]: what forward_mcp_request returned or raised

sessionVars == <<socket, user, registered, byUser>>
requestVars == <<pc, caller, via, outcome>>
vars == <<socket, user, registered, byUser, pending, pc, caller, via,
          future, timedOut, outcome>>

----------------------------------------------------------------------------
\* The states of a future.  An answer keeps the socket it came on.

Unset     == [state |-> "unset"]
Waiting   == [state |-> "waiting"]
Cancelled == [state |-> "cancelled"]
Dropped   == [state |-> "dropped"]     \* RuntimeError("Relay session disconnected")
Answered(s, ok) == [state |-> "answered", from |-> s, ok |-> ok]

Answers == [state : {"answered"}, from : Sessions, ok : BOOLEAN]
Futures == {Unset, Waiting, Cancelled, Dropped} \cup Answers

Outcomes == {"none", "noSession", "sendFailed", "disconnected", "timeout",
             "ok", "error"}

TypeOK ==
  /\ socket \in [Sessions -> {"new", "accepting", "open", "gone", "closed"}]
  /\ user \in [Sessions -> Users \cup {NoUser}]
  /\ registered \subseteq Sessions
  /\ byUser \in [Users -> SUBSET Sessions]
  /\ pending \in [Sessions -> SUBSET Requests]
  /\ pc \in [Requests -> {"idle", "sending", "awaiting", "ended"}]
  /\ caller \in [Requests -> Users \cup {NoUser}]
  /\ via \in [Requests -> Sessions \cup {NoSession}]
  /\ future \in [Requests -> Futures]
  /\ timedOut \subseteq Requests
  /\ outcome \in [Requests -> Outcomes]

Init ==
  /\ socket = [s \in Sessions |-> "new"]
  /\ user = [s \in Sessions |-> NoUser]
  /\ registered = {}
  /\ byUser = [u \in Users |-> {}]
  /\ pending = [s \in Sessions |-> {}]
  /\ pc = [r \in Requests |-> "idle"]
  /\ caller = [r \in Requests |-> NoUser]
  /\ via = [r \in Requests |-> NoSession]
  /\ future = [r \in Requests |-> Unset]
  /\ timedOut = {}
  /\ outcome = [r \in Requests |-> "none"]

----------------------------------------------------------------------------
\* Sessions

\* relay_connect verified the token of u and awaits websocket.accept().
Accept(s, u) ==
  /\ socket[s] = "new"
  /\ socket' = [socket EXCEPT ![s] = "accepting"]
  /\ user' = [user EXCEPT ![s] = u]
  /\ UNCHANGED <<registered, byUser, pending, requestVars, future, timedOut>>

\* The peer went away during the handshake: accept raises, nothing is registered.
AcceptFails(s) ==
  /\ socket[s] = "accepting"
  /\ socket' = [socket EXCEPT ![s] = "closed"]
  /\ UNCHANGED <<user, registered, byUser, pending, requestVars, future, timedOut>>

\* accept returned: the session enters both maps in one go.
Register(s) ==
  /\ socket[s] = "accepting"
  /\ socket' = [socket EXCEPT ![s] = "open"]
  /\ registered' = registered \cup {s}
  /\ byUser' = [byUser EXCEPT ![user[s]] = @ \cup {s}]
  /\ UNCHANGED <<user, pending, requestVars, future, timedOut>>

\* The desktop's end of the socket is gone; the receive loop has not seen it yet.
PeerGone(s) ==
  /\ socket[s] = "open"
  /\ socket' = [socket EXCEPT ![s] = "gone"]
  /\ UNCHANGED <<user, registered, byUser, pending, requestVars, future, timedOut>>

\* fut.set_exception(...) for the futures of s that are not done.
FailPending_Kept(s) == future   \* mutant: nobody is told

FailPending(s) ==
  [r \in Requests |-> IF r \in pending[s] /\ future[r] = Waiting
                      THEN Dropped ELSE future[r]]

\* The session leaves the index of its user, and no other does.
Unindex_User(s) == [byUser EXCEPT ![user[s]] = {}]   \* mutant: drops the key

Unindex(s) == [byUser EXCEPT ![user[s]] = @ \ {s}]

\* receive_json raised (the peer closed, or a frame did not parse): the
\* `finally` of relay_connect calls RelayManager.disconnect.
Disconnect(s) ==
  /\ socket[s] \in {"open", "gone"}
  /\ socket' = [socket EXCEPT ![s] = "closed"]
  /\ registered' = registered \ {s}
  /\ byUser' = Unindex(s)
  /\ future' = FailPending(s)
  /\ pending' = [pending EXCEPT ![s] = {}]
  /\ UNCHANGED <<user, requestVars, timedOut>>

\* handle_response_envelope: the id is looked up among the requests of the
\* session the frame came on.  The id is whatever the desktop wrote.
Accepts_Anywhere(s, r) ==                    \* mutant: one table for all sessions
  /\ \E t \in registered : r \in pending[t]
  /\ future[r] = Waiting

Accepts(s, r) == r \in pending[s] /\ future[r] = Waiting

Receive(s, r, ok) ==
  /\ socket[s] \in {"open", "gone"}
  /\ Accepts(s, r)
  /\ future' = [future EXCEPT ![r] = Answered(s, ok)]
  /\ UNCHANGED <<sessionVars, pending, requestVars, timedOut>>

----------------------------------------------------------------------------
\* Requests

\* get_active_session_for_user: some registered session of u.
Active(u) == byUser[u] \cap registered

NoActiveSession(r, u) ==
  /\ pc[r] = "idle"
  /\ Active(u) = {}
  /\ pc' = [pc EXCEPT ![r] = "ended"]
  /\ caller' = [caller EXCEPT ![r] = u]
  /\ outcome' = [outcome EXCEPT ![r] = "noSession"]
  /\ UNCHANGED <<sessionVars, pending, via, future, timedOut>>

\* The future is filed under the session before send_json is awaited, so an
\* answer or a disconnect that comes while the frame drains finds it.
Forward(r, u, s) ==
  /\ pc[r] = "idle"
  /\ s \in Active(u)
  /\ pc' = [pc EXCEPT ![r] = "sending"]
  /\ caller' = [caller EXCEPT ![r] = u]
  /\ via' = [via EXCEPT ![r] = s]
  /\ future' = [future EXCEPT ![r] = Waiting]
  /\ pending' = [pending EXCEPT ![s] = @ \cup {r}]
  /\ UNCHANGED <<sessionVars, timedOut, outcome>>

\* send_json returned; wait_for starts its timer.
SendDone(r) ==
  /\ pc[r] = "sending"
  /\ pc' = [pc EXCEPT ![r] = "awaiting"]
  /\ UNCHANGED <<sessionVars, pending, caller, via, future, timedOut, outcome>>

\* Mutant: the pop only on the way out of a returned answer.
Finish_KeepsFailed(r, o) ==
  /\ pc' = [pc EXCEPT ![r] = "ended"]
  /\ outcome' = [outcome EXCEPT ![r] = o]
  /\ pending' = [pending EXCEPT ![via[r]] = IF o = "ok" THEN @ \ {r} ELSE @]
  /\ UNCHANGED <<sessionVars, caller, via, future, timedOut>>

\* The `finally` of forward_mcp_request, on every way out of it.
Finish(r, o) ==
  /\ pc' = [pc EXCEPT ![r] = "ended"]
  /\ outcome' = [outcome EXCEPT ![r] = o]
  /\ pending' = [pending EXCEPT ![via[r]] = @ \ {r}]
  /\ UNCHANGED <<sessionVars, caller, via, future, timedOut>>

\* send_json raised: the socket it writes to is not there any more.
SendFails(r) ==
  /\ pc[r] = "sending"
  /\ socket[via[r]] # "open"
  /\ Finish(r, "sendFailed")

TimerFires_Never(r) == FALSE   \* mutant: the future awaited without wait_for

\* The timer of wait_for, before the waiting task has run again.  From Python
\* 3.12 on it cancels the awaited future at once; 3.11 does so in Resume.
TimerFires(r) ==
  /\ pc[r] = "awaiting"
  /\ r \notin timedOut
  /\ timedOut' = timedOut \cup {r}
  /\ \/ /\ future[r] = Waiting
        /\ future' = [future EXCEPT ![r] = Cancelled]
     \/ UNCHANGED future
  /\ UNCHANGED <<sessionVars, pending, requestVars>>

Settled_Raw(f) == f.state       \* mutant: the envelope handed on unread

\* What the future resolves the await to.
Settled(f) ==
  CASE f.state = "answered" -> IF f.ok THEN "ok" ELSE "error"
    [] f.state = "dropped"  -> "disconnected"
    [] OTHER                -> "timeout"

\* The waiting task runs again.  When the timer fired around the time the
\* answer landed, the answer is returned (3.11) or lost (3.12 on).
Resume(r) ==
  /\ pc[r] = "awaiting"
  /\ future[r] # Waiting \/ r \in timedOut
  /\ \/ Finish(r, Settled(future[r]))
     \/ /\ r \in timedOut
        /\ Finish(r, "timeout")

----------------------------------------------------------------------------
SessionStep(s) ==
  \/ \E u \in Users : Accept(s, u)
  \/ AcceptFails(s)
  \/ Register(s)
  \/ PeerGone(s)
  \/ Disconnect(s)
  \/ \E r \in Requests, ok \in BOOLEAN : Receive(s, r, ok)

RequestStep(r) ==
  \/ \E u \in Users : NoActiveSession(r, u)
  \/ \E u \in Users, s \in Sessions : Forward(r, u, s)
  \/ SendDone(r)
  \/ SendFails(r)
  \/ TimerFires(r)
  \/ Resume(r)

Next ==
  \/ \E s \in Sessions : SessionStep(s)
  \/ \E r \in Requests : RequestStep(r)

\* The event loop runs what is ready, the timer fires, and the server's
\* WebSocket keepalive ends a write that never drains.  No peer is fair.
Fairness ==
  \A r \in Requests :
    /\ WF_vars(SendDone(r) \/ SendFails(r))
    /\ WF_vars(TimerFires(r))
    /\ WF_vars(Resume(r))

Spec == Init /\ [][Next]_vars
FairSpec == Spec /\ Fairness

----------------------------------------------------------------------------
\* Properties

\* The two maps of the manager agree: a user's index holds exactly the
\* registered sessions of that user, across overlapping connects and
\* disconnects (relay_manager.py 103-104 against 108 and 117-121).
IndexAgrees ==
  \A u \in Users, s \in Sessions :
    s \in byUser[u] <=> s \in registered /\ user[s] = u

\* A session's table holds only requests that are still in flight on that very
\* session and were made for the user who owns it: no way out of
\* forward_mcp_request and no disconnect leaves one behind.
PendingOwned ==
  \A s \in Sessions : \A r \in pending[s] :
    /\ s \in registered
    /\ via[r] = s
    /\ pc[r] \in {"sending", "awaiting"}
    /\ caller[r] = user[s]

\* No request is orphaned: while its future is unset it is still filed under a
\* live session, so an answer can reach it and a disconnect will fail it now
\* instead of leaving it to its timer.
NoOrphan ==
  \A r \in Requests :
    future[r] = Waiting /\ pc[r] # "ended" => r \in pending[via[r]]

\* The promise of RelayPromise: one reply per request, the first, from the
\* caller's own desktop, and a result that is that reply or a failure.
PhaseOf(r) == IF pc[r] \in {"sending", "awaiting"} THEN "open" ELSE pc[r]

RepliesOf(r) ==
  IF future[r] \in Answers
  THEN [by |-> user[future[r].from], what |-> Settled(future[r])]
  ELSE [by |-> NoUser, what |-> "none"]

Promise == INSTANCE RelayPromise WITH
  phase <- [r \in Requests |-> PhaseOf(r)],
  onBehalf <- caller,
  reply <- [r \in Requests |-> RepliesOf(r)],
  result <- outcome

KeepsPromise == Promise!PromiseSpec

\* Every request that was forwarded ends, whatever the desktop does: it may
\* stay silent, vanish at any point, or answer late and twice.
EveryRequestEnds ==
  \A r \in Requests : pc[r] # "idle" ~> pc[r] = "ended"
=============================================================================
