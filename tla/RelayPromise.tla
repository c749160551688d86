---------------------------- MODULE RelayPromise ----------------------------
(***************************************************************************)
(* What the relay promises the HTTP side of the gateway, with no sessions, *)
(* futures or sockets in sight: a forwarded call is opened for one user,   *)
(* takes at most one reply, only from that user's desktop, and ends once;  *)
(* it ends "ok" or "error" only by returning the reply it took.            *)
(***************************************************************************)
CONSTANTS Users, Requests, NoUser

VARIABLES
  phase,     \* phase[r]: "idle", "open" or "ended"
  onBehalf,  \* onBehalf[r]: the user the call is made for
  reply,     \* reply[r]: NoReply, or the first answer and the user who gave it
  result     \* result[r]: what the caller was given; "none" until it ends

promiseVars == <<phase, onBehalf, reply, result>>

\* Outcomes that need no reply: the timer, the socket, or no desktop at all.
Failures == {"timeout", "disconnected", "sendFailed"}
Replies  == {"ok", "error"}

NoReply == [by |-> NoUser, what |-> "none"]

PromiseInit ==
  /\ phase = [r \in Requests |-> "idle"]
  /\ onBehalf = [r \in Requests |-> NoUser]
  /\ reply = [r \in Requests |-> NoReply]
  /\ result = [r \in Requests |-> "none"]

Open(r, u) ==
  /\ phase[r] = "idle"
  /\ phase' = [phase EXCEPT ![r] = "open"]
  /\ onBehalf' = [onBehalf EXCEPT ![r] = u]
  /\ UNCHANGED <<reply, result>>

\* No session of the user: the call ends where it starts.
Refuse(r, u) ==
  /\ phase[r] = "idle"
  /\ phase' = [phase EXCEPT ![r] = "ended"]
  /\ onBehalf' = [onBehalf EXCEPT ![r] = u]
  /\ result' = [result EXCEPT ![r] = "noSession"]
  /\ UNCHANGED reply

\* The desktop of user u answers. Later answers find reply[r] taken.
Answer(r, u, a) ==
  /\ phase[r] = "open"
  /\ onBehalf[r] = u
  /\ reply[r] = NoReply
  /\ reply' = [reply EXCEPT ![r] = [by |-> u, what |-> a]]
  /\ UNCHANGED <<phase, onBehalf, result>>

End(r, o) ==
  /\ phase[r] = "open"
  /\ o \in Failures \/ (o \in Replies /\ o = reply[r].what)
  /\ phase' = [phase EXCEPT ![r] = "ended"]
  /\ result' = [result EXCEPT ![r] = o]
  /\ UNCHANGED <<onBehalf, reply>>

PromiseNext ==
  \E r \in Requests :
    \/ \E u \in Users : Open(r, u) \/ Refuse(r, u)
    \/ \E u \in Users, a \in Replies : Answer(r, u, a)
    \/ \E o \in Failures \cup Replies : End(r, o)

PromiseSpec == PromiseInit /\ [][PromiseNext]_promiseVars
=============================================================================
