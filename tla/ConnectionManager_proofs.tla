---------------------- MODULE ConnectionManager_proofs ----------------------
(***************************************************************************)
(* Proofs about ConnectionManager for any sockets, installs, request ids,  *)
(* query parameters and delays that satisfy its assumptions: its           *)
(* invariants, what its steps never do, and that it implements ControlSlot.*)
(***************************************************************************)
EXTENDS ConnectionManager, TLAPS

-----------------------------------------------------------------------------
(* Type correctness *)

\* What a socket declares is a Client (connect, the handling of its parameters).
LEMMA DeclaredClientType ==
    ASSUME NEW h \in Hello
    PROVE  DeclaredClient(h) \in Client
BY HelloAssumption DEF DeclaredClient, Client, HANDOFF_PROTOCOL

\* Clearing the request leaves well-typed variables behind.
LEMMA ClearRequestType ==
    ASSUME TypeOK, ClearRequest
    PROVE  /\ request' \in Request \cup {NoRequest}
           /\ requestTimers' \subseteq RequestTimer
BY DEF TypeOK, ClearRequest

\* The values the variables of the manager can take.
LEMMA TypeStep == TypeOK /\ [Next]_vars => TypeOK'
<1> SUFFICES ASSUME TypeOK, [Next]_vars PROVE TypeOK'
  OBVIOUS
<1> USE NullAssumption
<1>1. ASSUME NEW w \in Socket, NEW h \in Hello, Connect(w, h) PROVE TypeOK'
  BY <1>1, DeclaredClientType
  DEF Connect, TypeOK, Register, EndReservation, HoldTimersAfterCancel, holdVars, reqVars
<1>2. ASSUME NEW w \in Socket, Disconnect(w) PROVE TypeOK'
  <2>1. /\ connected' \subseteq Socket /\ client' \in [Socket -> Client]
        /\ older' \subseteq connected' \X connected' /\ released' \subseteq connected'
    BY <1>2 DEF Disconnect, Unregister, TypeOK, NoClient, Client, HANDOFF_PROTOCOL
  <2>2. /\ request' \in Request \cup {NoRequest}
        /\ requestTimers' \subseteq RequestTimer
    BY <1>2, ClearRequestType DEF Disconnect, Withdraw, TypeOK, reqVars
  <2>3. client[w].client_id \in ClientId \cup {NoClientId}
    BY DEF TypeOK, Client
  <2>4. /\ primary' \in Socket \cup {NoSocket}
        /\ reservedFor' \in ClientId \cup {NoClientId}
        /\ holdTimers' \subseteq HoldTimer
    BY <1>2, <2>3, DelayAssumption
    DEF Disconnect, TypeOK, StartReservation, HoldTimersAfterCancel, HoldTimer, holdVars
  <2>5. filedInHold' \in BOOLEAN
    BY <1>2, Zenon DEF Disconnect, TypeOK, StartReservation
  <2> QED BY <2>1, <2>2, <2>4, <2>5, Zenon DEF TypeOK
<1>3. ASSUME NEW w \in Socket, NEW id \in RequestId, RequestControl(w, id) PROVE TypeOK'
  <2>1. filedInHold' \in BOOLEAN
    BY <1>3, Zenon DEF RequestControl, TypeOK
  <2>2. /\ request' \in Request \cup {NoRequest}
        /\ requestTimers' \subseteq RequestTimer
    BY <1>3, DelayAssumption
    DEF RequestControl, StartRequest, TypeOK, Request, RequestTimer, reqVars
  <2>3. primary' \in Socket \cup {NoSocket}
    BY <1>3 DEF RequestControl, TypeOK
  <2> QED BY <1>3, <2>1, <2>2, <2>3 DEF RequestControl, TypeOK, socketVars, holdVars
<1>4. ASSUME NEW w \in Socket, CancelRequest(w) PROVE TypeOK'
  BY <1>4, ClearRequestType DEF CancelRequest, TypeOK, socketVars, holdVars
<1>5. ASSUME NEW w \in Socket, NEW id \in RequestId, NEW accept \in BOOLEAN,
             Respond(w, id, accept)
      PROVE TypeOK'
  BY <1>5, ClearRequestType DEF Respond, TypeOK, Request, Pending, socketVars, holdVars
<1>6. ASSUME NEW w \in Socket, NEW target \in Socket, Grant(w, target) PROVE TypeOK'
  BY <1>6, ClearRequestType DEF Grant, TypeOK, socketVars, holdVars
<1>7. ASSUME NEW w \in Socket, Release(w) PROVE TypeOK'
  BY <1>7, ClearRequestType
  DEF Release, TypeOK, Request, NoRequest, Listening, holdVars
<1>8. CASE Tick
  <2>1. holdTimers' \subseteq HoldTimer
    BY <1>8, DelayAssumption DEF Tick, TypeOK, HoldTimer
  <2>2. requestTimers' \subseteq RequestTimer
    BY <1>8, DelayAssumption DEF Tick, TypeOK, RequestTimer
  <2> QED BY <1>8, <2>1, <2>2 DEF Tick, TypeOK, socketVars
<1>9. ASSUME NEW t \in HoldTimer, ReservationExpiry(t) PROVE TypeOK'
  BY <1>9 DEF ReservationExpiry, ClearRequest, TypeOK, Request, Pending, socketVars, reqVars
<1>10. ASSUME NEW t \in RequestTimer, RequestExpiry(t) PROVE TypeOK'
  BY <1>10 DEF RequestExpiry, TypeOK, socketVars, holdVars
<1>11. CASE UNCHANGED vars
  BY <1>11 DEF vars, TypeOK, socketVars, holdVars, reqVars
<1> QED BY <1>1, <1>2, <1>3, <1>4, <1>5, <1>6, <1>7, <1>8, <1>9, <1>10, <1>11, Zenon DEF Next

\* Every variable of the manager keeps to its type.
THEOREM TypeCorrect == Spec => []TypeOK
<1>1. Init => TypeOK
  <2>1. NoClient \in Client
    BY DEF NoClient, Client, HANDOFF_PROTOCOL
  <2> QED BY <2>1 DEF Init, TypeOK
<1> QED BY <1>1, TypeStep, PTL DEF Spec
-----------------------------------------------------------------------------
(* The roles, the hold and the pending request agree *)

\* A socket that stays connected keeps what it declared (only connect and
\* disconnect write _clients).
LEMMA ClientKept ==
    ASSUME TypeOK, [Next]_vars
    PROVE  \A w \in connected \cap connected' : client'[w] = client[w]
BY DEF TypeOK, Next, vars, socketVars, Connect, Register, Disconnect, Unregister,
       RequestControl, CancelRequest, Respond, Grant, Release, Tick,
       ReservationExpiry, RequestExpiry

\* A null request has no requester to be told apart from a socket.
LEMMA RequesterOfPending ==
    ASSUME TypeOK
    PROVE  Pending <=> request.requester \in Socket
BY NullAssumption DEF TypeOK, Pending, Request, NoRequest

\* RolesConsistent is kept by every step.
LEMMA RolesStep == Consistent /\ [Next]_vars => RolesConsistent'
<1> SUFFICES ASSUME Consistent, [Next]_vars PROVE RolesConsistent'
  OBVIOUS
<1> USE NullAssumption DEF Consistent
<1>0. TypeOK' /\ \A w \in connected \cap connected' : client'[w] = client[w]
  BY TypeStep, ClientKept
<1>1. ASSUME NEW w \in Socket, NEW h \in Hello, Connect(w, h) PROVE RolesConsistent'
  BY <1>0, <1>1
  DEF Connect, Register, EndReservation, Supersedes, TakesEmptySlot, SlotFree,
      RolesConsistent, SupportsHandoff, Pending, TypeOK, Request, NoRequest, holdVars, reqVars
<1>2. ASSUME NEW w \in Socket, Disconnect(w) PROVE RolesConsistent'
  <2>1. connected' = connected \ {w}
    BY <1>2 DEF Disconnect, Unregister
  <2>2. Pending' => SupportsHandoff(request.requester)'
    BY <1>0, <1>2, <2>1, RequesterOfPending
    DEF Disconnect, Withdraw, ClearRequest, RolesConsistent, SupportsHandoff, Pending, reqVars
  <2>3. primary' # NoSocket => primary' \in connected'
    BY <1>2, <2>1
    DEF Disconnect, RolesConsistent, FirstSibling, Siblings, Install
  <2>4. reservedFor' # NoClientId => primary' = NoSocket
    BY <1>2 DEF Disconnect, StartReservation, RolesConsistent, TypeOK, holdVars
  <2> QED BY <2>2, <2>3, <2>4 DEF RolesConsistent
<1>3. ASSUME NEW w \in Socket, NEW id \in RequestId, RequestControl(w, id)
      PROVE RolesConsistent'
  BY <1>3
  DEF RequestControl, StartRequest, SlotFree, RolesConsistent, SupportsHandoff, Pending,
      Listening, socketVars, holdVars, reqVars
<1>4. ASSUME NEW w \in Socket, CancelRequest(w) PROVE RolesConsistent'
  BY <1>4 DEF CancelRequest, ClearRequest, RolesConsistent, Pending, socketVars, holdVars
<1>5. ASSUME NEW w \in Socket, NEW id \in RequestId, NEW accept \in BOOLEAN,
             Respond(w, id, accept)
      PROVE RolesConsistent'
  BY <1>5
  DEF Respond, ClearRequest, RolesConsistent, SupportsHandoff, Pending, TypeOK, socketVars, holdVars
<1>6. ASSUME NEW w \in Socket, NEW target \in Socket, Grant(w, target) PROVE RolesConsistent'
  BY <1>6
  DEF Grant, ClearRequest, RolesConsistent, SupportsHandoff, Pending, socketVars, holdVars
<1>7. ASSUME NEW w \in Socket, Release(w) PROVE RolesConsistent'
  BY <1>7, RequesterOfPending
  DEF Release, ClearRequest, RolesConsistent, SupportsHandoff, Pending, NoRequest, holdVars
<1>8. CASE Tick
  BY <1>8 DEF Tick, RolesConsistent, SupportsHandoff, Pending, socketVars
<1>9. ASSUME NEW t \in HoldTimer, ReservationExpiry(t) PROVE RolesConsistent'
  BY <1>9
  DEF ReservationExpiry, ClearRequest, RolesConsistent, SupportsHandoff, Pending, TypeOK, socketVars, reqVars
<1>10. ASSUME NEW t \in RequestTimer, RequestExpiry(t) PROVE RolesConsistent'
  BY <1>10
  DEF RequestExpiry, RolesConsistent, SupportsHandoff, Pending, socketVars, holdVars
<1>11. CASE UNCHANGED vars
  BY <1>11 DEF vars, RolesConsistent, SupportsHandoff, Pending, socketVars, holdVars, reqVars
<1> QED BY <1>1, <1>2, <1>3, <1>4, <1>5, <1>6, <1>7, <1>8, <1>9, <1>10, <1>11, Zenon DEF Next
\* HoldOwnerAbsent is kept: a socket of the owner's install ends the hold as it
\* connects, and a hold starts only when the last of them has gone.
LEMMA HoldOwnerStep == Consistent /\ [Next]_vars => HoldOwnerAbsent'
<1> SUFFICES ASSUME Consistent, [Next]_vars, reservedFor' # NoClientId
             PROVE  Install(reservedFor)' = {}
  BY DEF HoldOwnerAbsent
<1> USE NullAssumption DEF Consistent
<1>1. ASSUME NEW w \in Socket, NEW h \in Hello, Connect(w, h)
      PROVE  Install(reservedFor)' = {}
  <2> DEFINE c == DeclaredClient(h).client_id
  <2>1. reservedFor' = reservedFor /\ ~Reclaims(c)
    BY <1>1 DEF Connect, EndReservation, Supersedes, TakesEmptySlot, SlotFree, Reclaims, holdVars
  <2>2. c # reservedFor
    BY <2>1 DEF Reclaims
  <2>3. /\ connected' = connected \cup {w}
        /\ client' = [client EXCEPT ![w] = DeclaredClient(h)]
        /\ w \notin connected
    BY <1>1 DEF Connect, Register
  <2> QED BY <2>1, <2>2, <2>3 DEF HoldOwnerAbsent, Install, TypeOK
<1>2. ASSUME NEW w \in Socket, Disconnect(w) PROVE Install(reservedFor)' = {}
  <2>1. /\ connected' = connected \ {w}
        /\ client' = [client EXCEPT ![w] = NoClient]
    BY <1>2 DEF Disconnect, Unregister
  <2>2. CASE reservedFor' = reservedFor
    BY <2>1, <2>2 DEF HoldOwnerAbsent, Install, TypeOK
  <2>3. CASE reservedFor' # reservedFor
    <3>1. /\ Siblings(w) = {}
          /\ client[w].client_id # NoClientId
          /\ reservedFor' = client[w].client_id
      BY <1>2, <2>3 DEF Disconnect, StartReservation, holdVars
    <3> QED BY <2>1, <3>1 DEF Siblings, Install, TypeOK
  <2> QED BY <2>2, <2>3
<1>3. ASSUME UNCHANGED socketVars, reservedFor' = reservedFor
      PROVE  Install(reservedFor)' = {}
  BY <1>3 DEF socketVars, HoldOwnerAbsent, Install
<1>4. ASSUME NEW w \in Socket, NEW id \in RequestId, RequestControl(w, id)
      PROVE  Install(reservedFor)' = {}
  BY <1>3, <1>4 DEF RequestControl, holdVars
<1>5. ASSUME NEW w \in Socket, CancelRequest(w) PROVE Install(reservedFor)' = {}
  BY <1>3, <1>5 DEF CancelRequest, holdVars
<1>6. ASSUME NEW w \in Socket, NEW id \in RequestId, NEW accept \in BOOLEAN,
             Respond(w, id, accept)
      PROVE  Install(reservedFor)' = {}
  BY <1>3, <1>6 DEF Respond, holdVars
<1>7. ASSUME NEW w \in Socket, NEW target \in Socket, Grant(w, target)
      PROVE  Install(reservedFor)' = {}
  BY <1>3, <1>7 DEF Grant, holdVars
<1>8. ASSUME NEW w \in Socket, Release(w) PROVE Install(reservedFor)' = {}
  BY <1>8 DEF Release, holdVars, HoldOwnerAbsent, Install
<1>9. CASE Tick
  BY <1>3, <1>9 DEF Tick
<1>10. ASSUME NEW t \in HoldTimer, ReservationExpiry(t) PROVE Install(reservedFor)' = {}
  BY <1>3, <1>10 DEF ReservationExpiry
<1>11. ASSUME NEW t \in RequestTimer, RequestExpiry(t) PROVE Install(reservedFor)' = {}
  BY <1>3, <1>11 DEF RequestExpiry, holdVars
<1>12. CASE UNCHANGED vars
  BY <1>3, <1>12 DEF vars, holdVars
<1> QED BY <1>1, <1>2, <1>4, <1>5, <1>6, <1>7, <1>8, <1>9, <1>10, <1>11, <1>12, Zenon DEF Next

-----------------------------------------------------------------------------
(* Timers *)

\* The task of the hold is the only one asleep, so cancelling it leaves none.
LEMMA HoldCancelled ==
    ASSUME TimersMatchPromises
    PROVE  HoldTimersAfterCancel = {}
BY DEF TimersMatchPromises, HoldTimersAfterCancel

\* Likewise for the task of the pending request.
LEMMA RequestCancelled ==
    ASSUME TimersMatchPromises, ClearRequest
    PROVE  ~Pending' /\ requestTimers' = {}
BY DEF TimersMatchPromises, ClearRequest, Pending

\* TimersMatchPromises is kept by every step.
LEMMA TimersStep == Consistent /\ [Next]_vars => TimersMatchPromises'
<1> SUFFICES ASSUME Consistent, [Next]_vars PROVE TimersMatchPromises'
  OBVIOUS
<1> USE NullAssumption DEF Consistent
<1> DEFINE HoldOK ==
             IF reservedFor = NoClientId
             THEN holdTimers = {}
             ELSE \E n \in 0..RECLAIM_GRACE :
                      holdTimers = {[client_id |-> reservedFor, left |-> n]}
           ReqOK ==
             IF ~Pending
             THEN requestTimers = {}
             ELSE \E n \in 0..REQUEST_TIMEOUT :
                      requestTimers = {[id |-> request.id, left |-> n]}
<1>1. HoldOK /\ ReqOK
  BY DEF TimersMatchPromises
<1>2. SUFFICES HoldOK' /\ ReqOK'
  BY DEF TimersMatchPromises
<1>3. UNCHANGED holdVars => HoldOK'
  BY <1>1 DEF holdVars
<1>4. UNCHANGED reqVars => ReqOK'
  BY <1>1 DEF reqVars, Pending
<1>5. ClearRequest => ReqOK'
  BY RequestCancelled
<1>6. EndReservation => HoldOK'
  BY HoldCancelled DEF EndReservation
<1> HIDE DEF HoldOK, ReqOK
<1>7. ASSUME NEW w \in Socket, NEW h \in Hello, Connect(w, h) PROVE HoldOK' /\ ReqOK'
  BY <1>3, <1>4, <1>6, <1>7 DEF Connect
<1>8. ASSUME NEW w \in Socket, Disconnect(w) PROVE HoldOK' /\ ReqOK'
  <2>1. ASSUME client[w].client_id # NoClientId, StartReservation(client[w].client_id)
        PROVE  HoldOK'
    <3>1. holdTimers' = {[client_id |-> reservedFor', left |-> RECLAIM_GRACE]}
      BY <2>1, HoldCancelled DEF StartReservation
    <3> QED BY <2>1, <3>1, DelayAssumption DEF HoldOK, StartReservation
  <2>2. HoldOK'
    BY <1>3, <1>8, <2>1 DEF Disconnect
  <2> QED BY <1>4, <1>5, <1>8, <2>2 DEF Disconnect, Withdraw
<1>9. ASSUME NEW w \in Socket, NEW id \in RequestId, RequestControl(w, id)
      PROVE  HoldOK' /\ ReqOK'
  <2>1. ASSUME StartRequest(w, id), ~Pending
        PROVE  ReqOK'
    <3>1. requestTimers' = {[id |-> request'.id, left |-> REQUEST_TIMEOUT]}
      BY <1>1, <2>1 DEF StartRequest, ReqOK
    <3>2. Pending'
      BY <2>1 DEF StartRequest, Pending, NoRequest
    <3> QED BY <3>1, <3>2, DelayAssumption DEF ReqOK
  <2> QED BY <1>3, <1>4, <1>9, <2>1 DEF RequestControl
<1>10. ASSUME NEW w \in Socket, CancelRequest(w) PROVE HoldOK' /\ ReqOK'
  BY <1>3, <1>5, <1>10 DEF CancelRequest
<1>11. ASSUME NEW w \in Socket, NEW id \in RequestId, NEW accept \in BOOLEAN,
              Respond(w, id, accept)
       PROVE  HoldOK' /\ ReqOK'
  BY <1>3, <1>5, <1>11 DEF Respond
<1>12. ASSUME NEW w \in Socket, NEW target \in Socket, Grant(w, target)
       PROVE  HoldOK' /\ ReqOK'
  BY <1>3, <1>5, <1>12 DEF Grant
<1>13. ASSUME NEW w \in Socket, Release(w) PROVE HoldOK' /\ ReqOK'
  BY <1>3, <1>5, <1>13 DEF Release
<1>14. CASE Tick
  <2>1. HoldOK'
    <3>1. CASE reservedFor = NoClientId
      BY <1>1, <1>14, <3>1 DEF HoldOK, Tick
    <3>2. CASE reservedFor # NoClientId
      <4>1. PICK n \in 0..RECLAIM_GRACE : holdTimers = {[client_id |-> reservedFor, left |-> n]}
        BY <1>1, <3>2 DEF HoldOK
      <4>2. n - 1 \in 0..RECLAIM_GRACE
        BY <1>14, <4>1, DelayAssumption DEF Tick
      <4>3. holdTimers' = {[client_id |-> reservedFor', left |-> n - 1]}
        BY <1>14, <4>1 DEF Tick
      <4> QED BY <1>14, <3>2, <4>2, <4>3 DEF HoldOK, Tick
    <3> QED BY <3>1, <3>2
  <2>2. ReqOK'
    <3>1. CASE ~Pending
      BY <1>1, <1>14, <3>1 DEF ReqOK, Tick, Pending
    <3>2. CASE Pending
      <4>1. PICK n \in 0..REQUEST_TIMEOUT : requestTimers = {[id |-> request.id, left |-> n]}
        BY <1>1, <3>2 DEF ReqOK
      <4>2. n - 1 \in 0..REQUEST_TIMEOUT
        BY <1>14, <4>1, DelayAssumption DEF Tick
      <4>3. requestTimers' = {[id |-> request'.id, left |-> n - 1]}
        BY <1>14, <4>1 DEF Tick
      <4> QED BY <1>14, <3>2, <4>2, <4>3 DEF ReqOK, Tick, Pending
    <3> QED BY <3>1, <3>2
  <2> QED BY <2>1, <2>2
<1>15. ASSUME NEW t \in HoldTimer, ReservationExpiry(t) PROVE HoldOK' /\ ReqOK'
  <2>1. reservedFor = t.client_id /\ holdTimers = {t}
    BY <1>1, <1>15 DEF HoldOK, ReservationExpiry
  <2>2. reservedFor' = NoClientId /\ holdTimers' = {}
    BY <1>15, <2>1 DEF ReservationExpiry
  <2>3. ReqOK'
    BY <1>4, <1>5, <1>15, <2>1 DEF ReservationExpiry, reqVars
  <2> QED BY <2>2, <2>3 DEF HoldOK
<1>16. ASSUME NEW t \in RequestTimer, RequestExpiry(t) PROVE HoldOK' /\ ReqOK'
  <2>1. Pending /\ request.id = t.id /\ requestTimers = {t}
    BY <1>1, <1>16 DEF ReqOK, RequestExpiry
  <2> QED BY <1>3, <1>16, <2>1 DEF RequestExpiry, ReqOK, Pending
<1>17. CASE UNCHANGED vars
  BY <1>3, <1>4, <1>17 DEF vars
<1> QED BY <1>7, <1>8, <1>9, <1>10, <1>11, <1>12, <1>13, <1>14, <1>15, <1>16, <1>17, Zenon
        DEF Next
\* A request made during a hold keeps the longer of the two timers: both start
\* no later than the full delay and count down together.
LEMMA HeldStep == Consistent /\ [Next]_vars => HeldRequestOutlivesHold'
<1> SUFFICES ASSUME Consistent, [Next]_vars, filedInHold'
             PROVE  /\ Pending' /\ reservedFor' # NoClientId
                    /\ \A h \in holdTimers', r \in requestTimers' : h.left < r.left
  BY DEF HeldRequestOutlivesHold
<1> USE NullAssumption DEF Consistent
<1> DEFINE Goal == /\ Pending' /\ reservedFor' # NoClientId
                   /\ \A h \in holdTimers', r \in requestTimers' : h.left < r.left
<1>1. ASSUME filedInHold, UNCHANGED <<holdVars, reqVars>> PROVE Goal
  BY <1>1 DEF HeldRequestOutlivesHold, holdVars, reqVars, Pending
<1> HIDE DEF Goal
<1>2. primary # NoSocket => ~filedInHold
  BY DEF HeldRequestOutlivesHold, RolesConsistent
<1>3. ASSUME NEW w \in Socket, NEW h \in Hello, Connect(w, h) PROVE Goal
  BY <1>1, <1>3 DEF Connect, EndReservation
<1>4. ASSUME NEW w \in Socket, Disconnect(w) PROVE Goal
  <2>1. CASE primary = w
    BY <1>2, <1>4, <2>1 DEF Disconnect, StartReservation
  <2>2. CASE primary # w
    BY <1>1, <1>4, <2>2 DEF Disconnect, Withdraw
  <2> QED BY <2>1, <2>2
<1>5. ASSUME NEW w \in Socket, NEW id \in RequestId, RequestControl(w, id) PROVE Goal
  <2>1. CASE SlotFree
    BY <1>5, <2>1 DEF RequestControl, SlotFree, HeldRequestOutlivesHold
  <2>2. CASE ~SlotFree
    <3>1. /\ reservedFor # NoClientId /\ UNCHANGED holdVars
          /\ request' = [id |-> id, requester |-> w]
          /\ requestTimers' = requestTimers \cup {[id |-> id, left |-> REQUEST_TIMEOUT]}
          /\ ~Pending
      BY <1>5, <2>2 DEF RequestControl, StartRequest
    <3>2. requestTimers' = {[id |-> id, left |-> REQUEST_TIMEOUT]}
      BY <3>1 DEF TimersMatchPromises
    <3>3. Pending'
      BY <3>1 DEF Pending, NoRequest
    <3>4. \A h \in holdTimers' : h.left \in 0..RECLAIM_GRACE
      BY <3>1 DEF TypeOK, HoldTimer, holdVars
    <3> QED BY <3>1, <3>2, <3>3, <3>4, DelayAssumption DEF Goal, holdVars
  <2> QED BY <2>1, <2>2
<1>6. ASSUME NEW w \in Socket, CancelRequest(w) PROVE Goal
  BY <1>6 DEF CancelRequest
<1>7. ASSUME NEW w \in Socket, NEW id \in RequestId, NEW accept \in BOOLEAN,
             Respond(w, id, accept)
      PROVE  Goal
  BY <1>2, <1>7 DEF Respond
<1>8. ASSUME NEW w \in Socket, NEW target \in Socket, Grant(w, target) PROVE Goal
  BY <1>2, <1>8 DEF Grant
<1>9. ASSUME NEW w \in Socket, Release(w) PROVE Goal
  BY <1>2, <1>9 DEF Release
<1>10. CASE Tick
  <2>1. /\ filedInHold /\ UNCHANGED <<reservedFor, request>>
        /\ holdTimers' = {[t EXCEPT !.left = @ - 1] : t \in holdTimers}
        /\ requestTimers' = {[t EXCEPT !.left = @ - 1] : t \in requestTimers}
    BY <1>10 DEF Tick
  <2>2. ASSUME NEW h \in holdTimers', NEW r \in requestTimers' PROVE h.left < r.left
    <3>1. PICK g \in holdTimers : h = [g EXCEPT !.left = @ - 1]
      BY <2>1, <2>2
    <3>2. PICK q \in requestTimers : r = [q EXCEPT !.left = @ - 1]
      BY <2>1, <2>2
    <3>3. g \in HoldTimer /\ q \in RequestTimer
      BY DEF TypeOK
    <3>4. g.left < q.left
      BY <2>1 DEF HeldRequestOutlivesHold
    <3>5. h.left = g.left - 1 /\ r.left = q.left - 1
      BY <3>1, <3>2, <3>3 DEF HoldTimer, RequestTimer
    <3> QED BY <3>3, <3>4, <3>5, DelayAssumption DEF HoldTimer, RequestTimer
  <2> QED BY <2>1, <2>2 DEF Goal, HeldRequestOutlivesHold, Pending
<1>11. ASSUME NEW t \in HoldTimer, ReservationExpiry(t) PROVE Goal
  <2>1. reservedFor = t.client_id
    BY <1>11 DEF ReservationExpiry, TimersMatchPromises
  <2> QED BY <1>11, <2>1 DEF ReservationExpiry
<1>12. ASSUME NEW t \in RequestTimer, RequestExpiry(t) PROVE Goal
  <2>1. request.id = t.id
    BY <1>12 DEF RequestExpiry, TimersMatchPromises
  <2> QED BY <1>12, <2>1 DEF RequestExpiry
<1>13. ASSUME UNCHANGED vars PROVE Goal
  BY <1>1, <1>13 DEF vars
<1> QED BY <1>3, <1>4, <1>5, <1>6, <1>7, <1>8, <1>9, <1>10, <1>11, <1>12, <1>13, Zenon
        DEF Next, Goal

\* The inductive invariant holds at the start and is kept.
LEMMA ConsistentStep == Consistent /\ [Next]_vars => Consistent'
<1> SUFFICES ASSUME Consistent, [Next]_vars PROVE Consistent'
  OBVIOUS
<1>1. TypeOK'
  BY TypeStep DEF Consistent
<1> QED BY <1>1, RolesStep, HoldOwnerStep, TimersStep, HeldStep, Zenon DEF Consistent

\* All five hold in the state the bridge starts in.
LEMMA ConsistentInit == Init => Consistent
<1>1. Init => TypeOK
  <2>1. NoClient \in Client
    BY DEF NoClient, Client, HANDOFF_PROTOCOL
  <2> QED BY <2>1 DEF Init, TypeOK
<1> QED BY <1>1 DEF Init, Consistent, RolesConsistent, HoldOwnerAbsent, TimersMatchPromises,
                  HeldRequestOutlivesHold, Pending, Install

\* The inductive invariant holds in every reachable state.
LEMMA AlwaysConsistent == Spec => []Consistent
BY ConsistentInit, ConsistentStep, PTL DEF Spec

\* Whoever holds, asks for or waits for control is known to the manager, and a held
\* slot has no primary, for any number of sockets and installs.
THEOREM RolesAgree == Spec => []RolesConsistent
<1>1. Consistent => RolesConsistent
  BY DEF Consistent
<1> QED BY <1>1, AlwaysConsistent, PTL

\* No socket of the install that a slot is held for is connected.
THEOREM OwnerIsAbsent == Spec => []HoldOwnerAbsent
<1>1. Consistent => HoldOwnerAbsent
  BY DEF Consistent
<1> QED BY <1>1, AlwaysConsistent, PTL

\* A hold and a request have the one timer that ends them, and there is no other.
THEOREM TimersAgree == Spec => []TimersMatchPromises
<1>1. Consistent => TimersMatchPromises
  BY DEF Consistent
<1> QED BY <1>1, AlwaysConsistent, PTL

\* A request made during a hold is due to expire later than the hold.
THEOREM HoldEndsFirst == Spec => []HeldRequestOutlivesHold
<1>1. Consistent => HeldRequestOutlivesHold
  BY DEF Consistent
<1> QED BY <1>1, AlwaysConsistent, PTL

-----------------------------------------------------------------------------
(* What a step may never do *)

\* While a slot is held, only its owner takes it until the hold's timer is due.
THEOREM HeldSlotIsTheOwners == Spec => SlotHeldForOwner
<1> DEFINE Step == reservedFor # NoClientId /\ primary' # NoSocket =>
                     \/ client'[primary'].client_id = reservedFor
                     \/ \E t \in holdTimers : t.left = 0
<1>1. ASSUME Consistent, [Next]_vars, reservedFor # NoClientId, primary' # NoSocket
      PROVE  \/ client'[primary'].client_id = reservedFor
             \/ \E t \in holdTimers : t.left = 0
  <2> USE NullAssumption DEF Consistent
  <2> DEFINE Goal == \/ client'[primary'].client_id = reservedFor
                     \/ \E t \in holdTimers : t.left = 0
  <2>1. primary = NoSocket
    BY <1>1 DEF RolesConsistent
  <2>2. ASSUME NEW w \in Socket, NEW h \in Hello, Connect(w, h) PROVE Goal
    <3>1. /\ primary' = w /\ DeclaredClient(h).client_id = reservedFor
          /\ client' = [client EXCEPT ![w] = DeclaredClient(h)]
      BY <1>1, <2>1, <2>2
      DEF Connect, Register, Reclaims, Supersedes, TakesEmptySlot, SlotFree, RolesConsistent, TypeOK
    <3> QED BY <1>1, <3>1 DEF TypeOK
  <2>3. ASSUME NEW t \in HoldTimer, ReservationExpiry(t) PROVE Goal
    BY <2>3 DEF ReservationExpiry
  <2>4. ASSUME primary' = primary PROVE Goal
    BY <1>1, <2>1, <2>4
  <2>5. ASSUME NEW w \in Socket, Disconnect(w) PROVE Goal
    BY <2>1, <2>4, <2>5 DEF Disconnect
  <2>6. ASSUME NEW w \in Socket, NEW id \in RequestId, RequestControl(w, id) PROVE Goal
    BY <1>1, <2>4, <2>6 DEF RequestControl, SlotFree
  <2>7. ASSUME NEW w \in Socket, CancelRequest(w) PROVE Goal
    BY <2>4, <2>7 DEF CancelRequest
  <2>8. ASSUME NEW w \in Socket, NEW id \in RequestId, NEW accept \in BOOLEAN,
               Respond(w, id, accept)
        PROVE  Goal
    BY <2>1, <2>8 DEF Respond
  <2>9. ASSUME NEW w \in Socket, NEW target \in Socket, Grant(w, target) PROVE Goal
    BY <2>1, <2>9 DEF Grant
  <2>10. ASSUME NEW w \in Socket, Release(w) PROVE Goal
    BY <2>1, <2>10 DEF Release
  <2>11. ASSUME Tick PROVE Goal
    BY <2>4, <2>11 DEF Tick
  <2>12. ASSUME NEW t \in RequestTimer, RequestExpiry(t) PROVE Goal
    BY <2>4, <2>12 DEF RequestExpiry
  <2>13. ASSUME UNCHANGED vars PROVE Goal
    BY <2>4, <2>13 DEF vars
  <2> HIDE DEF Goal
  <2> QED BY <1>1, <2>2, <2>3, <2>5, <2>6, <2>7, <2>8, <2>9, <2>10, <2>11, <2>12, <2>13, Zenon
          DEF Next, Goal
<1>2. Consistent /\ [Next]_vars => [Step]_vars
  BY <1>1, Zenon
<1> QED BY <1>2, ConsistentInit, ConsistentStep, PTL DEF Spec, SlotHeldForOwner
\* A request made during a hold is granted as the hold ends, unless the owner
\* returns first or the requester leaves or withdraws: it never just expires.
THEOREM HeldRequestNeverLost == Spec => HeldRequestHonoured
<1> DEFINE Outcome == \/ primary' = request.requester
                      \/ /\ primary' # NoSocket
                         /\ client'[primary'].client_id = reservedFor
                         /\ request' = request
                      \/ request.requester \notin connected'
                      \/ CancelRequest(request.requester)
           Step == filedInHold /\ ~filedInHold' => Outcome
<1>1. ASSUME Consistent, [Next]_vars, filedInHold, ~filedInHold'
      PROVE  Outcome
  <2> USE NullAssumption DEF Consistent
  <2>1. primary = NoSocket /\ Pending /\ reservedFor # NoClientId
    BY <1>1 DEF HeldRequestOutlivesHold, RolesConsistent
  <2>2. ASSUME NEW w \in Socket, NEW h \in Hello, Connect(w, h) PROVE Outcome
    <3>1. Reclaims(DeclaredClient(h).client_id) /\ primary' = w
      BY <1>1, <2>2, Zenon DEF Connect
    <3>2. /\ client' = [client EXCEPT ![w] = DeclaredClient(h)]
          /\ request' = request
      BY <2>2 DEF Connect, Register, reqVars
    <3> QED BY <1>1, <3>1, <3>2 DEF Reclaims, TypeOK
  <2>3. ASSUME NEW w \in Socket, Disconnect(w) PROVE Outcome
    BY <1>1, <2>1, <2>3 DEF Disconnect, Unregister
  <2>4. ASSUME NEW w \in Socket, NEW id \in RequestId, RequestControl(w, id) PROVE Outcome
    BY <2>1, <2>4 DEF RequestControl
  <2>5. ASSUME NEW w \in Socket, CancelRequest(w) PROVE Outcome
    <3>1. request.requester = w
      BY <2>5 DEF CancelRequest
    <3> QED BY <2>5, <3>1
  <2>6. ASSUME NEW w \in Socket, NEW id \in RequestId, NEW accept \in BOOLEAN,
               Respond(w, id, accept)
        PROVE  Outcome
    BY <2>1, <2>6 DEF Respond
  <2>7. ASSUME NEW w \in Socket, NEW target \in Socket, Grant(w, target) PROVE Outcome
    BY <2>1, <2>7 DEF Grant
  <2>8. ASSUME NEW w \in Socket, Release(w) PROVE Outcome
    BY <2>1, <2>8 DEF Release
  <2>9. ASSUME Tick PROVE Outcome
    BY <1>1, <2>9 DEF Tick
  <2>10. ASSUME NEW t \in HoldTimer, ReservationExpiry(t) PROVE Outcome
    BY <1>1, <2>1, <2>10 DEF ReservationExpiry
  <2>11. ASSUME NEW t \in RequestTimer, RequestExpiry(t) PROVE Outcome
    <3>1. t \in requestTimers /\ t.left = 0
      BY <2>11 DEF RequestExpiry
    <3>2. PICK n \in 0..RECLAIM_GRACE :
                 holdTimers = {[client_id |-> reservedFor, left |-> n]}
      BY <1>1, <2>1 DEF TimersMatchPromises
    <3>3. n < 0
      BY <1>1, <3>1, <3>2 DEF HeldRequestOutlivesHold
    <3> QED BY <3>2, <3>3, DelayAssumption
  <2>12. ASSUME UNCHANGED vars PROVE Outcome
    BY <1>1, <2>12 DEF vars
  <2> HIDE DEF Outcome
  <2> QED BY <1>1, <2>2, <2>3, <2>4, <2>5, <2>6, <2>7, <2>8, <2>9, <2>10, <2>11, <2>12, Zenon
          DEF Next
<1>2. Consistent /\ [Next]_vars => [Step]_vars
  BY <1>1, Zenon
<1> QED BY <1>2, ConsistentInit, ConsistentStep, PTL DEF Spec, HeldRequestHonoured

\* No connected device is promoted unless it asked, is granted control, or belongs to
\* the install whose primary socket has just closed.
THEOREM PromotionsAreAskedFor == Spec => NoSilentPromotion
<1> DEFINE Cause(w) == \/ request.requester = w
                       \/ \E id \in RequestId : RequestControl(w, id)
                       \/ primary \in connected /\ Grant(primary, w)
                       \/ primary \in connected \ connected' /\ w \in Siblings(primary)
           Step == \A w \in connected : primary' = w /\ primary # w => Cause(w)
<1>1. ASSUME Consistent, [Next]_vars, NEW v \in connected, primary' = v, primary # v
      PROVE  Cause(v)
  <2> USE NullAssumption DEF Consistent
  <2>1. v # NoSocket
    BY <1>1 DEF TypeOK
  <2>2. ASSUME NEW w \in Socket, NEW h \in Hello, Connect(w, h) PROVE Cause(v)
    BY <1>1, <2>2, Zenon DEF Connect
  <2>3. ASSUME NEW w \in Socket, Disconnect(w) PROVE Cause(v)
    <3>1. primary = w /\ FirstSibling(w, v)
      BY <1>1, <2>1, <2>3 DEF Disconnect
    <3>2. w \in connected /\ connected' = connected \ {w}
      BY <2>3 DEF Disconnect, Unregister
    <3> QED BY <3>1, <3>2 DEF FirstSibling
  <2>4. ASSUME NEW w \in Socket, NEW id \in RequestId, RequestControl(w, id) PROVE Cause(v)
    <3>1. v = w
      BY <1>1, <2>4, Zenon DEF RequestControl
    <3> QED BY <2>4, <3>1
  <2>5. ASSUME NEW w \in Socket, CancelRequest(w) PROVE Cause(v)
    BY <1>1, <2>5, Zenon DEF CancelRequest
  <2>6. ASSUME NEW w \in Socket, NEW id \in RequestId, NEW accept \in BOOLEAN,
               Respond(w, id, accept)
        PROVE  Cause(v)
    BY <1>1, <2>6, Zenon DEF Respond
  <2>7. ASSUME NEW w \in Socket, NEW target \in Socket, Grant(w, target) PROVE Cause(v)
    <3>1. w \in connected /\ primary = w /\ target = v
      BY <1>1, <2>7 DEF Grant, Listening
    <3> QED BY <2>7, <3>1
  <2>8. ASSUME NEW w \in Socket, Release(w) PROVE Cause(v)
    BY <1>1, <2>8, Zenon DEF Release
  <2>9. ASSUME Tick PROVE Cause(v)
    BY <1>1, <2>9, Zenon DEF Tick
  <2>10. ASSUME NEW t \in HoldTimer, ReservationExpiry(t) PROVE Cause(v)
    BY <1>1, <2>10, Zenon DEF ReservationExpiry
  <2>11. ASSUME NEW t \in RequestTimer, RequestExpiry(t) PROVE Cause(v)
    BY <1>1, <2>11, Zenon DEF RequestExpiry
  <2>12. ASSUME UNCHANGED vars PROVE Cause(v)
    BY <1>1, <2>12 DEF vars
  <2> HIDE DEF Cause
  <2> QED BY <1>1, <2>2, <2>3, <2>4, <2>5, <2>6, <2>7, <2>8, <2>9, <2>10, <2>11, <2>12, Zenon
          DEF Next
<1>2. Consistent /\ [Next]_vars => [Step]_vars
  BY <1>1, Zenon
<1> QED BY <1>2, ConsistentInit, ConsistentStep, PTL DEF Spec, NoSilentPromotion

-----------------------------------------------------------------------------
(* Who can settle a request *)

\* Handoff devices send a client id, as the protocol has it.
HelloIdentified ==
    \A h \in Hello : h.protocol >= HANDOFF_PROTOCOL => h.client_id # NoClientId

\* So a connected device has one exactly if it is handoff-capable.
ClientsIdentified ==
    \A w \in connected :
        client[w].protocol >= HANDOFF_PROTOCOL <=> client[w].client_id # NoClientId

\* What a connected socket declared came with its Hello.
LEMMA ClientsIdentifiedStep ==
    ASSUME HelloIdentified, TypeOK, ClientsIdentified, [Next]_vars
    PROVE  ClientsIdentified'
<1>1. ASSUME NEW w \in Socket, NEW h \in Hello, Connect(w, h) PROVE ClientsIdentified'
  BY <1>1, DeclaredClientType
  DEF Connect, Register, DeclaredClient, HelloIdentified, ClientsIdentified, TypeOK
<1>2. ASSUME NEW w \in Socket, Disconnect(w) PROVE ClientsIdentified'
  BY <1>2 DEF Disconnect, Unregister, ClientsIdentified, TypeOK
<1>3. ASSUME connected' = connected, client' = client PROVE ClientsIdentified'
  BY <1>3 DEF ClientsIdentified
<1>4. \/ \E w \in Socket, h \in Hello : Connect(w, h)
      \/ \E w \in Socket : Disconnect(w)
      \/ connected' = connected /\ client' = client
  BY DEF Next, vars, socketVars, RequestControl, CancelRequest, Respond, Grant, Release, Tick,
         ReservationExpiry, RequestExpiry
<1> QED BY <1>1, <1>2, <1>3, <1>4

\* If handoff devices identify themselves, a pending request is always before
\* a primary that can answer it or a hold that will grant it.
THEOREM RequestsAnswerable ==
    ASSUME HelloIdentified
    PROVE  Spec => []PendingRequestIsAnswerable
<1> DEFINE IInv == Consistent /\ ClientsIdentified /\ PendingRequestIsAnswerable
<1>1. Init => IInv
  <2>1. Init => ClientsIdentified /\ PendingRequestIsAnswerable
    BY DEF Init, ClientsIdentified, PendingRequestIsAnswerable, Pending
  <2> QED BY <2>1, ConsistentInit
<1>2. IInv /\ [Next]_vars => IInv'
  <2> SUFFICES ASSUME IInv, [Next]_vars PROVE PendingRequestIsAnswerable'
    BY ConsistentStep, ClientsIdentifiedStep DEF Consistent
  <2> USE NullAssumption DEF PendingRequestIsAnswerable
  <2>0. \A w \in connected \cap connected' : client'[w] = client[w]
    BY ClientKept DEF Consistent
  <2>1. RolesConsistent /\ HeldRequestOutlivesHold /\ TypeOK /\ TimersMatchPromises
    BY DEF Consistent
  <2>2. ASSUME NEW w \in Socket, NEW h \in Hello, Connect(w, h)
        PROVE  PendingRequestIsAnswerable'
    <3> DEFINE c == DeclaredClient(h).client_id
    <3>1. SUFFICES ASSUME Pending PROVE PendingRequestIsAnswerable'
      BY <2>2 DEF Connect, reqVars, Pending
    <3>2. ~TakesEmptySlot(c, h.prev_role)
      BY <3>1 DEF TakesEmptySlot, SlotFree
    <3>3. ASSUME c # NoClientId PROVE DeclaredClient(h).protocol >= HANDOFF_PROTOCOL
      BY <3>3 DEF DeclaredClient
    <3>4. /\ w \notin connected /\ connected' = connected \cup {w}
          /\ client' = [client EXCEPT ![w] = DeclaredClient(h)]
      BY <2>2 DEF Connect, Register
    <3>5. CASE Reclaims(c) \/ Supersedes(c)
      <4>1. primary' = w /\ c # NoClientId
        BY <2>2, <3>2, <3>5 DEF Connect, Reclaims, Supersedes
      <4> QED BY <3>3, <3>4, <4>1 DEF SupportsHandoff, TypeOK, Consistent
    <3>6. CASE ~(Reclaims(c) \/ Supersedes(c))
      <4>1. UNCHANGED <<primary, reservedFor>>
        BY <2>2, <3>2, <3>6 DEF Connect, holdVars
      <4> QED BY <2>0, <2>1, <3>1, <3>4, <4>1 DEF SupportsHandoff
    <3> QED BY <3>5, <3>6
  <2>3. ASSUME NEW w \in Socket, Disconnect(w) PROVE PendingRequestIsAnswerable'
    <3>1. SUFFICES ASSUME Pending' PROVE PendingRequestIsAnswerable'
      OBVIOUS
    <3>2. Pending
      BY <2>3, <3>1 DEF Disconnect, Withdraw, ClearRequest, Pending, reqVars
    <3>3. connected' = connected \ {w}
      BY <2>3 DEF Disconnect, Unregister
    <3>4. CASE primary # w
      <4>1. UNCHANGED <<primary, reservedFor>>
        BY <2>3, <3>4 DEF Disconnect, holdVars
      <4> QED BY <2>0, <3>2, <3>3, <3>4, <4>1 DEF SupportsHandoff
    <3>5. CASE primary = w
      <4>1. w \in connected /\ client[w].client_id # NoClientId
        BY <2>1, <3>2, <3>5 DEF SupportsHandoff, RolesConsistent, ClientsIdentified
      <4>2. \/ \E s \in Socket : FirstSibling(w, s) /\ primary' = s
            \/ reservedFor' = client[w].client_id
        BY <2>3, <3>5, <4>1 DEF Disconnect, StartReservation
      <4>3. ASSUME NEW s \in Socket, FirstSibling(w, s), primary' = s
            PROVE  PendingRequestIsAnswerable'
        <5>1. s \in connected' /\ client'[s].client_id = client[w].client_id
          BY <2>0, <3>3, <4>1, <4>3 DEF FirstSibling, Siblings, Install
        <5>2. client'[s].protocol >= HANDOFF_PROTOCOL
          <6>1. ClientsIdentified'
            BY ClientsIdentifiedStep DEF Consistent
          <6> QED BY <4>1, <5>1, <6>1 DEF ClientsIdentified
        <5> QED BY <4>3, <5>1, <5>2 DEF SupportsHandoff
      <4> QED BY <4>1, <4>2, <4>3
    <3> QED BY <3>4, <3>5
  <2>4. ASSUME NEW w \in Socket, NEW id \in RequestId, RequestControl(w, id)
        PROVE  PendingRequestIsAnswerable'
    BY <2>4
    DEF RequestControl, StartRequest, SlotFree, SupportsHandoff, Pending, socketVars, holdVars, reqVars
  <2>5. ASSUME ClearRequest PROVE PendingRequestIsAnswerable'
    BY <2>5 DEF ClearRequest, Pending
  <2>6. ASSUME UNCHANGED <<connected, client, primary, reservedFor, request>>
        PROVE  PendingRequestIsAnswerable'
    BY <2>6 DEF Pending, SupportsHandoff
  <2>7. ASSUME NEW w \in Socket, CancelRequest(w) PROVE PendingRequestIsAnswerable'
    BY <2>5, <2>7 DEF CancelRequest
  <2>8. ASSUME NEW w \in Socket, NEW id \in RequestId, NEW accept \in BOOLEAN,
               Respond(w, id, accept)
        PROVE  PendingRequestIsAnswerable'
    BY <2>5, <2>8 DEF Respond
  <2>9. ASSUME NEW w \in Socket, NEW target \in Socket, Grant(w, target)
        PROVE  PendingRequestIsAnswerable'
    BY <2>5, <2>9 DEF Grant
  <2>10. ASSUME NEW w \in Socket, Release(w) PROVE PendingRequestIsAnswerable'
    BY <2>5, <2>10 DEF Release
  <2>11. ASSUME Tick PROVE PendingRequestIsAnswerable'
    BY <2>6, <2>11 DEF Tick, socketVars
  <2>12. ASSUME NEW t \in HoldTimer, ReservationExpiry(t) PROVE PendingRequestIsAnswerable'
    <3>1. reservedFor = t.client_id /\ reservedFor # NoClientId /\ primary = NoSocket
      BY <2>1, <2>12 DEF ReservationExpiry, TimersMatchPromises, RolesConsistent
    <3>2. CASE Pending
      BY <2>5, <2>12, <3>1, <3>2 DEF ReservationExpiry
    <3>3. CASE ~Pending
      BY <2>12, <3>1, <3>3 DEF ReservationExpiry, Pending, reqVars
    <3> QED BY <3>2, <3>3
  <2>13. ASSUME NEW t \in RequestTimer, RequestExpiry(t) PROVE PendingRequestIsAnswerable'
    BY <2>13 DEF RequestExpiry, Pending, SupportsHandoff, socketVars, holdVars
  <2>14. ASSUME UNCHANGED vars PROVE PendingRequestIsAnswerable'
    BY <2>6, <2>14 DEF vars, socketVars, holdVars, reqVars
  <2> HIDE DEF PendingRequestIsAnswerable
  <2> QED BY <2>2, <2>3, <2>4, <2>7, <2>8, <2>9, <2>10, <2>11, <2>12, <2>13, <2>14, Zenon
          DEF Next
<1> QED BY <1>1, <1>2, PTL DEF Spec

-----------------------------------------------------------------------------
(* ControlSlot is implemented: initial states map to its own, steps to its steps or none *)

\* An install id is never taken for a socket: a party is one or the other.
PartiesDistinct == ClientId \cap Socket = {} /\ NoSocket \notin ClientId

-----------------------------------------------------------------------------
(* The abstract state, by the names ControlSlot has for it *)

Present  == {PartyOf(w) : w \in connected}
Holder   == IF primary = NoSocket THEN NoSocket ELSE PartyOf(primary)
Reserved == IF reservedFor = NoClientId THEN NoSocket ELSE reservedFor
Waiting  == IF Pending THEN PartyOf(request.requester) ELSE NoSocket

AbstractVars == <<Present, Holder, Reserved, Waiting>>
IsFree == Holder = NoSocket /\ Reserved = NoSocket

\* What each step of ControlSlot changes: a party that arrives.
LEMMA ArriveStep ==
    ASSUME NEW p \in ClientId \cup Socket,
           p \notin Present, Present' = Present \cup {p}, Waiting' = Waiting,
           IF Reserved = p THEN Holder' = p /\ Reserved' = NoSocket
                           ELSE (Holder' = Holder \/ (IsFree /\ Holder' = p)) /\ Reserved' = Reserved
    PROVE  Slot!Next
<1>1. Slot!Arrive(p)
  BY DEF Slot!Arrive, Slot!Free, Present, Holder, Reserved, Waiting, IsFree
<1> QED BY <1>1 DEF Slot!Next, Slot!Party

\* A party that leaves.
LEMMA LeaveStep ==
    ASSUME NEW p \in ClientId \cup Socket,
           p \in Present, Present' = Present \ {p},
           IF Holder = p
           THEN Holder' = NoSocket /\ Reserved' = (IF p \in ClientId THEN p ELSE NoSocket)
           ELSE Holder' = Holder /\ Reserved' = Reserved,
           Waiting' = (IF Waiting = p THEN NoSocket ELSE Waiting)
    PROVE  Slot!Next
<1>1. Slot!Leave(p)
  BY DEF Slot!Leave, Present, Holder, Reserved, Waiting
<1> QED BY <1>1 DEF Slot!Next, Slot!Party

\* A party that takes free control.
LEMMA TakeStep ==
    ASSUME NEW p \in ClientId \cup Socket,
           p \in Present, IsFree, Holder' = p,
           Present' = Present, Reserved' = Reserved, Waiting' = Waiting
    PROVE  Slot!Next
<1>1. Slot!Take(p)
  BY DEF Slot!Take, Slot!Free, Present, Holder, Reserved, Waiting, IsFree
<1> QED BY <1>1 DEF Slot!Next, Slot!Party

\* A party that asks for control.
LEMMA AskStep ==
    ASSUME NEW p \in ClientId \cup Socket,
           p \in Present, ~IsFree, Waiting = NoSocket, Waiting' = p,
           Present' = Present, Holder' = Holder, Reserved' = Reserved
    PROVE  Slot!Next
<1>1. Slot!Ask(p)
  BY DEF Slot!Ask, Slot!Free, Present, Holder, Reserved, Waiting, IsFree
<1> QED BY <1>1 DEF Slot!Next, Slot!Party

\* A request that comes to nothing.
LEMMA DismissStep ==
    ASSUME Waiting # NoSocket, Waiting' = NoSocket,
           Present' = Present, Holder' = Holder, Reserved' = Reserved
    PROVE  Slot!Next
<1>1. Slot!Dismiss
  BY DEF Slot!Dismiss, Present, Holder, Reserved, Waiting
<1> QED BY <1>1 DEF Slot!Next

\* Control that is handed on or laid down.
LEMMA PassStep ==
    ASSUME Holder \in ClientId \cup Socket, Holder \in Present,
           Holder' \in Present \cup {NoSocket}, Present \subseteq ClientId \cup Socket,
           Waiting' = NoSocket, Present' = Present, Reserved' = Reserved
    PROVE  Slot!Next
<1>1. Slot!Pass(Holder, Holder')
  BY DEF Slot!Pass, Present, Holder, Reserved, Waiting
<1>2. Holder' \in ClientId \cup Socket \cup {NoSocket}
  OBVIOUS
<1> QED BY <1>1, <1>2 DEF Slot!Next, Slot!Party

\* A hold that runs out.
LEMMA LapseStep ==
    ASSUME Reserved # NoSocket, Reserved' = NoSocket, Holder' = Waiting,
           Waiting' = NoSocket, Present' = Present
    PROVE  Slot!Next
<1>1. Slot!Lapse
  BY DEF Slot!Lapse, Present, Holder, Reserved, Waiting
<1> QED BY <1>1 DEF Slot!Next

-----------------------------------------------------------------------------
(* The parties *)

\* Parties have names that are none of NoSocket's, and those of the sockets, the
\* primary and the requester are among the parties that are present.
LEMMA Parties ==
    ASSUME PartiesDistinct, Consistent
    PROVE  /\ \A w \in Socket : PartyOf(w) \in ClientId \cup Socket
           /\ NoSocket \notin ClientId \cup Socket
           /\ Present \subseteq ClientId \cup Socket
           /\ \A w \in connected : PartyOf(w) \in Present
           /\ primary # NoSocket => primary \in connected
           /\ Pending => request.requester \in connected
BY NullAssumption DEF PartiesDistinct, Consistent, TypeOK, Client, PartyOf, Present,
   RolesConsistent, SupportsHandoff

\* Steps that leave the sockets alone leave the parties alone.
LEMMA PartiesKept ==
    ASSUME UNCHANGED <<connected, client>>
    PROVE  Present' = Present /\ \A w : PartyOf(w)' = PartyOf(w)
BY DEF Present, PartyOf

\* Two sockets are of one party exactly if they are one, or siblings.
LEMMA SameParty ==
    ASSUME PartiesDistinct, Consistent, NEW w \in connected, NEW v \in connected,
           v # w
    PROVE  PartyOf(v) = PartyOf(w) <=> v \in Siblings(w)
BY DEF PartiesDistinct, Consistent, TypeOK, Client, PartyOf, Siblings, Install

\* The slot is free for ControlSlot when it is for the manager.
LEMMA FreeIsFree ==
    ASSUME PartiesDistinct, Consistent
    PROVE  IsFree <=> SlotFree
<1>1. primary # NoSocket => PartyOf(primary) # NoSocket
  BY Parties DEF Consistent, TypeOK
<1>2. reservedFor # NoClientId => reservedFor # NoSocket
  BY DEF Consistent, TypeOK, PartiesDistinct
<1> QED BY <1>1, <1>2 DEF IsFree, SlotFree, Holder, Reserved

-----------------------------------------------------------------------------
(* The steps of the manager *)

\* A socket that connects is its install's arrival, if it is the first of it; if not,
\* it takes free control or changes nothing that ControlSlot knows of.
LEMMA ConnectStep ==
    ASSUME PartiesDistinct, Consistent, NEW w \in Socket, NEW h \in Hello, Connect(w, h)
    PROVE  Slot!Next \/ AbstractVars' = AbstractVars
<1> USE NullAssumption
<1> DEFINE c == DeclaredClient(h).client_id
           p == PartyOf(w)'
<1>1. /\ w \notin connected /\ connected' = connected \cup {w}
      /\ client' = [client EXCEPT ![w] = DeclaredClient(h)]
      /\ request' = request
  BY DEF Connect, Register, reqVars
<1>2. DeclaredClient(h) \in Client /\ TypeOK
  BY DeclaredClientType DEF Consistent
<1>3. client'[w] = DeclaredClient(h) /\ \A v \in connected : client'[v] = client[v]
  BY <1>1, <1>2 DEF TypeOK
<1>4. p = (IF c = NoClientId THEN w ELSE c) /\ p \in ClientId \cup Socket
  BY <1>2, <1>3 DEF PartyOf, Client
<1>5. \A v \in connected : PartyOf(v)' = PartyOf(v)
  BY <1>3 DEF PartyOf
<1>6. Present' = Present \cup {p}
  BY <1>1, <1>5 DEF Present
<1>7. Waiting' = Waiting
  BY <1>1, <1>5, Parties DEF Waiting, Pending
<1>8. reservedFor # NoClientId => reservedFor \in ClientId /\ reservedFor \notin Present
  <2>1. SUFFICES ASSUME reservedFor # NoClientId, NEW v \in connected, PartyOf(v) = reservedFor
                 PROVE  FALSE
    BY <1>2 DEF TypeOK, Present
  <2>2. v \in Socket /\ reservedFor \in ClientId
    BY <1>2, <2>1 DEF TypeOK
  <2>3. client[v].client_id = reservedFor
    BY <2>1, <2>2 DEF PartyOf, PartiesDistinct
  <2> QED BY <2>1, <2>3 DEF Consistent, HoldOwnerAbsent, Install
<1>9. Reserved = p <=> Reclaims(c)
  BY <1>2, <1>4 DEF Reserved, Reclaims, PartiesDistinct, TypeOK
<1>10. CASE Reclaims(c) /\ primary' = w /\ EndReservation
  <2>1. p = c /\ c = reservedFor /\ c # NoClientId
    BY <1>4, <1>10 DEF Reclaims
  <2>2. p \notin Present
    BY <1>8, <2>1
  <2>3. Holder' = p /\ Reserved' = NoSocket
    BY <1>10 DEF Holder, Reserved, EndReservation
  <2> QED BY <1>4, <1>6, <1>7, <1>9, <1>10, <2>2, <2>3, ArriveStep
<1>11. CASE Supersedes(c) /\ primary' = w /\ UNCHANGED reservedFor
  <2>1. primary \in connected /\ client[primary].client_id = c /\ c # NoClientId
    BY <1>11 DEF Supersedes
  <2>2. PartyOf(primary) = p /\ primary # NoSocket
    BY <1>2, <1>4, <2>1 DEF PartyOf, TypeOK
  <2>3. Holder' = Holder
    BY <1>11, <2>2 DEF Holder
  <2>4. Present' = Present /\ Reserved' = Reserved
    BY <1>6, <1>11, <2>1, <2>2, Parties DEF Reserved
  <2> QED BY <1>7, <2>3, <2>4 DEF AbstractVars
<1>12. CASE TakesEmptySlot(c, h.prev_role) /\ primary' = w /\ UNCHANGED reservedFor
  <2>1. IsFree
    BY <1>12, FreeIsFree DEF TakesEmptySlot
  <2>2. Holder' = p /\ Reserved' = Reserved
    BY <1>12 DEF Holder, Reserved
  <2>3. Reserved # p
    BY <1>4, <2>1, Parties DEF IsFree
  <2>4. CASE p \in Present
    <3>1. Present' = Present
      BY <1>6, <2>4
    <3> QED BY <1>4, <1>7, <2>1, <2>2, <2>4, <3>1, TakeStep
  <2>5. CASE p \notin Present
    BY <1>4, <1>6, <1>7, <2>1, <2>2, <2>3, <2>5, ArriveStep
  <2> QED BY <2>4, <2>5
<1>13. CASE ~Reclaims(c) /\ UNCHANGED <<primary, reservedFor>>
  <2>1. Holder' = Holder /\ Reserved' = Reserved
    BY <1>5, <1>13, Parties DEF Holder, Reserved
  <2>2. Reserved # p
    BY <1>9, <1>13
  <2>3. CASE p \in Present
    BY <1>6, <1>7, <2>1, <2>3 DEF AbstractVars
  <2>4. CASE p \notin Present
    BY <1>4, <1>6, <1>7, <2>1, <2>2, <2>4, ArriveStep
  <2> QED BY <2>3, <2>4
<1> QED BY <1>10, <1>11, <1>12, <1>13, Zenon DEF Connect, holdVars

\* A socket that closes with siblings left changes at most the request; the last one
\* of an install, or an unidentified device, is its party's departure.
LEMMA DisconnectStep ==
    ASSUME PartiesDistinct, Consistent, NEW w \in Socket, Disconnect(w)
    PROVE  Slot!Next \/ AbstractVars' = AbstractVars
<1> USE NullAssumption
<1> DEFINE p == PartyOf(w)
<1>1. w \in connected /\ connected' = connected \ {w} /\ client' = [client EXCEPT ![w] = NoClient]
  BY DEF Disconnect, Unregister
<1>2. TypeOK /\ RolesConsistent
  BY DEF Consistent
<1>3. \A v \in connected \ {w} : PartyOf(v)' = PartyOf(v)
  BY <1>1, <1>2 DEF TypeOK, PartyOf
<1>4. p \in Present /\ p \in ClientId \cup Socket /\ p # NoSocket
  BY <1>1, Parties
<1>5. \A v \in connected \ {w} : PartyOf(v) = p <=> v \in Siblings(w)
  BY <1>1, SameParty
<1>6. IF request.requester = w THEN ~Pending' ELSE request' = request
  BY DEF Disconnect, Withdraw, ClearRequest, Pending, reqVars
<1>7. Pending => request.requester \in connected /\ request.requester # NoSocket
  BY <1>2, Parties DEF TypeOK
<1>8. ~Pending => request.requester # w
  BY DEF Pending, NoRequest
<1>9. Waiting' = IF request.requester = w THEN NoSocket ELSE Waiting
  <2>1. CASE request.requester = w
    BY <1>6, <2>1 DEF Waiting
  <2>2. CASE request.requester # w
    <3>1. request' = request
      BY <1>6, <2>2
    <3>2. CASE Pending
      BY <1>3, <1>7, <2>2, <3>1, <3>2 DEF Waiting, Pending
    <3>3. CASE ~Pending
      BY <2>2, <3>1, <3>3 DEF Waiting, Pending
    <3> QED BY <3>2, <3>3
  <2> QED BY <2>1, <2>2
<1>10. primary # w => Holder' = Holder /\ Reserved' = Reserved
  <2>1. SUFFICES ASSUME primary # w PROVE Holder' = Holder /\ Reserved' = Reserved
    OBVIOUS
  <2>2. primary' = primary /\ reservedFor' = reservedFor
    BY <2>1 DEF Disconnect, holdVars
  <2>3. primary # NoSocket => primary \in connected \ {w}
    BY <2>1, Parties
  <2> QED BY <1>3, <2>2, <2>3 DEF Holder, Reserved
<1>11. CASE Siblings(w) # {}
  <2>1. PICK v : v \in Siblings(w)
    BY <1>11
  <2>2. v \in connected \ {w} /\ PartyOf(v) = p
    BY <1>5, <2>1 DEF Siblings, Install
  <2>3. Present' = Present
    BY <1>1, <1>3, <2>2 DEF Present
  <2>4. client[w].client_id # NoClientId
    BY <1>11 DEF Siblings
  <2>5. Holder' = Holder /\ Reserved' = Reserved
    <3>1. CASE primary = w
      <4>1. PICK s \in Socket : FirstSibling(w, s) /\ primary' = s /\ UNCHANGED reservedFor
        BY <1>11, <2>4, <3>1, Zenon DEF Disconnect, holdVars
      <4>2. s \in connected \ {w} /\ PartyOf(s) = p
        BY <1>5, <4>1 DEF FirstSibling, Siblings, Install
      <4>3. Holder = p /\ Holder' = p
        BY <1>1, <1>2, <1>3, <3>1, <4>1, <4>2 DEF Holder, TypeOK
      <4> QED BY <4>1, <4>3 DEF Reserved
    <3> QED BY <1>10, <3>1
  <2>6. CASE Waiting' = Waiting
    BY <2>3, <2>5, <2>6 DEF AbstractVars
  <2>7. CASE Waiting' # Waiting
    BY <1>9, <2>3, <2>5, <2>7, DismissStep
  <2> QED BY <2>6, <2>7
<1>12. CASE Siblings(w) = {}
  <2>1. \A v \in connected \ {w} : PartyOf(v) # p
    BY <1>5, <1>12
  <2>2. Present' = Present \ {p}
    BY <1>1, <1>3, <2>1 DEF Present
  <2>3. Waiting = p <=> request.requester = w
    BY <1>1, <1>4, <1>7, <1>8, <2>1 DEF Waiting
  <2>4. Waiting' = IF Waiting = p THEN NoSocket ELSE Waiting
    BY <1>9, <2>3
  <2>5. CASE primary = w
    <3>1. Holder = p /\ reservedFor = NoClientId
      BY <1>1, <1>2, <2>5 DEF Holder, RolesConsistent, TypeOK
    <3>2. ~\E s \in Socket : FirstSibling(w, s)
      BY <1>12 DEF FirstSibling
    <3>3. /\ primary' = NoSocket
          /\ reservedFor' = (IF client[w].client_id = NoClientId THEN reservedFor
                             ELSE client[w].client_id)
      BY <2>5, <3>2 DEF Disconnect, StartReservation, holdVars
    <3>4. Holder' = NoSocket
      BY <3>3 DEF Holder
    <3>5. Reserved' = IF p \in ClientId THEN p ELSE NoSocket
      BY <1>2, <3>1, <3>3 DEF Reserved, PartyOf, PartiesDistinct, TypeOK, Client
    <3> QED BY <1>4, <2>2, <2>4, <3>1, <3>4, <3>5, LeaveStep
  <2>6. CASE primary # w
    <3>1. Holder # p
      <4>1. primary # NoSocket => primary \in connected \ {w}
        BY <2>6, Parties
      <4> QED BY <1>4, <2>1, <4>1 DEF Holder
    <3> QED BY <1>4, <1>10, <2>2, <2>4, <2>6, <3>1, LeaveStep
  <2> QED BY <2>5, <2>6
<1> QED BY <1>11, <1>12

\* What a step that leaves the sockets alone does to the abstract state.
LEMMA SocketsKept ==
    ASSUME Consistent, UNCHANGED <<connected, client>>
    PROVE  /\ Present' = Present
           /\ UNCHANGED primary => Holder' = Holder
           /\ \A w \in connected : primary' = w => Holder' = PartyOf(w)
           /\ primary' = NoSocket => Holder' = NoSocket
           /\ UNCHANGED reservedFor => Reserved' = Reserved
           /\ UNCHANGED request => Waiting' = Waiting
           /\ ~Pending' => Waiting' = NoSocket
BY PartiesKept, NullAssumption DEF Holder, Reserved, Waiting, Pending, Consistent, TypeOK

\* The party whose request is pending.
LEMMA WaitingParty ==
    ASSUME PartiesDistinct, Consistent
    PROVE  IF Pending THEN Waiting = PartyOf(request.requester) /\ Waiting # NoSocket
                      ELSE Waiting = NoSocket
BY Parties DEF Waiting, Consistent, TypeOK

\* Clearing the request while control stays where it is.
LEMMA ClearingStep ==
    ASSUME PartiesDistinct, Consistent, Pending, ~Pending',
           UNCHANGED <<connected, client, primary, reservedFor>>
    PROVE  Slot!Next
BY SocketsKept, WaitingParty, DismissStep

\* The primary hands control to a device that is connected, or lays it down.
LEMMA HandingStep ==
    ASSUME PartiesDistinct, Consistent, NEW w \in Socket, primary = w,
           primary' \in connected \cup {NoSocket}, ~Pending',
           UNCHANGED <<connected, client, reservedFor>>
    PROVE  Slot!Next
<1>1. Holder = PartyOf(w) /\ Holder \in Present /\ Holder \in ClientId \cup Socket
  BY Parties, NullAssumption DEF Holder
<1>2. Holder' \in Present \cup {NoSocket}
  BY SocketsKept, Parties
<1>3. Present' = Present /\ Reserved' = Reserved /\ Waiting' = NoSocket
  BY SocketsKept
<1>4. Present \subseteq ClientId \cup Socket
  BY Parties
<1> QED BY <1>1, <1>2, <1>3, <1>4, PassStep

\* A request takes free control, or is made.
LEMMA RequestStep ==
    ASSUME PartiesDistinct, Consistent, NEW w \in Socket, NEW id \in RequestId,
           RequestControl(w, id)
    PROVE  Slot!Next
<1>1. w \in connected /\ ~Pending /\ UNCHANGED <<connected, client, reservedFor>>
  BY DEF RequestControl, Listening, socketVars, holdVars
<1>2. PartyOf(w) \in Present /\ PartyOf(w) \in ClientId \cup Socket
  BY <1>1, Parties
<1>3. Waiting = NoSocket
  BY <1>1, WaitingParty
<1>4. CASE SlotFree
  <2>1. primary' = w /\ request' = request
    BY <1>4, Zenon DEF RequestControl, reqVars
  <2> QED BY <1>1, <1>2, <1>4, <2>1, SocketsKept, FreeIsFree, TakeStep
<1>5. CASE ~SlotFree
  <2>1. request' = [id |-> id, requester |-> w] /\ primary' = primary
    BY <1>5, Zenon DEF RequestControl, StartRequest
  <2>2. Pending' /\ request'.requester = w
    BY <2>1, NullAssumption DEF Pending, NoRequest
  <2>3. Waiting' = PartyOf(w)
    BY <1>1, <2>2, PartiesKept DEF Waiting
  <2> QED BY <1>1, <1>2, <1>3, <1>5, <2>1, <2>3, SocketsKept, FreeIsFree, AskStep
<1> QED BY <1>4, <1>5

\* The end of a hold gives control to whoever waits for it.
LEMMA HoldEndStep ==
    ASSUME PartiesDistinct, Consistent, NEW t \in HoldTimer, ReservationExpiry(t)
    PROVE  Slot!Next
<1> USE NullAssumption
<1>1. UNCHANGED <<connected, client>>
  BY DEF ReservationExpiry, socketVars
<1>2. reservedFor = t.client_id /\ reservedFor # NoClientId /\ primary = NoSocket
  BY DEF ReservationExpiry, Consistent, TimersMatchPromises, RolesConsistent
<1>3. reservedFor' = NoClientId
  BY <1>2 DEF ReservationExpiry
<1>4. Reserved # NoSocket /\ Reserved' = NoSocket
  BY <1>2, <1>3 DEF Reserved, Consistent, TypeOK, PartiesDistinct
<1>5. CASE Pending
  <2>1. primary' = request.requester /\ ~Pending'
    BY <1>2, <1>5 DEF ReservationExpiry, ClearRequest, Pending
  <2>2. request.requester \in connected
    BY <1>5, Parties
  <2> QED BY <1>1, <1>4, <1>5, <2>1, <2>2, SocketsKept, WaitingParty, LapseStep
<1>6. CASE ~Pending
  <2>1. primary' = NoSocket /\ request' = request
    BY <1>2, <1>6 DEF ReservationExpiry, reqVars
  <2> QED BY <1>1, <1>4, <1>6, <2>1, SocketsKept, WaitingParty, LapseStep
<1> QED BY <1>5, <1>6

\* Every step of the manager is one of ControlSlot, or nothing that it knows of.
LEMMA ManagerStep ==
    ASSUME PartiesDistinct, Consistent, [Next]_vars
    PROVE  Slot!Next \/ AbstractVars' = AbstractVars
<1> USE NullAssumption
<1>1. ASSUME NEW w \in Socket, NEW h \in Hello, Connect(w, h)
      PROVE  Slot!Next \/ AbstractVars' = AbstractVars
  BY <1>1, ConnectStep
<1>2. ASSUME NEW w \in Socket, Disconnect(w)
      PROVE  Slot!Next \/ AbstractVars' = AbstractVars
  BY <1>2, DisconnectStep
<1>3. ASSUME NEW w \in Socket, NEW id \in RequestId, RequestControl(w, id) PROVE Slot!Next
  BY <1>3, RequestStep
<1>4. ASSUME NEW w \in Socket, CancelRequest(w) PROVE Slot!Next
  <2>1. Pending /\ ~Pending' /\ UNCHANGED <<connected, client, primary, reservedFor>>
    BY <1>4 DEF CancelRequest, ClearRequest, Pending, NoRequest, socketVars, holdVars
  <2> QED BY <2>1, ClearingStep
<1>5. ASSUME NEW w \in Socket, NEW id \in RequestId, NEW accept \in BOOLEAN,
             Respond(w, id, accept)
      PROVE  Slot!Next
  <2>1. Pending /\ ~Pending' /\ primary = w /\ UNCHANGED <<connected, client, reservedFor>>
    BY <1>5 DEF Respond, ClearRequest, Pending, socketVars, holdVars
  <2>2. request.requester \in connected /\ primary \in connected
    BY <2>1, Parties
  <2>3. primary' \in connected \cup {NoSocket}
    BY <1>5, <2>2 DEF Respond
  <2> QED BY <2>1, <2>3, HandingStep
<1>6. ASSUME NEW w \in Socket, NEW target \in Socket, Grant(w, target) PROVE Slot!Next
  <2>1. /\ ~Pending' /\ primary = w /\ primary' \in connected
        /\ UNCHANGED <<connected, client, reservedFor>>
    BY <1>6 DEF Grant, ClearRequest, Pending, SupportsHandoff, socketVars, holdVars
  <2> QED BY <2>1, HandingStep
<1>7. ASSUME NEW w \in Socket, Release(w) PROVE Slot!Next
  <2>1. /\ ~Pending' /\ primary = w /\ primary' = request.requester
        /\ UNCHANGED <<connected, client, reservedFor>>
    BY <1>7 DEF Release, ClearRequest, Pending, holdVars
  <2>2. request.requester \in connected \cup {NoSocket}
    BY Parties DEF Pending, NoRequest
  <2> QED BY <2>1, <2>2, HandingStep
<1>8. CASE Tick
  <2>1. UNCHANGED <<connected, client, primary, reservedFor, request>>
    BY <1>8 DEF Tick, socketVars
  <2> QED BY <2>1, SocketsKept DEF AbstractVars
<1>9. ASSUME NEW t \in HoldTimer, ReservationExpiry(t) PROVE Slot!Next
  BY <1>9, HoldEndStep
<1>10. ASSUME NEW t \in RequestTimer, RequestExpiry(t) PROVE Slot!Next
  <2>1. Pending /\ request.id = t.id
    BY <1>10 DEF RequestExpiry, Consistent, TimersMatchPromises
  <2>2. ~Pending' /\ UNCHANGED <<connected, client, primary, reservedFor>>
    BY <1>10, <2>1 DEF RequestExpiry, Pending, socketVars, holdVars
  <2> QED BY <2>1, <2>2, ClearingStep
<1>11. CASE UNCHANGED vars
  <2>1. UNCHANGED <<connected, client, primary, reservedFor, request>>
    BY <1>11 DEF vars, socketVars, holdVars, reqVars
  <2> QED BY <2>1, SocketsKept DEF AbstractVars
<1> QED BY <1>1, <1>2, <1>3, <1>4, <1>5, <1>6, <1>7, <1>8, <1>9, <1>10, <1>11, Zenon DEF Next

-----------------------------------------------------------------------------
\* For whoever watches the parties, control only moves as ControlSlot says, for any
\* number of sockets and installs (_ConnectionManager).
THEOREM ImplementsControlSlot ==
    ASSUME PartiesDistinct
    PROVE  Spec => SlotSpec
<1>1. Init => Slot!Init
  BY DEF Init, Slot!Init, Pending
<1>2. Consistent /\ [Next]_vars => [Slot!Next]_(Slot!slotVars)
  <2> SUFFICES ASSUME Consistent, [Next]_vars
               PROVE  Slot!Next \/ UNCHANGED Slot!slotVars
    OBVIOUS
  <2>1. AbstractVars' = AbstractVars => UNCHANGED Slot!slotVars
    BY DEF AbstractVars, Present, Holder, Reserved, Waiting, Slot!slotVars
  <2> QED BY <2>1, ManagerStep
<1> QED BY <1>1, <1>2, AlwaysConsistent, PTL DEF Spec, SlotSpec, Slot!Spec

=============================================================================
