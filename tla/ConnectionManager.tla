------------------------- MODULE ConnectionManager -------------------------
(***************************************************************************)
(* The role bookkeeping of the bridge: class _ConnectionManager of         *)
(* bridge/server.py.  One device at a time is "primary"; the others are    *)
(* observers.  The manager runs on one asyncio event loop and every public *)
(* method changes its state before its first await, so each method (and    *)
(* the body of each timer task, once its sleep is over) is one action.     *)
(*                                                                         *)
(* What the methods send after that first await is not here: it reads this *)
(* state and never changes it.                                             *)
(***************************************************************************)
EXTENDS Integers, FiniteSets

CONSTANTS
    Socket,           \* WebSocket objects; one that has left may connect again
    ClientId,         \* stable per-install ids
    RequestId,        \* ids of control requests
    Hello,            \* the query parameters sockets connect with
    NoSocket, NoClientId, NoRequestId,
    RECLAIM_GRACE,    \* ticks a dropped primary's slot is held
    REQUEST_TIMEOUT   \* ticks a request waits for its answer

HANDOFF_PROTOCOL == 2

ASSUME NullAssumption ==
    /\ NoSocket \notin Socket
    /\ NoClientId \notin ClientId
    /\ NoRequestId \notin RequestId

ASSUME HelloAssumption ==
    Hello \subseteq [protocol  : 1..HANDOFF_PROTOCOL,
                     client_id : ClientId \cup {NoClientId},
                     prev_role : {"none", "primary", "observer"}]

\* The two delays are 15 s and 20 s; only their order matters here.
ASSUME DelayAssumption ==
    /\ RECLAIM_GRACE \in Nat \ {0}
    /\ REQUEST_TIMEOUT \in Nat
    /\ RECLAIM_GRACE < REQUEST_TIMEOUT

VARIABLES
    connected,        \* the keys of _clients
    client,           \* the values of _clients: what each connected socket declared
    older,            \* insertion order of _clients: <<a, b>> when a came before b
    released,         \* sockets whose handler ran release() and has yet to leave
    primary,          \* _primary
    reservedFor,      \* _reserved_for
    request,          \* _request
    holdTimers,       \* sleeping _reservation_expiry tasks
    requestTimers,    \* sleeping _request_expiry tasks
    filedInHold       \* history: the pending request was made during the current hold

socketVars == <<connected, client, older, released>>
holdVars   == <<reservedFor, holdTimers>>
reqVars    == <<request, requestTimers>>
vars == <<socketVars, primary, holdVars, reqVars, filedInHold>>

-----------------------------------------------------------------------------
(* State *)

Client    == [client_id : ClientId \cup {NoClientId}, protocol : 0..HANDOFF_PROTOCOL]
NoClient  == [client_id |-> NoClientId, protocol |-> 0]
Request   == [id : RequestId, requester : Socket]
NoRequest == [id |-> NoRequestId, requester |-> NoSocket]

HoldTimer    == [client_id : ClientId, left : 0..RECLAIM_GRACE]
RequestTimer == [id : RequestId, left : 0..REQUEST_TIMEOUT]

TypeOK ==
    /\ connected \subseteq Socket
    /\ client \in [Socket -> Client]
    /\ older \subseteq connected \X connected
    /\ released \subseteq connected
    /\ primary \in Socket \cup {NoSocket}
    /\ reservedFor \in ClientId \cup {NoClientId}
    /\ request \in Request \cup {NoRequest}
    /\ holdTimers \subseteq HoldTimer
    /\ requestTimers \subseteq RequestTimer
    /\ filedInHold \in BOOLEAN

Init ==
    /\ connected = {}
    /\ client = [w \in Socket |-> NoClient]
    /\ older = {}
    /\ released = {}
    /\ primary = NoSocket
    /\ reservedFor = NoClientId
    /\ request = NoRequest
    /\ holdTimers = {}
    /\ requestTimers = {}
    /\ filedInHold = FALSE

-----------------------------------------------------------------------------
(* Queries *)

SupportsHandoff(w) == w \in connected /\ client[w].protocol >= HANDOFF_PROTOCOL

\* Sockets whose handler is still in its receive loop.
Listening == connected \ released

\* The connected sockets of one install.
Install(c) == {w \in connected : client[w].client_id = c}

SlotFree == primary = NoSocket /\ reservedFor = NoClientId
Pending  == request # NoRequest

-----------------------------------------------------------------------------
(* Helpers of the manager.  A definition called a variant, here and below, *)
(* is a faulty form of the definition after it; no behaviour uses it, and  *)
(* the README names the property that each one breaks.                     *)

\* _end_reservation cancels the task of the current reservation.
HoldTimersAfterCancel == {t \in holdTimers : t.client_id # reservedFor}

EndReservation ==
    /\ reservedFor' = NoClientId
    /\ holdTimers' = HoldTimersAfterCancel
    /\ filedInHold' = FALSE

\* Variant: the task that ends the hold is never created.
StartReservation_NoTimer(c) ==
    /\ reservedFor' = c
    /\ holdTimers' = HoldTimersAfterCancel
    /\ filedInHold' = FALSE

StartReservation(c) ==
    /\ reservedFor' = c
    /\ holdTimers' = HoldTimersAfterCancel \cup {[client_id |-> c, left |-> RECLAIM_GRACE]}
    /\ filedInHold' = FALSE

\* Variants of StartRequest: no expiry task; the wrong delay.
StartRequest_NoTimer(w, id) ==
    /\ request' = [id |-> id, requester |-> w]
    /\ UNCHANGED requestTimers

StartRequest_ShortTimer(w, id) ==
    /\ request' = [id |-> id, requester |-> w]
    /\ requestTimers' = requestTimers \cup {[id |-> id, left |-> RECLAIM_GRACE]}

StartRequest(w, id) ==
    /\ request' = [id |-> id, requester |-> w]
    /\ requestTimers' = requestTimers \cup {[id |-> id, left |-> REQUEST_TIMEOUT]}

\* Variant: the expiry task is left running.
ClearRequest_KeepsTimer == request' = NoRequest /\ UNCHANGED requestTimers

\* _clear_request cancels the task of the pending request, if there is one.
ClearRequest ==
    /\ request' = NoRequest
    /\ requestTimers' = {t \in requestTimers : t.id # request.id}

\* A protocol-1 client has no client id, whatever its URL says.
DeclaredClient(h) ==
    [client_id |-> IF h.protocol >= HANDOFF_PROTOCOL THEN h.client_id ELSE NoClientId,
     protocol  |-> h.protocol]

-----------------------------------------------------------------------------
(* Connect and disconnect *)

\* The three ways _assign_on_connect makes the new socket w primary ...
Reclaims(c) == c # NoClientId /\ reservedFor = c

Supersedes(c) ==
    /\ ~Reclaims(c)
    /\ c # NoClientId
    /\ primary \in connected
    /\ client[primary].client_id = c

\* Variant: a held slot looks empty.
TakesEmptySlot_IgnoresHold(c, prev) ==
    /\ primary = NoSocket
    /\ ~(c # NoClientId /\ prev = "observer")

\* ... the last of them closed to a device that says it was an observer.
TakesEmptySlot(c, prev) ==
    /\ SlotFree
    /\ ~(c # NoClientId /\ prev = "observer")

Register(w, h) ==
    /\ connected' = connected \cup {w}
    /\ client' = [client EXCEPT ![w] = DeclaredClient(h)]
    /\ older' = older \cup (connected \X {w})
    /\ UNCHANGED released

Connect(w, h) ==
    LET c == DeclaredClient(h).client_id IN
    /\ w \notin connected
    /\ Register(w, h)
    /\ \/ Reclaims(c) /\ primary' = w /\ EndReservation
       \/ Supersedes(c) /\ primary' = w /\ UNCHANGED <<holdVars, filedInHold>>
       \/ TakesEmptySlot(c, h.prev_role) /\ primary' = w /\ UNCHANGED <<holdVars, filedInHold>>
       \/ /\ ~(Reclaims(c) \/ Supersedes(c) \/ TakesEmptySlot(c, h.prev_role))
          /\ UNCHANGED <<primary, holdVars, filedInHold>>
    /\ UNCHANGED reqVars

\* Variants: siblings overlooked; the first device left takes over.
Siblings_Overlooked(w) == {}
FirstSibling_AnyDevice(w, s) ==
    s \in connected \ {w} /\ \A t \in connected \ {w, s} : <<s, t>> \in older

\* The other sockets of w's install, and the first of them in _clients.
Siblings(w) ==
    IF client[w].client_id = NoClientId THEN {} ELSE Install(client[w].client_id) \ {w}

FirstSibling(w, s) ==
    s \in Siblings(w) /\ \A t \in Siblings(w) \ {s} : <<s, t>> \in older

\* Variant: the socket keeps its place in the order.
Unregister_KeepsOrder(w) ==
    /\ connected' = connected \ {w}
    /\ client' = [client EXCEPT ![w] = NoClient]
    /\ released' = released \ {w}
    /\ UNCHANGED older

Unregister(w) ==
    /\ connected' = connected \ {w}
    /\ client' = [client EXCEPT ![w] = NoClient]
    /\ older' = older \cap (connected' \X connected')
    /\ released' = released \ {w}

\* Variant: the request outlives its requester.
Withdraw_Never(w) == UNCHANGED reqVars

Withdraw(w) ==
    IF request.requester = w THEN ClearRequest ELSE UNCHANGED reqVars

Disconnect(w) ==
    /\ w \in connected
    /\ Unregister(w)
    /\ Withdraw(w)
    /\ \/ /\ primary # w
          /\ filedInHold' = (filedInHold /\ request.requester # w)
          /\ UNCHANGED <<primary, holdVars>>
       \/ /\ primary = w
          /\ \E s \in Socket : FirstSibling(w, s) /\ primary' = s
          /\ UNCHANGED <<holdVars, filedInHold>>
       \/ /\ primary = w
          /\ Siblings(w) = {}
          /\ client[w].client_id # NoClientId
          /\ primary' = NoSocket
          /\ StartReservation(client[w].client_id)
       \/ /\ primary = w
          /\ client[w].client_id = NoClientId
          /\ primary' = NoSocket
          /\ UNCHANGED <<holdVars, filedInHold>>

-----------------------------------------------------------------------------
(* Messages of a device.  A request while another is pending, or to a      *)
(* primary that cannot answer, and an answer with a stale id only send     *)
(* something back: the manager's state does not change.                    *)

\* Variant: a legacy primary is asked too.
RequestControl_AsksLegacy(w, id) ==
    /\ w \in Listening /\ primary # w /\ SupportsHandoff(w)
    /\ ~Pending
    /\ \/ SlotFree /\ primary' = w /\ UNCHANGED <<reqVars, filedInHold>>
       \/ /\ ~SlotFree
          /\ StartRequest(w, id)
          /\ filedInHold' = (reservedFor # NoClientId)
          /\ UNCHANGED primary
    /\ UNCHANGED <<socketVars, holdVars>>

RequestControl(w, id) ==
    /\ w \in Listening /\ primary # w /\ SupportsHandoff(w)
    /\ ~Pending
    /\ \/ /\ SlotFree
          /\ primary' = w
          /\ UNCHANGED <<reqVars, filedInHold>>
       \/ /\ ~SlotFree
          /\ primary # NoSocket => SupportsHandoff(primary)
          /\ StartRequest(w, id)
          /\ filedInHold' = (reservedFor # NoClientId)
          /\ UNCHANGED primary
    /\ UNCHANGED <<socketVars, holdVars>>

CancelRequest(w) ==
    /\ w \in Listening /\ request.requester = w
    /\ ClearRequest
    /\ filedInHold' = FALSE
    /\ UNCHANGED <<socketVars, primary, holdVars>>

Respond(w, id, accept) ==
    /\ w \in Listening /\ primary = w
    /\ Pending /\ request.id = id
    /\ ClearRequest
    /\ primary' = IF accept THEN request.requester ELSE primary
    /\ UNCHANGED <<socketVars, holdVars, filedInHold>>

Grant(w, target) ==
    /\ w \in Listening /\ primary = w
    /\ target # w /\ SupportsHandoff(target)
    /\ ClearRequest
    /\ primary' = target
    /\ UNCHANGED <<socketVars, holdVars, filedInHold>>

\* After release() the handler closes the socket and leaves its loop; until its
\* disconnect() runs, the socket is still in _clients.
Release(w) ==
    /\ w \in Listening /\ primary = w
    /\ primary' = request.requester
    /\ ClearRequest
    /\ released' = released \cup {w}
    /\ UNCHANGED <<connected, client, older, holdVars, filedInHold>>

-----------------------------------------------------------------------------
(* Timers *)

\* Time passes in ticks, and never past a timer that is due.
Tick ==
    /\ holdTimers # {} \/ requestTimers # {}
    /\ \A t \in holdTimers \cup requestTimers : t.left > 0
    /\ holdTimers' = {[t EXCEPT !.left = @ - 1] : t \in holdTimers}
    /\ requestTimers' = {[t EXCEPT !.left = @ - 1] : t \in requestTimers}
    /\ UNCHANGED <<socketVars, primary, reservedFor, request, filedInHold>>

\* Variant: the slot is just freed.
ReservationExpiry_ForgetsRequester(t) ==
    /\ t \in holdTimers /\ t.left = 0
    /\ holdTimers' = holdTimers \ {t}
    /\ reservedFor' = NoClientId
    /\ filedInHold' = FALSE
    /\ UNCHANGED <<socketVars, primary, reqVars>>

\* A pending requester takes the slot of a primary that never came back.
ReservationExpiry(t) ==
    /\ t \in holdTimers /\ t.left = 0
    /\ holdTimers' = holdTimers \ {t}
    /\ IF reservedFor # t.client_id
       THEN UNCHANGED <<primary, reservedFor, reqVars, filedInHold>>
       ELSE /\ reservedFor' = NoClientId
            /\ filedInHold' = FALSE
            /\ IF primary # NoSocket \/ ~Pending
               THEN UNCHANGED <<primary, reqVars>>
               ELSE primary' = request.requester /\ ClearRequest
    /\ UNCHANGED socketVars

RequestExpiry(t) ==
    /\ t \in requestTimers /\ t.left = 0
    /\ requestTimers' = requestTimers \ {t}
    /\ IF request.id # t.id
       THEN UNCHANGED <<request, filedInHold>>
       ELSE request' = NoRequest /\ filedInHold' = FALSE
    /\ UNCHANGED <<socketVars, primary, holdVars>>

-----------------------------------------------------------------------------
Next ==
    \/ \E w \in Socket, h \in Hello : Connect(w, h)
    \/ \E w \in Socket : Disconnect(w)
    \/ \E w \in Socket, id \in RequestId : RequestControl(w, id)
    \/ \E w \in Socket : CancelRequest(w)
    \/ \E w \in Socket, id \in RequestId, accept \in BOOLEAN : Respond(w, id, accept)
    \/ \E w, target \in Socket : Grant(w, target)
    \/ \E w \in Socket : Release(w)
    \/ Tick
    \/ \E t \in HoldTimer : ReservationExpiry(t)
    \/ \E t \in RequestTimer : RequestExpiry(t)

Spec == Init /\ [][Next]_vars

\* The event loop runs every timer that is due, time passes, and a handler that
\* has released control runs to its end.  No device is obliged to do anything.
Fairness ==
    /\ WF_vars(Tick)
    /\ WF_vars(\E t \in holdTimers : ReservationExpiry(t))
    /\ WF_vars(\E t \in requestTimers : RequestExpiry(t))
    /\ \A w \in Socket : WF_vars(w \in released /\ Disconnect(w))

FairSpec == Spec /\ Fairness
-----------------------------------------------------------------------------
(* Safety *)

\* Whoever holds, waits for or asks for control is someone the manager still
\* knows, and a slot that is held for its owner has no primary (_primary,
\* _request and _reserved_for are never at odds, whatever the interleaving of
\* handlers and timers).
RolesConsistent ==
    /\ primary # NoSocket => primary \in connected
    /\ Pending => SupportsHandoff(request.requester)
    /\ reservedFor # NoClientId => primary = NoSocket

\* While the slot is held for an install, no socket of that install is
\* connected: it would sit there as an observer of its own reservation
\* (_assign_on_connect and disconnect hand control to such a socket instead).
HoldOwnerAbsent == reservedFor # NoClientId => Install(reservedFor) = {}

\* Each promise has exactly the one sleeping task that ends it: no hold or
\* request without a timer (it would last for ever), no timer left over from an
\* earlier one (it would end the next one early).
TimersMatchPromises ==
    /\ IF reservedFor = NoClientId
       THEN holdTimers = {}
       ELSE \E n \in 0..RECLAIM_GRACE :
                holdTimers = {[client_id |-> reservedFor, left |-> n]}
    /\ IF ~Pending
       THEN requestTimers = {}
       ELSE \E n \in 0..REQUEST_TIMEOUT :
                requestTimers = {[id |-> request.id, left |-> n]}

\* A request made while the slot is held is still pending when the hold ends:
\* RECLAIM_GRACE < REQUEST_TIMEOUT is what makes "granted when the grace window
\* ends" true.
HeldRequestOutlivesHold ==
    filedInHold => /\ Pending /\ reservedFor # NoClientId
                   /\ \A h \in holdTimers, r \in requestTimers : h.left < r.left

\* The inductive invariant that ConnectionManager_proofs establishes.
Consistent ==
    /\ TypeOK
    /\ RolesConsistent
    /\ HoldOwnerAbsent
    /\ TimersMatchPromises
    /\ HeldRequestOutlivesHold

\* A pending request is in front of somebody who can settle it: a primary that
\* can answer, or the hold whose end grants it.  True as long as every handoff
\* device declares a client id.
PendingRequestIsAnswerable ==
    Pending => \/ primary # NoSocket /\ SupportsHandoff(primary)
               \/ reservedFor # NoClientId

-----------------------------------------------------------------------------
(* What a step may never do *)

\* No observer is ever promoted silently: it asked and was waiting, it asks
\* while the slot is free, the primary grants it, or it is the same install as
\* the primary socket that has just closed.
NoSilentPromotion ==
    [][\A w \in connected : primary' = w /\ primary # w =>
          \/ request.requester = w
          \/ \E id \in RequestId : RequestControl(w, id)
          \/ primary \in connected /\ Grant(primary, w)
          \/ primary \in connected \ connected' /\ w \in Siblings(primary)]_vars

\* While a slot is held, only its owner takes it, until the hold's timer is due.
SlotHeldForOwner ==
    [][reservedFor # NoClientId /\ primary' # NoSocket =>
          \/ client'[primary'].client_id = reservedFor
          \/ \E t \in holdTimers : t.left = 0]_vars

\* A request made while the slot is held ends that wait in one of four ways: it
\* is granted, the owner returns and finds it pending, or its device leaves or
\* withdraws.  It never just expires.
HeldRequestHonoured ==
    [][filedInHold /\ ~filedInHold' =>
          \/ primary' = request.requester
          \/ /\ primary' # NoSocket
             /\ client'[primary'].client_id = reservedFor
             /\ request' = request
          \/ request.requester \notin connected'
          \/ CancelRequest(request.requester)]_vars

-----------------------------------------------------------------------------
(* What must happen *)

\* Every request is settled: granted, answered, withdrawn or expired.
RequestSettled ==
    \A w \in Socket, id \in RequestId :
        request = [id |-> id, requester |-> w] ~> request # [id |-> id, requester |-> w]

\* Control never stays with a device that has gone: a slot held for a dropped
\* primary, or given to a socket that is closing, comes back to somebody or to
\* nobody.
ControlReturns ==
    reservedFor # NoClientId \/ primary \in released ~> SlotFree \/ primary \in Listening
-----------------------------------------------------------------------------
(* Refinement *)

\* The party a socket belongs to: its install, or the socket itself.
PartyOf(w) == IF client[w].client_id = NoClientId THEN w ELSE client[w].client_id

Slot == INSTANCE ControlSlot WITH
    Installed <- ClientId,
    Guest     <- Socket,
    Nobody    <- NoSocket,
    present   <- {PartyOf(w) : w \in connected},
    holder    <- IF primary = NoSocket THEN NoSocket ELSE PartyOf(primary),
    reserved  <- IF reservedFor = NoClientId THEN NoSocket ELSE reservedFor,
    waiting   <- IF Pending THEN PartyOf(request.requester) ELSE NoSocket

\* Sockets may come and go and handlers and timers interleave: for whoever
\* watches the parties, control only moves as ControlSlot says.
SlotSpec == Slot!Spec

=============================================================================
