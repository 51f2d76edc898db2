----------------------------- MODULE EventStream -----------------------------
(***************************************************************************)
(* The account's event stream, from the core's WatchEvents to a client     *)
(* that drops and comes back: usecases/stream.py (watch_account_events,    *)
(* _pump), routers/stream.py (_cursor, _sse_events, _error) and            *)
(* grpcapi/stream.py (WatchEvents).  Over SSE watch_attention shares all of*)
(* it; over gRPC it does not resume, since AttentionUpdate carries no event*)
(* id.                                                                     *)
(*                                                                         *)
(* A connection is opened by the handler (the core's call is made THERE,   *)
(* outside the generator), its first frame is the `retry:`, and only the   *)
(* next pull starts _pump, whose `finally` cancels the call.  The edge     *)
(* notices a client that left some time after it left.                     *)
(*                                                                         *)
(* Clients: an "EventSource" reconnects by itself, with the frozen URL and *)
(* the Last-Event-ID of the last event it dispatched; a "grpc" client      *)
(* resumes from the last event it received; a "fetch" client resumes, as   *)
(* _error documents, from the since_event_id of the error frame.           *)
(*                                                                         *)
(* The core is external: the call drains the log from the cursor and goes  *)
(* on live, and may end, or drop its subscriber with any status.           *)
(***************************************************************************)
EXTENDS EdgeErrors, Sequences

CONSTANTS
    Clients,     \* the kinds of client, of the three above
    Cursors,     \* the cursors a client may start with; 0 is "no cursor"
    CoreError,   \* the statuses the core may end the call with
    MaxEvents,   \* bound: the length of the core's log
    MaxConns     \* bound: the connections; the last one is left undisturbed

Conn == 1 .. MaxConns

ASSUME ClientsAssumption == Clients \subseteq {"EventSource", "fetch", "grpc"}
ASSUME StreamErrorAssumption == CoreError \subseteq StatusCode \ {"OK"}
ASSUME StreamBoundAssumption ==
    MaxEvents \in Nat /\ MaxConns \in Nat \ {0} /\ Cursors \subseteq 0 .. MaxEvents

VARIABLES
    log,      \* the core's log: events 1 .. log
    client,   \* the kind of this client
    query,    \* the ?since_event_id= of its URL, frozen at creation
    cookie,   \* what it resends: Last-Event-ID, or its own cursor
    seen,     \* the last event it processed
    got,      \* how many it has processed: one processed twice counts twice
    conns,    \* how many connections it has opened
    cur,      \* the one it is reading; 0 when it has none
    edge,     \* where the edge's generator of each connection is
    call,     \* the core's call of each connection
    pos,      \* the last event the call has delivered
    last_id,  \* _sse_events' local
    wire      \* frames sent and not yet read

vars == <<log, client, query, cookie, seen, got, conns, cur, edge, call, pos, last_id, wire>>

(* "accepted": the handler has returned; "opened": the `retry:` frame has  *)
(* gone; "pumping": _pump runs.  The generator then ended by itself, was   *)
(* closed while _pump ran, or was abandoned: before _pump started, or with *)
(* _pump suspended at its `yield`.                                         *)
EdgeState == {"none", "accepted", "opened", "pumping", "ended", "closed", "abandoned"}

Init ==
    /\ log \in 0 .. MaxEvents
    /\ client \in Clients
    /\ query \in Cursors /\ query <= log
    /\ cookie = IF client = "EventSource" THEN 0 ELSE query
    /\ seen = query /\ got = 0
    /\ conns = 0 /\ cur = 0
    /\ edge = [c \in Conn |-> "none"]
    /\ call = [c \in Conn |-> "none"]
    /\ pos  = [c \in Conn |-> 0]
    /\ last_id = [c \in Conn |-> 0]
    /\ wire = [c \in Conn |-> <<>>]

-----------------------------------------------------------------------------
(* Mutant: the frozen URL beats the header. *)
cursor_Query(last_event_id, since_event_id) ==
    IF since_event_id # 0 THEN since_event_id ELSE last_event_id

(* The header beats the query parameter; the empty one is falsy.           *)
cursor(last_event_id, since_event_id) ==
    IF last_event_id # 0 THEN last_event_id ELSE since_event_id

Retryable == {"UNAVAILABLE", "DEADLINE_EXCEEDED", "RESOURCE_EXHAUSTED", "ABORTED"}

Event(n) == [frame |-> "event", id |-> n]

(* Mutant: the core's message straight on the wire. *)
Error_Raw(code, last) ==
    [ frame |-> "error", status |-> http_status_for(code), retryable |-> code \in Retryable,
      detail |-> "core", since |-> last ]

(* _error: our own text when the writer silences a retryable 5xx.          *)
Error(code, last) ==
    [ frame |-> "error", status |-> http_status_for(code), retryable |-> code \in Retryable,
      detail |-> IF code \in Retryable /\ http_status_for(code) >= 500 THEN "edge"
                 ELSE detail_for(http_status_for(code)),
      since |-> last ]

(* The `except Exception` of _sse_events.                                  *)
OwnFault(last) ==
    [ frame |-> "error", status |-> 500, retryable |-> FALSE, detail |-> "generic",
      since |-> last ]

(* On gRPC a failure is the status in the trailers (ErrorInterceptor).     *)
Trailers(c) == [frame |-> "trailers", status |-> GrpcReply(c).status, detail |-> GrpcReply(c).detail]

(* A frame goes down a connection; nobody reads one the client has left.   *)
Send(c, f) == wire' = IF c = cur THEN [wire EXCEPT ![c] = Append(@, f)] ELSE wire

EdgeVars   == <<edge, call, pos, last_id, wire>>
ClientVars == <<client, query, cookie, seen, got, conns, cur>>

(* An event happens, in the core.                                          *)
Publish ==
    /\ log < MaxEvents
    /\ log' = log + 1
    /\ UNCHANGED <<ClientVars, EdgeVars>>

(* Where the core's replay starts.  Without a cursor it may be the whole   *)
(* log or only what is to come: the edge does not say and does not care.   *)
ReplayFrom(since) == IF since = 0 THEN {0, log} ELSE {since}

(* What the handler sends the core as since_event_id.                      *)
Since ==
    CASE client = "EventSource" -> cursor(cookie, query)
      [] client = "fetch"       -> cursor(0, cookie)
      [] client = "grpc"        -> cookie

(* The client connects, the handler opens the core's call.                 *)
Connect ==
    /\ cur = 0 /\ conns < MaxConns
    /\ conns' = conns + 1 /\ cur' = conns + 1
    /\ edge' = [edge EXCEPT ![conns + 1] = IF client = "grpc" THEN "pumping" ELSE "accepted"]
    /\ call' = [call EXCEPT ![conns + 1] = "live"]
    /\ \E p \in ReplayFrom(Since) : pos' = [pos EXCEPT ![conns + 1] = p]
    /\ UNCHANGED <<log, client, query, cookie, seen, got, last_id, wire>>

(* EventSourceResponse pulls the first frame (_opening), then the next.    *)
Open(c) ==
    /\ edge[c] = "accepted"
    /\ edge' = [edge EXCEPT ![c] = "opened"]
    /\ UNCHANGED <<log, ClientVars, call, pos, last_id, wire>>

Pump(c) ==
    /\ edge[c] = "opened"
    /\ edge' = [edge EXCEPT ![c] = "pumping"]
    /\ UNCHANGED <<log, ClientVars, call, pos, last_id, wire>>

(* A message of the call becomes a frame with the core's id.               *)
Emit(c) ==
    /\ edge[c] = "pumping" /\ call[c] = "live" /\ pos[c] < log
    /\ pos' = [pos EXCEPT ![c] = @ + 1]
    /\ last_id' = [last_id EXCEPT ![c] = pos[c] + 1]
    /\ Send(c, Event(pos[c] + 1))
    /\ UNCHANGED <<log, ClientVars, edge, call>>

(* The call ends in the core: the slow subscriber's UNAVAILABLE, any other *)
(* status, or the end of the stream.                                       *)
CallOver(c, code) ==
    /\ c < MaxConns
    /\ call[c] = "live"
    /\ call' = [call EXCEPT ![c] = code]
    /\ UNCHANGED <<log, ClientVars, edge, pos, last_id, wire>>

(* Mutant: the error is swallowed and the response stays open. *)
PumpEnds_Hangs(c) ==
    /\ edge[c] = "pumping" /\ call[c] = "OK"
    /\ edge' = [edge EXCEPT ![c] = "ended"]
    /\ UNCHANGED <<log, ClientVars, call, pos, last_id, wire>>

(* _pump sees it: its `finally`, then the error frame if it was an error.  *)
PumpEnds(c) ==
    /\ edge[c] = "pumping" /\ call[c] \in CoreError \cup {"OK"}
    /\ edge' = [edge EXCEPT ![c] = "ended"]
    /\ IF call[c] = "OK" THEN UNCHANGED wire
       ELSE Send(c, IF client = "grpc" THEN Trailers(RpcError(call[c]))
                    ELSE Error(call[c], last_id[c]))
    /\ UNCHANGED <<log, ClientVars, call, pos, last_id>>

(* Mutant: the call is cancelled only when the client goes away. *)
Fault_LeavesCall(c) ==
    /\ c < MaxConns
    /\ edge[c] = "pumping" /\ call[c] = "live" /\ pos[c] < log
    /\ edge' = [edge EXCEPT ![c] = "ended"]
    /\ Send(c, IF client = "grpc" THEN Trailers(Unhandled) ELSE OwnFault(last_id[c]))
    /\ UNCHANGED <<log, ClientVars, call, pos, last_id>>

(* Mutant: what we fail to translate is skipped, and the stream goes on. *)
Fault_Skips(c) ==
    /\ c < MaxConns
    /\ edge[c] = "pumping" /\ call[c] = "live" /\ pos[c] < log
    /\ pos' = [pos EXCEPT ![c] = @ + 1]
    /\ UNCHANGED <<log, ClientVars, edge, call, last_id, wire>>

(* A message we fail to translate: _pump's `finally` cancels the call.     *)
Fault(c) ==
    /\ c < MaxConns
    /\ edge[c] = "pumping" /\ call[c] = "live" /\ pos[c] < log
    /\ edge' = [edge EXCEPT ![c] = "ended"]
    /\ call' = [call EXCEPT ![c] = "cancelled"]
    /\ Send(c, IF client = "grpc" THEN Trailers(Unhandled) ELSE OwnFault(last_id[c]))
    /\ UNCHANGED <<log, ClientVars, pos, last_id>>

(* The client reads a frame.                                               *)
Receive ==
    /\ cur # 0 /\ wire[cur] # <<>>
    /\ LET f == Head(wire[cur])
       IN  /\ seen'   = IF f.frame = "event" THEN f.id ELSE seen
           /\ got'    = IF f.frame = "event" THEN got + 1 ELSE got
           /\ cookie' = CASE f.frame = "event" -> f.id
                          [] f.frame = "error" /\ client = "fetch" /\ f.retryable -> f.since
                          [] OTHER -> cookie
    /\ wire' = [wire EXCEPT ![cur] = Tail(@)]
    /\ UNCHANGED <<log, client, query, conns, cur, edge, call, pos, last_id>>

(* The response is over and read to the end.                               *)
Finish ==
    /\ cur # 0 /\ edge[cur] = "ended" /\ wire[cur] = <<>>
    /\ cur' = 0
    /\ UNCHANGED <<log, client, query, cookie, seen, got, conns, EdgeVars>>

(* The network, or the tab, drops the connection with what is on it.       *)
Drop ==
    /\ cur # 0 /\ cur < MaxConns
    /\ cur' = 0
    /\ wire' = [wire EXCEPT ![cur] = <<>>]
    /\ UNCHANGED <<log, client, query, cookie, seen, got, conns, edge, call, pos, last_id>>

(* Mutant: nobody listens for http.disconnect. *)
Detect_Never(c) == FALSE /\ UNCHANGED vars

(* The edge notices: the task consuming the generator is cancelled.  Where *)
(* _pump is waiting for the core, its `finally` runs; where it is at its   *)
(* `yield`, a frame being written, or never started, nobody closes it.     *)
Detect(c) ==
    /\ c <= conns /\ c # cur
    /\ \/ /\ edge[c] = "pumping"
          /\ edge' = [edge EXCEPT ![c] = "closed"]
          /\ call' = [call EXCEPT ![c] = IF @ = "live" THEN "cancelled" ELSE @]
       \/ /\ \/ edge[c] \in {"accepted", "opened"}
             \/ edge[c] = "pumping" /\ last_id[c] # 0
          /\ edge' = [edge EXCEPT ![c] = "abandoned"]
          /\ UNCHANGED call
    /\ UNCHANGED <<log, ClientVars, pos, last_id, wire>>

(* External: what nobody refers to any more is collected.  The event loop  *)
(* closes a suspended generator (_pump's `finally`), grpc.aio cancels the  *)
(* call of one that never started.                                         *)
Collect(c) ==
    /\ edge[c] = "abandoned" /\ call[c] = "live"
    /\ call' = [call EXCEPT ![c] = "cancelled"]
    /\ UNCHANGED <<log, ClientVars, edge, pos, last_id, wire>>

EdgeStep(c) == Open(c) \/ Pump(c) \/ Emit(c) \/ PumpEnds(c)

Next ==
    \/ Publish \/ Connect \/ Receive \/ Finish \/ Drop
    \/ \E c \in Conn : EdgeStep(c) \/ Fault(c) \/ Detect(c) \/ Collect(c)
    \/ \E c \in Conn, code \in CoreError \cup {"OK"} : CallOver(c, code)

Spec == Init /\ [][Next]_vars

(* The response is pulled as long as it lives, the client reads and        *)
(* reconnects (the `retry:` frame), a disconnect is noticed (the ping      *)
(* every sse_ping_s fails to send), and a dropped object is collected.     *)
FairSpec ==
    /\ Spec
    /\ WF_vars(Connect) /\ WF_vars(Receive) /\ WF_vars(Finish)
    /\ \A c \in Conn : WF_vars(EdgeStep(c)) /\ WF_vars(Detect(c)) /\ WF_vars(Collect(c))

-----------------------------------------------------------------------------
EventFrame == [frame : {"event"}, id : 1 .. MaxEvents]

(* A 5xx in an SSE frame is told in words of ours: the call to reconnect   *)
(* when that is what the client should do, the generic text otherwise.     *)
ErrorFrame ==
    {f \in [frame : {"error"}, status : Nat, retryable : BOOLEAN, detail : Detail,
            since : 0 .. MaxEvents] :
        f.status >= 500 => f.detail = IF f.retryable THEN "edge" ELSE "generic"}

(* A status that amounts to a 5xx leaves gRPC without the core's words.    *)
TrailersFrame ==
    {f \in [frame : {"trailers"}, status : StatusCode, detail : Detail] :
        http_status_for(f.status) >= 500 => f.detail # "core"}

Frame == EventFrame \cup ErrorFrame \cup TrailersFrame

(* The types of the state; those of the frames hold the rule on details: no*)
(* status that is a 5xx carries the core's words down a stream, on either  *)
(* port, whether the core failed or the edge did.  (routers/stream.py      *)
(* _error and _sse_events, ErrorInterceptor._wrap_stream.)                 *)
TypeOK ==
    /\ log \in 0 .. MaxEvents /\ client \in Clients
    /\ {query, cookie, seen} \subseteq 0 .. MaxEvents /\ got \in Nat
    /\ conns \in 0 .. MaxConns /\ cur \in 0 .. conns
    /\ edge \in [Conn -> EdgeState]
    /\ call \in [Conn -> {"none", "live", "cancelled", "OK"} \cup CoreError]
    /\ pos \in [Conn -> 0 .. MaxEvents] /\ last_id \in [Conn -> 0 .. MaxEvents]
    /\ wire \in [Conn -> Seq(Frame)]

(* The events among the frames of a connection: all of them, or all but    *)
(* the last, when that one is the failure's.                               *)
Unread(frames) ==
    LET n == Len(frames)
    IN  IF n > 0 /\ frames[n].frame # "event" THEN n - 1 ELSE n

(* The events after `last` and up to `at`, in order; after 0, "no cursor", *)
(* the run may start anywhere.                                             *)
RunOf(frames, last, at) ==
    /\ IF last = 0 THEN Unread(frames) <= at ELSE last + Unread(frames) = at
    /\ \A i \in 1 .. Unread(frames) : frames[i] = Event(at - Unread(frames) + i)

(* Why no event is lost and none comes twice.  A client that resumes by    *)
(* its own cursor would ask for what follows the last event it processed,  *)
(* and what is on its way to it is the run of events from there to where   *)
(* the core's call stands, with a failure only behind them; nothing is left*)
(* on the connections it has abandoned.  (routers/stream.py _cursor and    *)
(* _sse_events, usecases/stream.py _pump, grpcapi/stream.py WatchEvents.)  *)
WireFollows ==
    client # "fetch" =>
        /\ Since = seen /\ seen <= log
        /\ \A c \in Conn : pos[c] <= log /\ (c # cur => wire[c] = <<>>)
        /\ cur # 0 =>
              /\ RunOf(wire[cur], seen, pos[cur])
              /\ edge[cur] # "ended" => Unread(wire[cur]) = Len(wire[cur])

(* Resuming: "the browser that dropped and came back loses no event and    *)
(* gets no duplicate".  However often the connection drops, the core drops *)
(* the subscriber or a frame is lost, what the client processes is the     *)
(* feed EventFeed promises.                                                *)
Feed == INSTANCE EventFeed WITH log <- log, seen <- seen, got <- got

ImplementsFeed == Feed!Spec

(* A generator that ran, and is over, leaves no subscription in the core:  *)
(* not when the client left, not when the core ended, not on our fault.    *)
NoOrphanCall ==
    \A c \in Conn : edge[c] \in {"ended", "closed"} => call[c] # "live"

(* A client that left does not leave its subscription behind for ever.     *)
SubscriptionDies ==
    \A c \in Conn : (c <= conns /\ c # cur) ~> call[c] # "live"

(* A client that knows where it is gets every event of the log in the end, *)
(* slow subscriber or not, if the connection is ever left in peace.        *)
EveryEventArrives ==
    \A n \in 1 .. MaxEvents : (query # 0 /\ log >= n) ~> seen >= n

-----------------------------------------------------------------------------
(* What the repository says and the code does not keep; it is refuted.     *)

(* _error: since_event_id is in the body for "whoever talks to this        *)
(* endpoint through `fetch`", who "needs the cursor somewhere they can     *)
(* read": resuming from it must bring the next event and no other.         *)
FetchResumes == [][seen' # seen /\ seen # 0 => seen' = seen + 1]_vars
=============================================================================
