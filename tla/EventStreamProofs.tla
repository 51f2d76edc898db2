-------------------------- MODULE EventStreamProofs --------------------------
(***************************************************************************)
(* The event stream, for any log, any number of connections and any of the *)
(* core's statuses: its types, that a generator which is over has no call  *)
(* left in the core, and that what a client processes, when it resumes by  *)
(* its own cursor, is the feed that EventFeed promises.                    *)
(***************************************************************************)
EXTENDS EventStream, TLAPS

(***************************************************************************)
(* The frames.                                                             *)
(***************************************************************************)

(* Every status has an HTTP status, a number.                              *)
LEMMA StatusIsNumber ==
    ASSUME NEW code \in StatusCode
    PROVE  http_status_for(code) \in Nat /\ detail_for(http_status_for(code)) \in Detail
<1>1. STATUS_TO_HTTP[code] \in Nat \/ code \notin DOMAIN STATUS_TO_HTTP
  BY DEF STATUS_TO_HTTP, StatusCode
<1>2. http_status_for(code) \in Nat
  BY <1>1 DEF http_status_for
<1> QED
  BY <1>2 DEF detail_for, Detail

LEMMA EventIsFrame ==
    ASSUME NEW n \in 1 .. MaxEvents
    PROVE  Event(n) \in Frame
BY DEF Event, EventFrame, Frame

LEMMA FailureIsFrame ==
    ASSUME NEW code \in CoreError, NEW last \in 0 .. MaxEvents
    PROVE  /\ Error(code, last) \in Frame /\ Error(code, last).frame # "event"
           /\ Trailers(RpcError(code)) \in Frame /\ Trailers(RpcError(code)).frame # "event"
<1>1. code \in StatusCode
  BY StreamErrorAssumption
<1>2. /\ http_status_for(code) \in Nat
      /\ (code \in Retryable) \in BOOLEAN
      /\ (IF code \in Retryable /\ http_status_for(code) >= 500 THEN "edge"
          ELSE detail_for(http_status_for(code))) \in Detail
  BY <1>1, StatusIsNumber DEF Detail
<1>3. Error(code, last) \in Frame /\ Error(code, last).frame # "event"
  <2>1. Error(code, last) \in [frame : {"error"}, status : Nat, retryable : BOOLEAN,
                               detail : Detail, since : 0 .. MaxEvents]
    BY <1>2 DEF Error
  <2>2. /\ Error(code, last).status = http_status_for(code)
        /\ Error(code, last).retryable = (code \in Retryable)
        /\ Error(code, last).detail = IF code \in Retryable /\ http_status_for(code) >= 500
                                      THEN "edge" ELSE detail_for(http_status_for(code))
        /\ Error(code, last).frame = "error"
    BY DEF Error
  <2>3. http_status_for(code) >= 500 =>
            Error(code, last).detail = IF Error(code, last).retryable THEN "edge" ELSE "generic"
    <3>1. CASE code \in Retryable
      BY <2>2, <3>1
    <3>2. CASE code \notin Retryable
      BY <2>2, <3>2 DEF detail_for
    <3> QED
      BY <3>1, <3>2
  <2> QED
    BY <2>1, <2>2, <2>3 DEF ErrorFrame, Frame
<1>4. GrpcReply(RpcError(code)) = as_grpc(code)
  BY DEF GrpcReply, RpcError
<1>5. /\ GrpcReply(RpcError(code)).status = code /\ GrpcReply(RpcError(code)).detail \in Detail
      /\ http_status_for(code) >= 500 => GrpcReply(RpcError(code)).detail # "core"
  BY <1>1, <1>4, StatusIsNumber DEF as_grpc, detail_for
<1>6. Trailers(RpcError(code)) \in Frame /\ Trailers(RpcError(code)).frame # "event"
  BY <1>1, <1>5 DEF Trailers, TrailersFrame, Frame
<1> QED
  BY <1>3, <1>6

LEMMA FaultIsFrame ==
    ASSUME NEW last \in 0 .. MaxEvents
    PROVE  /\ OwnFault(last) \in Frame /\ OwnFault(last).frame # "event"
           /\ Trailers(Unhandled) \in Frame /\ Trailers(Unhandled).frame # "event"
<1>1. OwnFault(last) \in Frame /\ OwnFault(last).frame # "event"
  BY DEF OwnFault, ErrorFrame, Frame, Detail
<1>2. GrpcReply(Unhandled) = [http |-> 0, status |-> "INTERNAL", detail |-> "generic"]
  BY DEF GrpcReply, Unhandled
<1>3. Trailers(Unhandled) \in Frame /\ Trailers(Unhandled).frame # "event"
  BY <1>2 DEF Trailers, TrailersFrame, Frame, Detail, StatusCode
<1> QED
  BY <1>1, <1>3

(* What a client reads off a frame.                                        *)
LEMMA FrameFields ==
    ASSUME NEW f \in Frame
    PROVE  /\ f.frame = "event" => f.id \in 1 .. MaxEvents
           /\ f.frame = "error" => f.since \in 0 .. MaxEvents
BY DEF EventFrame, ErrorFrame, TrailersFrame, Frame

(* A frame sent leaves the wires well typed.                               *)
LEMMA SendTypes ==
    ASSUME TypeOK, NEW c \in Conn, NEW f \in Frame, Send(c, f)
    PROVE  wire' \in [Conn -> Seq(Frame)]
<1>1. wire[c] \in Seq(Frame)
  BY DEF TypeOK
<1>2. Append(wire[c], f) \in Seq(Frame)
  BY <1>1
<1> QED
  BY <1>2 DEF Send, TypeOK

(***************************************************************************)
(* Types.                                                                  *)
(***************************************************************************)

LEMMA TypesAtFirst == Init => TypeOK
<1> SUFFICES ASSUME Init PROVE TypeOK
  OBVIOUS
<1>1. <<>> \in Seq(Frame)
  OBVIOUS
<1>2. 0 \in 0 .. MaxConns /\ 0 \in 0 .. MaxEvents /\ "none" \in EdgeState
  BY StreamBoundAssumption DEF EdgeState
<1> QED
  BY <1>1, <1>2, StreamBoundAssumption DEF Init, TypeOK

(* The cursor that is sent is an event of the log's range.                 *)
LEMMA SinceTypes ==
    ASSUME TypeOK
    PROVE  Since \in 0 .. MaxEvents
<1>1. client \in {"EventSource", "fetch", "grpc"}
  BY ClientsAssumption DEF TypeOK
<1>2. cookie \in 0 .. MaxEvents /\ query \in 0 .. MaxEvents
  BY DEF TypeOK
<1>3. CASE client = "EventSource"
  BY <1>2, <1>3 DEF Since, cursor
<1>4. CASE client = "fetch"
  BY <1>2, <1>4 DEF Since, cursor
<1>5. CASE client = "grpc"
  BY <1>2, <1>5 DEF Since
<1> QED
  BY <1>1, <1>3, <1>4, <1>5

LEMMA TypesStay ==
    ASSUME TypeOK, [Next]_vars
    PROVE  TypeOK'
<1> USE StreamBoundAssumption
<1>1. CASE UNCHANGED vars
  BY <1>1 DEF TypeOK, vars
<1>2. CASE Publish
  BY <1>2 DEF TypeOK, Publish, ClientVars, EdgeVars
<1>3. CASE Connect
  <2>1. conns + 1 \in Conn /\ conns' \in 0 .. MaxConns /\ cur' \in 0 .. conns'
    BY <1>3 DEF Connect, TypeOK, Conn
  <2>2. edge' \in [Conn -> EdgeState]
    BY <1>3 DEF Connect, TypeOK, EdgeState
  <2>3. call' \in [Conn -> {"none", "live", "cancelled", "OK"} \cup CoreError]
    BY <1>3 DEF Connect, TypeOK
  <2>4. \A p \in ReplayFrom(Since) : p \in 0 .. MaxEvents
    BY SinceTypes DEF ReplayFrom, TypeOK
  <2>5. pos' \in [Conn -> 0 .. MaxEvents]
    BY <1>3, <2>4 DEF Connect, TypeOK
  <2> QED
    BY <1>3, <2>1, <2>2, <2>3, <2>5 DEF Connect, TypeOK
<1>4. CASE Receive
  <2>1. cur \in Conn
    BY <1>4 DEF Receive, TypeOK, Conn
  <2>2. wire[cur] \in Seq(Frame) /\ wire[cur] # <<>>
    BY <1>4, <2>1 DEF Receive, TypeOK
  <2>3. Head(wire[cur]) \in Frame /\ Tail(wire[cur]) \in Seq(Frame)
    BY <2>2
  <2>4. wire' \in [Conn -> Seq(Frame)]
    BY <1>4, <2>3 DEF Receive, TypeOK
  <2> DEFINE f == Head(wire[cur])
  <2>5. seen' = (IF f.frame = "event" THEN f.id ELSE seen)
        /\ got' = (IF f.frame = "event" THEN got + 1 ELSE got)
    BY <1>4 DEF Receive
  <2>6. seen' \in 0 .. MaxEvents /\ got' \in Nat
    BY <2>3, <2>5, FrameFields DEF TypeOK
  <2>7. cookie' \in 0 .. MaxEvents
    <3>1. cookie \in 0 .. MaxEvents
      BY DEF TypeOK
    <3>2. \/ cookie' = f.id /\ f.frame = "event"
          \/ cookie' = f.since /\ f.frame = "error"
          \/ cookie' = cookie
      BY <1>4 DEF Receive
    <3> QED
      BY <2>3, <3>1, <3>2, FrameFields
  <2> QED
    BY <1>4, <2>4, <2>6, <2>7 DEF Receive, TypeOK
<1>5. CASE Finish
  BY <1>5 DEF Finish, TypeOK, EdgeVars
<1>6. CASE Drop
  <2>1. <<>> \in Seq(Frame)
    OBVIOUS
  <2>2. wire' \in [Conn -> Seq(Frame)]
    BY <1>6, <2>1 DEF Drop, TypeOK
  <2>3. cur' \in 0 .. conns
    BY <1>6 DEF Drop, TypeOK
  <2> QED
    BY <1>6, <2>2, <2>3 DEF Drop, TypeOK
<1>7. ASSUME NEW c \in Conn, Open(c) \/ Pump(c)
      PROVE  TypeOK'
  BY <1>7 DEF Open, Pump, TypeOK, EdgeState, ClientVars
<1>8. ASSUME NEW c \in Conn, Emit(c)
      PROVE  TypeOK'
  <2>1. pos[c] + 1 \in 1 .. MaxEvents /\ pos[c] + 1 \in 0 .. MaxEvents
    BY <1>8 DEF Emit, TypeOK
  <2>2. wire' \in [Conn -> Seq(Frame)]
    BY <1>8, <2>1, EventIsFrame, SendTypes DEF Emit
  <2> QED
    BY <1>8, <2>1, <2>2 DEF Emit, TypeOK, ClientVars
<1>9. ASSUME NEW c \in Conn, PumpEnds(c)
      PROVE  TypeOK'
  <2>1. last_id[c] \in 0 .. MaxEvents
    BY DEF TypeOK
  <2>2. wire' \in [Conn -> Seq(Frame)]
    <3>1. CASE call[c] = "OK"
      BY <1>9, <3>1 DEF PumpEnds, TypeOK
    <3>2. CASE call[c] # "OK"
      <4>1. call[c] \in CoreError
        BY <1>9, <3>2 DEF PumpEnds
      <4>2. \E f \in Frame : Send(c, f)
        BY <1>9, <3>2, <4>1, <2>1, FailureIsFrame DEF PumpEnds
      <4> QED
        BY <4>2, SendTypes
    <3> QED
      BY <3>1, <3>2
  <2> QED
    BY <1>9, <2>2 DEF PumpEnds, TypeOK, ClientVars, EdgeState
<1>10. ASSUME NEW c \in Conn, Fault(c)
       PROVE  TypeOK'
  <2>1. last_id[c] \in 0 .. MaxEvents
    BY DEF TypeOK
  <2>2. \E f \in Frame : Send(c, f)
    BY <1>10, <2>1, FaultIsFrame DEF Fault
  <2>3. wire' \in [Conn -> Seq(Frame)]
    BY <2>2, SendTypes
  <2> QED
    BY <1>10, <2>3 DEF Fault, TypeOK, ClientVars, EdgeState
<1>11. ASSUME NEW c \in Conn, Detect(c)
       PROVE  TypeOK'
  BY <1>11 DEF Detect, TypeOK, ClientVars, EdgeState
<1>12. ASSUME NEW c \in Conn, Collect(c)
       PROVE  TypeOK'
  BY <1>12 DEF Collect, TypeOK, ClientVars
<1>13. ASSUME NEW c \in Conn, NEW code \in CoreError \cup {"OK"}, CallOver(c, code)
       PROVE  TypeOK'
  BY <1>13 DEF CallOver, TypeOK, ClientVars
<1> QED
  BY <1>1, <1>2, <1>3, <1>4, <1>5, <1>6, <1>7, <1>8, <1>9, <1>10, <1>11, <1>12, <1>13
     DEF Next, EdgeStep

(* stream.py: the frames, cursors and states of the streams are of their   *)
(* types; among others, for every status the core may fail with, a 5xx on  *)
(* the wire is told in our words, on either port (_error, _sse_events,     *)
(* ErrorInterceptor).                                                      *)
THEOREM StreamTypes == Spec => []TypeOK
<1>1. TypeOK /\ [Next]_vars => TypeOK'
  BY TypesStay
<1> QED
  BY TypesAtFirst, <1>1, PTL DEF Spec

(***************************************************************************)
(* No orphan call.                                                         *)
(***************************************************************************)

LEMMA NoOrphanStays ==
    ASSUME TypeOK, NoOrphanCall, [Next]_vars
    PROVE  NoOrphanCall'
<1>1. CASE UNCHANGED <<edge, call>>
  BY <1>1 DEF NoOrphanCall
<1>2. CASE Connect
  <2>1. conns + 1 \in Conn
    BY <1>2, StreamBoundAssumption DEF Connect, TypeOK, Conn
  <2>2. \A c \in Conn : c # conns + 1 => edge'[c] = edge[c] /\ call'[c] = call[c]
    BY <1>2 DEF Connect, TypeOK
  <2>3. edge'[conns + 1] \in {"accepted", "pumping"}
    BY <1>2, <2>1 DEF Connect, TypeOK
  <2> QED
    BY <2>2, <2>3 DEF NoOrphanCall
<1>3. ASSUME NEW c \in Conn, Open(c) \/ Pump(c)
      PROVE  NoOrphanCall'
  BY <1>3 DEF Open, Pump, TypeOK, NoOrphanCall
<1>4. ASSUME NEW c \in Conn, PumpEnds(c)
      PROVE  NoOrphanCall'
  <2>1. "live" \notin CoreError \cup {"OK"}
    BY StreamErrorAssumption DEF StatusCode
  <2> QED
    BY <1>4, <2>1 DEF PumpEnds, TypeOK, NoOrphanCall
<1>5. ASSUME NEW c \in Conn, Fault(c)
      PROVE  NoOrphanCall'
  BY <1>5 DEF Fault, TypeOK, NoOrphanCall
<1>6. ASSUME NEW c \in Conn, Detect(c)
      PROVE  NoOrphanCall'
  BY <1>6 DEF Detect, TypeOK, NoOrphanCall
<1>7. ASSUME NEW c \in Conn, Collect(c)
      PROVE  NoOrphanCall'
  BY <1>7 DEF Collect, TypeOK, NoOrphanCall
<1>8. ASSUME NEW c \in Conn, NEW code \in CoreError \cup {"OK"}, CallOver(c, code)
      PROVE  NoOrphanCall'
  BY <1>8 DEF CallOver, TypeOK, NoOrphanCall
<1>9. ASSUME Publish \/ Receive \/ Finish \/ Drop \/ UNCHANGED vars
      PROVE  UNCHANGED <<edge, call>>
  BY <1>9 DEF Publish, Receive, Finish, Drop, vars, EdgeVars
<1>10. ASSUME NEW c \in Conn, Emit(c)
       PROVE  UNCHANGED <<edge, call>>
  BY <1>10 DEF Emit
<1> QED
  BY <1>1, <1>2, <1>3, <1>4, <1>5, <1>6, <1>7, <1>8, <1>9, <1>10 DEF Next, EdgeStep

(* usecases/stream.py _pump: a generator that ran and is over, because the *)
(* client left, the core ended or a message could not be translated, has   *)
(* no subscription left in the core, on any number of connections.         *)
THEOREM NoCallIsOrphaned == Spec => []NoOrphanCall
<1>1. Init => NoOrphanCall
  BY DEF Init, NoOrphanCall
<1>2. TypeOK /\ NoOrphanCall /\ [Next]_vars => NoOrphanCall'
  BY NoOrphanStays
<1> QED
  BY <1>1, <1>2, StreamTypes, PTL DEF Spec

(***************************************************************************)
(* What is on the wire.                                                    *)
(***************************************************************************)

LEMMA UnreadRange ==
    ASSUME NEW s \in Seq(Frame)
    PROVE  Unread(s) \in Nat /\ Unread(s) <= Len(s) /\ Len(s) <= Unread(s) + 1
BY DEF Unread

(* A connection just opened at the client's cursor.                        *)
LEMMA RunStarts ==
    ASSUME NEW last \in Nat, NEW at \in Nat, last = 0 \/ last = at
    PROVE  RunOf(<<>>, last, at) /\ Unread(<<>>) = Len(<<>>)
<1>1. Unread(<<>>) = 0 /\ Len(<<>>) = 0
  BY DEF Unread
<1> QED
  BY <1>1 DEF RunOf

(* The next event of the call goes down the connection.                    *)
LEMMA RunGrows ==
    ASSUME NEW s \in Seq(Frame), NEW last \in Nat, NEW at \in Nat,
           at + 1 \in 1 .. MaxEvents,
           RunOf(s, last, at), Unread(s) = Len(s)
    PROVE  /\ RunOf(Append(s, Event(at + 1)), last, at + 1)
           /\ Unread(Append(s, Event(at + 1))) = Len(Append(s, Event(at + 1)))
<1> DEFINE t == Append(s, Event(at + 1))
<1>1. t \in Seq(Frame) /\ Len(t) = Len(s) + 1 /\ t[Len(s) + 1] = Event(at + 1)
  BY EventIsFrame
<1>2. \A i \in 1 .. Len(s) : t[i] = s[i]
  OBVIOUS
<1>3. Event(at + 1).frame = "event"
  BY DEF Event
<1> HIDE DEF t
<1>4. Unread(t) = Len(s) + 1
  BY <1>1, <1>3 DEF Unread
<1>5. \A i \in 1 .. Len(s) : t[i] = Event(at - Len(s) + i)
  BY <1>2 DEF RunOf
<1>6. ASSUME NEW i \in 1 .. Len(s) + 1
      PROVE  t[i] = Event((at + 1) - (Len(s) + 1) + i)
  <2>1. CASE i = Len(s) + 1
    <3>1. (at + 1) - (Len(s) + 1) + i = at + 1
      BY <2>1
    <3> QED
      BY <1>1, <2>1, <3>1
  <2>2. CASE i \in 1 .. Len(s)
    <3>1. (at + 1) - (Len(s) + 1) + i = at - Len(s) + i
      BY <2>2
    <3> QED
      BY <1>5, <2>2, <3>1
  <2> QED
    BY <2>1, <2>2
<1>7. IF last = 0 THEN Len(s) + 1 <= at + 1 ELSE last + (Len(s) + 1) = at + 1
  BY DEF RunOf
<1>8. RunOf(t, last, at + 1)
  BY <1>4, <1>6, <1>7 DEF RunOf
<1> QED
  BY <1>1, <1>4, <1>8 DEF t

(* The failure goes down it, behind the events.                            *)
LEMMA RunFails ==
    ASSUME NEW s \in Seq(Frame), NEW last \in Nat, NEW at \in Nat, NEW f \in Frame,
           f.frame # "event", RunOf(s, last, at), Unread(s) = Len(s)
    PROVE  RunOf(Append(s, f), last, at)
<1> DEFINE t == Append(s, f)
<1>1. t \in Seq(Frame) /\ Len(t) = Len(s) + 1 /\ t[Len(s) + 1] = f
  OBVIOUS
<1>2. \A i \in 1 .. Len(s) : t[i] = s[i]
  OBVIOUS
<1> HIDE DEF t
<1>3. Unread(t) = Len(s)
  BY <1>1 DEF Unread
<1>4. RunOf(t, last, at)
  BY <1>2, <1>3 DEF RunOf
<1> QED
  BY <1>4 DEF t

(* The client reads its first frame: the next event, or the failure.       *)
LEMMA RunIsRead ==
    ASSUME NEW s \in Seq(Frame), s # <<>>, NEW last \in Nat, NEW at \in Nat,
           RunOf(s, last, at)
    PROVE  /\ Head(s).frame = "event" =>
                 /\ Head(s).id \in 1 .. at
                 /\ last # 0 => Head(s).id = last + 1
                 /\ RunOf(Tail(s), Head(s).id, at)
           /\ Head(s).frame # "event" => RunOf(Tail(s), last, at)
           /\ Unread(s) = Len(s) => Unread(Tail(s)) = Len(Tail(s))
<1> DEFINE n == Unread(s)
           t == Tail(s)
<1>1. /\ t \in Seq(Frame) /\ Len(s) \in Nat \ {0} /\ Len(t) = Len(s) - 1 /\ Head(s) = s[1]
      /\ \A i \in 1 .. Len(t) : t[i] = s[i + 1]
  OBVIOUS
<1>2. n \in Nat /\ n <= Len(s) /\ Len(s) <= n + 1
  BY UnreadRange
<1>3. \A i \in 1 .. n : s[i] = Event(at - n + i)
  BY DEF RunOf
<1>4. IF last = 0 THEN n <= at ELSE last + n = at
  BY DEF RunOf
<1>5. \A k \in Int : Event(k).frame = "event" /\ Event(k).id = k
  BY DEF Event
<1> HIDE DEF t
<1>6. n > 0 => Unread(t) = n - 1
  BY <1>1, <1>2 DEF Unread
<1>7. n = 0 => Len(s) = 1 /\ Head(s).frame # "event" /\ Unread(t) = 0
  BY <1>1, <1>2 DEF Unread
<1> HIDE DEF n
<1>8. n > 0 => Head(s).frame = "event" /\ Head(s).id = at - n + 1
  BY <1>1, <1>2, <1>3, <1>5
<1>9. n > 0 => RunOf(t, at - n + 1, at)
  <2> SUFFICES ASSUME n > 0
               PROVE  RunOf(t, at - n + 1, at)
    OBVIOUS
  <2>1. at - n + 1 \in Nat \ {0} /\ (at - n + 1) + (n - 1) = at
    BY <1>2, <1>4
  <2>2. ASSUME NEW i \in 1 .. n - 1
        PROVE  t[i] = Event(at - (n - 1) + i)
    <3>1. i \in 1 .. Len(t) /\ i + 1 \in 1 .. n /\ at - n + (i + 1) = at - (n - 1) + i
      BY <1>1, <1>2
    <3> QED
      BY <1>1, <1>3, <3>1
  <2> QED
    BY <1>6, <2>1, <2>2 DEF RunOf
<1>10. n = 0 => RunOf(t, last, at)
  BY <1>4, <1>7 DEF RunOf
<1>11. n > 0 => at - n + 1 \in 1 .. at /\ (last # 0 => at - n + 1 = last + 1)
  BY <1>2, <1>4
<1>12. n = Len(s) => Unread(t) = Len(t)
  BY <1>1, <1>6, <1>7
<1> QED
  BY <1>2, <1>7, <1>8, <1>9, <1>10, <1>11, <1>12 DEF n, t

(***************************************************************************)
(* WireFollows is inductive, given the types.                              *)
(***************************************************************************)

(* A client is of one kind, with one URL, for as long as it lives.         *)
LEMMA ClientStays ==
    ASSUME [Next]_vars
    PROVE  client' = client /\ query' = query
<1>1. ASSUME NEW c \in Conn, EdgeStep(c) \/ Fault(c) \/ Detect(c) \/ Collect(c)
      PROVE  client' = client /\ query' = query
  BY <1>1 DEF EdgeStep, Open, Pump, Emit, PumpEnds, Fault, Detect, Collect, ClientVars
<1>2. ASSUME NEW c \in Conn, NEW code \in CoreError \cup {"OK"}, CallOver(c, code)
      PROVE  client' = client /\ query' = query
  BY <1>2 DEF CallOver, ClientVars
<1>3. ASSUME Publish \/ Connect \/ Receive \/ Finish \/ Drop \/ UNCHANGED vars
      PROVE  client' = client /\ query' = query
  BY <1>3 DEF Publish, Connect, Receive, Finish, Drop, vars, ClientVars
<1> QED
  BY <1>1, <1>2, <1>3 DEF Next

LEMMA WireAtFirst == Init => WireFollows
<1> SUFFICES ASSUME Init, client # "fetch"
             PROVE  WireFollows
  BY DEF WireFollows
<1>1. client \in {"EventSource", "grpc"}
  BY ClientsAssumption DEF Init
<1>2. CASE client = "EventSource"
  BY <1>2, StreamBoundAssumption DEF Init, Since, cursor, WireFollows
<1>3. CASE client = "grpc"
  BY <1>3, StreamBoundAssumption DEF Init, Since, WireFollows
<1> QED
  BY <1>1, <1>2, <1>3

(* The edge's steps leave the client where it is, so that only what is on  *)
(* its connection is at stake.                                             *)
LEMMA WireKept ==
    ASSUME TypeOK, WireFollows, client # "fetch",
           UNCHANGED <<client, query, cookie, seen, cur>>,
           log' \in Nat, log <= log',
           \A c \in Conn : pos'[c] <= log',
           \A c \in Conn : c # cur => wire'[c] = wire[c],
           cur # 0 => /\ RunOf(wire'[cur], seen, pos'[cur])
                      /\ edge'[cur] # "ended" => Unread(wire'[cur]) = Len(wire'[cur])
    PROVE  WireFollows'
<1>1. Since' = Since
  BY DEF Since
<1>2. seen <= log'
  BY DEF WireFollows, TypeOK
<1> QED
  BY <1>1, <1>2 DEF WireFollows

LEMMA WireStays ==
    ASSUME TypeOK, WireFollows, [Next]_vars
    PROVE  WireFollows'
<1> SUFFICES ASSUME client # "fetch"
             PROVE  WireFollows'
  BY ClientStays DEF WireFollows
<1>1. /\ Since = seen /\ seen <= log
      /\ \A c \in Conn : pos[c] <= log /\ (c # cur => wire[c] = <<>>)
      /\ cur # 0 => /\ RunOf(wire[cur], seen, pos[cur])
                    /\ edge[cur] # "ended" => Unread(wire[cur]) = Len(wire[cur])
  BY DEF WireFollows
<1>2. /\ log \in Nat /\ log <= MaxEvents /\ seen \in Nat /\ cur \in Nat
      /\ cur # 0 => cur \in Conn
      /\ \A c \in Conn : pos[c] \in Nat /\ wire[c] \in Seq(Frame) /\ last_id[c] \in 0 .. MaxEvents
  BY StreamBoundAssumption DEF TypeOK, Conn
<1>3. CASE UNCHANGED <<client, query, cookie, seen, cur, pos, wire>>
           /\ log' \in Nat /\ log <= log'
           /\ (cur # 0 /\ edge'[cur] # "ended" => edge[cur] # "ended")
  <2>1. \A c \in Conn : pos'[c] <= log'
    BY <1>1, <1>2, <1>3
  <2> QED
    BY <1>1, <1>2, <1>3, <2>1, WireKept
<1>4. CASE UNCHANGED vars
  BY <1>2, <1>3, <1>4 DEF vars
<1>5. CASE Publish
  BY <1>2, <1>3, <1>5 DEF Publish, ClientVars, EdgeVars
<1>6. CASE Connect
  <2>1. conns + 1 \in Conn /\ cur' = conns + 1 /\ wire' = wire /\ wire[conns + 1] = <<>>
    BY <1>1, <1>6, StreamBoundAssumption DEF Connect, TypeOK, Conn
  <2>2. PICK p \in ReplayFrom(seen) : pos' = [pos EXCEPT ![conns + 1] = p]
    BY <1>1, <1>6 DEF Connect
  <2>3. p \in Nat /\ p <= log /\ (seen = 0 \/ seen = p)
    BY <1>1, <1>2 DEF ReplayFrom
  <2>4. \A c \in Conn : pos'[c] <= log
    BY <1>1, <2>2, <2>3 DEF TypeOK
  <2>5. pos'[conns + 1] = p
    BY <2>1, <2>2 DEF TypeOK
  <2>6. RunOf(<<>>, seen, p) /\ Unread(<<>>) = Len(<<>>)
    BY <1>2, <2>3, RunStarts
  <2>7. Since' = Since /\ seen' = seen /\ log' = log /\ cur = 0
    BY <1>6 DEF Connect, Since
  <2>8. \A c \in Conn : c # cur' => wire'[c] = <<>>
    BY <1>1, <2>1, <2>7, <1>2, StreamBoundAssumption DEF Conn
  <2> QED
    BY <1>1, <2>1, <2>4, <2>5, <2>6, <2>7, <2>8 DEF WireFollows
<1>7. CASE Receive
  <2> DEFINE f == Head(wire[cur])
  <2>1. cur \in Conn /\ wire[cur] # <<>>
    BY <1>2, <1>7 DEF Receive
  <2>2. /\ seen' = (IF f.frame = "event" THEN f.id ELSE seen)
        /\ wire' = [wire EXCEPT ![cur] = Tail(@)]
        /\ UNCHANGED <<log, client, query, cur, edge, pos>>
    BY <1>7 DEF Receive
  <2>3. cookie' = (IF f.frame = "event" THEN f.id ELSE cookie)
    BY <1>7 DEF Receive
  <2>4. /\ f.frame = "event" => /\ f.id \in 1 .. pos[cur]
                                /\ RunOf(Tail(wire[cur]), f.id, pos[cur])
        /\ f.frame # "event" => RunOf(Tail(wire[cur]), seen, pos[cur])
        /\ Unread(wire[cur]) = Len(wire[cur])
              => Unread(Tail(wire[cur])) = Len(Tail(wire[cur]))
    <3>1. /\ wire[cur] \in Seq(Frame) /\ wire[cur] # <<>> /\ seen \in Nat /\ pos[cur] \in Nat
          /\ RunOf(wire[cur], seen, pos[cur])
      BY <1>1, <1>2, <1>7, <2>1 DEF Receive
    <3> QED
      BY <3>1, RunIsRead
  <2> HIDE DEF f
  <2>5. wire'[cur] = Tail(wire[cur]) /\ \A c \in Conn : c # cur => wire'[c] = wire[c]
    BY <2>1, <2>2 DEF TypeOK
  <2>6. Since' = seen'
    <3>1. CASE f.frame = "event"
      <4>1. f.id # 0 /\ cookie' = f.id /\ seen' = f.id
        BY <2>2, <2>3, <2>4, <3>1
      <4>2. client' \in {"EventSource", "grpc"}
        BY <2>2, ClientsAssumption DEF TypeOK
      <4>3. CASE client' = "EventSource"
        BY <4>1, <4>3 DEF Since, cursor
      <4>4. CASE client' = "grpc"
        BY <4>1, <4>4 DEF Since
      <4> QED
        BY <4>2, <4>3, <4>4
    <3>2. CASE f.frame # "event"
      <4>1. UNCHANGED <<client, query, cookie, seen>>
        BY <2>2, <2>3, <3>2
      <4>2. Since' = Since
        BY <4>1 DEF Since
      <4> QED
        BY <1>1, <4>1, <4>2
    <3> QED
      BY <3>1, <3>2
  <2>7. seen' <= log'
    BY <1>1, <1>2, <2>1, <2>2, <2>4
  <2>8. RunOf(wire'[cur], seen', pos[cur])
    BY <2>2, <2>4, <2>5
  <2> QED
    BY <1>1, <2>2, <2>4, <2>5, <2>6, <2>7, <2>8 DEF WireFollows
<1>8. CASE Finish
  <2>1. cur \in Conn /\ wire[cur] = <<>> /\ cur' = 0 /\ UNCHANGED <<wire, pos, log, seen>>
    BY <1>2, <1>8 DEF Finish, EdgeVars
  <2>2. Since' = Since
    BY <1>8 DEF Finish, Since
  <2> QED
    BY <1>1, <2>1, <2>2 DEF WireFollows
<1>9. CASE Drop
  <2>1. cur \in Conn /\ cur' = 0 /\ UNCHANGED <<pos, log, seen>>
    BY <1>2, <1>9 DEF Drop
  <2>2. \A c \in Conn : wire'[c] = <<>>
    BY <1>1, <1>9, <2>1 DEF Drop, TypeOK
  <2>3. Since' = Since
    BY <1>9 DEF Drop, Since
  <2> QED
    BY <1>1, <2>1, <2>2, <2>3 DEF WireFollows
<1>10. ASSUME NEW c \in Conn, Open(c) \/ Pump(c)
       PROVE  WireFollows'
  <2>1. edge[cur] = "ended" /\ cur # 0 => edge'[cur] = "ended"
    BY <1>2, <1>10 DEF Open, Pump, TypeOK
  <2> QED
    BY <1>2, <1>3, <1>10, <2>1 DEF Open, Pump, ClientVars
<1>11. ASSUME NEW c \in Conn, Detect(c)
       PROVE  WireFollows'
  <2>1. cur # 0 => edge'[cur] = edge[cur]
    BY <1>2, <1>11 DEF Detect, TypeOK
  <2> QED
    BY <1>2, <1>3, <1>11, <2>1 DEF Detect, ClientVars
<1>12. ASSUME NEW c \in Conn, Collect(c)
       PROVE  WireFollows'
  BY <1>2, <1>3, <1>12 DEF Collect, ClientVars
<1>13. ASSUME NEW c \in Conn, NEW code \in CoreError \cup {"OK"}, CallOver(c, code)
       PROVE  WireFollows'
  BY <1>2, <1>3, <1>13 DEF CallOver, ClientVars
<1>14. ASSUME NEW c \in Conn, Emit(c)
       PROVE  WireFollows'
  <2>1. /\ edge[c] = "pumping" /\ pos[c] < log /\ pos' = [pos EXCEPT ![c] = pos[c] + 1]
        /\ Send(c, Event(pos[c] + 1)) /\ edge' = edge
        /\ UNCHANGED <<client, query, cookie, seen, cur, log>>
    BY <1>14 DEF Emit, ClientVars
  <2>2. pos'[c] = pos[c] + 1 /\ \A d \in Conn : d # c => pos'[d] = pos[d]
    BY <2>1 DEF TypeOK
  <2>3. \A d \in Conn : pos'[d] <= log'
    BY <1>1, <1>2, <2>1, <2>2
  <2>4. \A d \in Conn : d # cur => wire'[d] = wire[d]
    BY <2>1 DEF Send, TypeOK
  <2>5. CASE c = cur
    <3>1. pos[cur] + 1 \in 1 .. MaxEvents /\ cur # 0 /\ edge[cur] # "ended"
      BY <1>2, <2>1, <2>5, StreamBoundAssumption DEF Conn
    <3>2. wire'[cur] = Append(wire[cur], Event(pos[cur] + 1))
      BY <2>1, <2>5 DEF Send, TypeOK
    <3>3. /\ RunOf(wire'[cur], seen, pos'[cur])
          /\ Unread(wire'[cur]) = Len(wire'[cur])
      BY <1>1, <1>2, <2>2, <2>5, <3>1, <3>2, RunGrows
    <3> QED
      BY <1>2, <2>1, <2>3, <2>4, <3>3, WireKept
  <2>6. CASE c # cur
    <3>1. wire' = wire /\ (cur # 0 => pos'[cur] = pos[cur])
      BY <1>2, <2>1, <2>2, <2>6 DEF Send
    <3> QED
      BY <1>1, <1>2, <2>1, <2>3, <2>4, <3>1, WireKept
  <2> QED
    BY <2>5, <2>6
<1>15. ASSUME NEW c \in Conn, edge[c] = "pumping", NEW f \in Frame, f.frame # "event", Send(c, f),
              \A d \in Conn : d # c => edge'[d] = edge[d], edge'[c] = "ended",
              UNCHANGED <<client, query, cookie, seen, cur, log, pos>>
       PROVE  WireFollows'
  <2>1. \A d \in Conn : d # cur => wire'[d] = wire[d]
    BY <1>15 DEF Send, TypeOK
  <2>2. CASE c = cur
    <3>1. wire'[cur] = Append(wire[cur], f) /\ edge[cur] # "ended" /\ cur # 0
      BY <1>15, <2>2, StreamBoundAssumption DEF Send, TypeOK, Conn
    <3>2. RunOf(wire'[cur], seen, pos[cur])
      BY <1>1, <1>2, <1>15, <2>2, <3>1, RunFails
    <3> QED
      BY <1>1, <1>2, <1>15, <2>1, <2>2, <3>2, WireKept
  <2>3. CASE c # cur
    <3>1. wire' = wire /\ (cur # 0 => edge'[cur] = edge[cur])
      BY <1>2, <1>15, <2>3 DEF Send
    <3> QED
      BY <1>1, <1>2, <1>3, <1>15, <3>1
  <2> QED
    BY <2>2, <2>3
<1>16. ASSUME NEW c \in Conn, PumpEnds(c)
       PROVE  WireFollows'
  <2>1. /\ edge[c] = "pumping" /\ edge'[c] = "ended"
        /\ \A d \in Conn : d # c => edge'[d] = edge[d]
        /\ UNCHANGED <<client, query, cookie, seen, cur, log, pos>>
    BY <1>16 DEF PumpEnds, TypeOK, ClientVars
  <2>2. CASE call[c] = "OK"
    <3>1. cur # 0 /\ edge'[cur] # "ended" => edge[cur] # "ended"
      BY <1>2, <2>1
    <3> QED
      BY <1>2, <1>3, <1>16, <2>1, <2>2, <3>1 DEF PumpEnds
  <2>3. CASE call[c] # "OK"
    <3>1. call[c] \in CoreError /\ last_id[c] \in 0 .. MaxEvents
      BY <1>2, <1>16, <2>3 DEF PumpEnds
    <3>2. \E f \in Frame : f.frame # "event" /\ Send(c, f)
      BY <1>16, <2>3, <3>1, FailureIsFrame DEF PumpEnds
    <3> QED
      BY <1>15, <2>1, <3>2
  <2> QED
    BY <2>2, <2>3
<1>17. ASSUME NEW c \in Conn, Fault(c)
       PROVE  WireFollows'
  <2>1. /\ edge[c] = "pumping" /\ edge'[c] = "ended"
        /\ \A d \in Conn : d # c => edge'[d] = edge[d]
        /\ UNCHANGED <<client, query, cookie, seen, cur, log, pos>>
    BY <1>17 DEF Fault, TypeOK, ClientVars
  <2>2. \E f \in Frame : f.frame # "event" /\ Send(c, f)
    BY <1>2, <1>17, FaultIsFrame DEF Fault
  <2> QED
    BY <1>15, <2>1, <2>2
<1> QED
  BY <1>4, <1>5, <1>6, <1>7, <1>8, <1>9, <1>10, <1>11, <1>12, <1>13, <1>14, <1>16, <1>17
     DEF Next, EdgeStep

(* stream.py: for a client that resumes by its own cursor, what is on its  *)
(* way is the run of events after the last it processed, on any number of  *)
(* connections, dropped, ended or faulted at any moment.                   *)
THEOREM WireInvariance == Spec => []WireFollows
<1>1. TypeOK /\ WireFollows /\ [Next]_vars => WireFollows'
  BY WireStays
<1> QED
  BY WireAtFirst, <1>1, StreamTypes, PTL DEF Spec

(***************************************************************************)
(* The refinement.                                                         *)
(***************************************************************************)

LEMMA FeedAtFirst == Init => Feed!Init
BY StreamBoundAssumption DEF Init, Feed!Init

(* To the client's eye a step is an event that happens, an event it reads, *)
(* or nothing.                                                             *)
LEMMA FeedSteps ==
    ASSUME TypeOK, WireFollows, client # "fetch", [Next]_vars
    PROVE  [Feed!Next]_(Feed!vars)
<1>1. CASE Publish
  BY <1>1 DEF Publish, ClientVars, Feed!Next, Feed!Publish
<1>2. CASE Receive
  <2> DEFINE f == Head(wire[cur])
  <2>1. /\ seen' = (IF f.frame = "event" THEN f.id ELSE seen)
        /\ got' = (IF f.frame = "event" THEN got + 1 ELSE got)
        /\ log' = log
    BY <1>2 DEF Receive
  <2>2. cur \in Conn /\ cur # 0 /\ wire[cur] # <<>>
    BY <1>2, StreamBoundAssumption DEF Receive, TypeOK, Conn
  <2>3. /\ wire[cur] \in Seq(Frame) /\ seen \in Nat /\ log \in Nat
        /\ pos[cur] \in Nat /\ pos[cur] <= log /\ RunOf(wire[cur], seen, pos[cur])
    BY <2>2, StreamBoundAssumption DEF WireFollows, TypeOK
  <2>4. f.frame = "event" => f.id \in 1 .. pos[cur] /\ (seen # 0 => f.id = seen + 1)
    BY <2>2, <2>3, RunIsRead
  <2> HIDE DEF f
  <2>5. CASE f.frame = "event"
    <3>1. f.id \in 1 .. log /\ seen' = f.id
      BY <2>1, <2>3, <2>4, <2>5
    <3>2. IF seen = 0 THEN seen' \in 1 .. log ELSE seen < log /\ seen' = seen + 1
      BY <2>3, <2>4, <2>5, <3>1
    <3> QED
      BY <2>1, <2>5, <3>2 DEF Feed!Next, Feed!Read
  <2>6. CASE f.frame # "event"
    BY <2>1, <2>6 DEF Feed!vars
  <2> QED
    BY <2>5, <2>6
<1>3. ASSUME Connect \/ Finish \/ Drop \/ UNCHANGED vars
      PROVE  UNCHANGED Feed!vars
  BY <1>3 DEF Connect, Finish, Drop, vars, Feed!vars
<1>4. ASSUME NEW c \in Conn, EdgeStep(c) \/ Fault(c) \/ Detect(c) \/ Collect(c)
      PROVE  UNCHANGED Feed!vars
  BY <1>4 DEF EdgeStep, Open, Pump, Emit, PumpEnds, Fault, Detect, Collect, ClientVars, Feed!vars
<1>5. ASSUME NEW c \in Conn, NEW code \in CoreError \cup {"OK"}, CallOver(c, code)
      PROVE  UNCHANGED Feed!vars
  BY <1>5 DEF CallOver, ClientVars, Feed!vars
<1> QED
  BY <1>1, <1>2, <1>3, <1>4, <1>5 DEF Next

(* routers/stream.py, "Resuming": what a browser's EventSource or a gRPC   *)
(* client processes, over any number of drops, failures and reconnections, *)
(* is the core's log in order, no event twice and none left out.  (Not so  *)
(* for one that resumes from the error frame: FetchResumes is refuted.)    *)
THEOREM StreamImplementsFeed == Spec /\ client # "fetch" => ImplementsFeed
<1>1. client # "fetch" /\ [Next]_vars => (client # "fetch")'
  BY ClientStays
<1>2. TypeOK /\ WireFollows /\ client # "fetch" /\ [Next]_vars => [Feed!Next]_(Feed!vars)
  BY FeedSteps
<1> QED
  BY <1>1, <1>2, FeedAtFirst, StreamTypes, WireInvariance, PTL DEF Spec, ImplementsFeed, Feed!Spec

(* The same, counted: a client that starts from a cursor has processed as  *)
(* many events as the log has between that cursor and the last it saw.     *)
THEOREM EventsAreCounted ==
    Spec /\ client # "fetch" /\ query # 0 => [](seen = query + got)
<1> DEFINE Counted == client # "fetch" /\ query # 0 /\ seen = query + got /\ seen # 0
<1>1. Init /\ client # "fetch" /\ query # 0 => Counted
  BY StreamBoundAssumption DEF Init
<1>2. TypeOK /\ WireFollows /\ Counted /\ [Next]_vars => Counted'
  <2> SUFFICES ASSUME TypeOK, WireFollows, Counted, [Next]_vars
               PROVE  Counted'
    OBVIOUS
  <2>1. client' = client /\ query' = query /\ {query, seen} \subseteq Nat /\ got \in Nat
    BY ClientStays, StreamBoundAssumption DEF TypeOK
  <2>2. [Feed!Next]_(Feed!vars)
    BY FeedSteps
  <2>3. UNCHANGED <<seen, got>> \/ (seen' = seen + 1 /\ got' = got + 1)
    BY <2>2 DEF Feed!Next, Feed!Publish, Feed!Read, Feed!vars
  <2> QED
    BY <2>1, <2>3
<1>3. Counted => seen = query + got
  OBVIOUS
<1> HIDE DEF Counted
<1> QED
  BY <1>1, <1>2, <1>3, StreamTypes, WireInvariance, PTL DEF Spec
=============================================================================
