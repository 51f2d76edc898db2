------------------------------ MODULE EdgeErrors ------------------------------
(***************************************************************************)
(* The translation of a failure into what the caller of the edge reads:    *)
(* app/platform/errors.py, with the two places that apply it (the REST     *)
(* exception handler and the gRPC ErrorInterceptor).                       *)
(*                                                                         *)
(* A status is the name of a gRPC status code; an HTTP status is a number. *)
(* The text of a message is abstracted to WHO wrote it, which is all the   *)
(* code's rule on 5xx details tells apart:                                 *)
(*   "core"     the core's own message;                                    *)
(*   "edge"     a sentence of this service, meant for the caller;          *)
(*   "generic"  the fixed text "internal error";                           *)
(*   "none"     no failure to describe.                                    *)
(***************************************************************************)
EXTENDS Integers

StatusCode ==
    { "OK", "CANCELLED", "UNKNOWN", "INVALID_ARGUMENT", "DEADLINE_EXCEEDED",
      "NOT_FOUND", "ALREADY_EXISTS", "PERMISSION_DENIED", "RESOURCE_EXHAUSTED",
      "FAILED_PRECONDITION", "ABORTED", "OUT_OF_RANGE", "UNIMPLEMENTED",
      "INTERNAL", "UNAVAILABLE", "DATA_LOSS", "UNAUTHENTICATED" }

Detail == {"core", "edge", "generic", "none"}

STATUS_TO_HTTP ==
    [ OK                  |-> 200,
      INVALID_ARGUMENT    |-> 400,
      UNAUTHENTICATED     |-> 401,
      PERMISSION_DENIED   |-> 403,
      NOT_FOUND           |-> 404,
      ALREADY_EXISTS      |-> 409,
      ABORTED             |-> 409,
      FAILED_PRECONDITION |-> 412,
      RESOURCE_EXHAUSTED  |-> 429,
      UNIMPLEMENTED       |-> 501,
      UNAVAILABLE         |-> 503,
      DEADLINE_EXCEEDED   |-> 504 ]

http_status_for(code) ==
    IF code \in DOMAIN STATUS_TO_HTTP THEN STATUS_TO_HTTP[code] ELSE 500

(* Mutant: the rule on 5xx dropped. *)
detail_for_Verbatim(status) == "core"

detail_for(status) == IF status >= 500 THEN "generic" ELSE "core"

(* Mutants of the table below: an entry missing, and the default missing.  *)
grpc_status_for_http_No412(status) ==
    CASE status = 400 -> "INVALID_ARGUMENT"
      [] status = 401 -> "UNAUTHENTICATED"
      [] status = 403 -> "PERMISSION_DENIED"
      [] status = 404 -> "NOT_FOUND"
      [] status = 409 -> "ALREADY_EXISTS"
      [] status = 503 -> "UNAVAILABLE"
      [] OTHER        -> "INTERNAL"

grpc_status_for_http_NoDefault(status) ==
    CASE status = 400 -> "INVALID_ARGUMENT"
      [] status = 401 -> "UNAUTHENTICATED"
      [] status = 403 -> "PERMISSION_DENIED"
      [] status = 503 -> "UNAVAILABLE"
      [] OTHER        -> "None"

grpc_status_for_http(status) ==
    CASE status = 400 -> "INVALID_ARGUMENT"
      [] status = 401 -> "UNAUTHENTICATED"
      [] status = 403 -> "PERMISSION_DENIED"
      [] status = 404 -> "NOT_FOUND"
      [] status = 409 -> "ALREADY_EXISTS"
      [] status = 412 -> "FAILED_PRECONDITION"
      [] status = 429 -> "RESOURCE_EXHAUSTED"
      [] status = 501 -> "UNIMPLEMENTED"
      [] status = 503 -> "UNAVAILABLE"
      [] status = 504 -> "DEADLINE_EXCEEDED"
      [] OTHER        -> "INTERNAL"

-----------------------------------------------------------------------------
(***************************************************************************)
(* What ends a request.  `core` is the status the core answered with, when *)
(* the core's answer is what ended it, and "OK" otherwise.                 *)
(***************************************************************************)
Cause ==
    [ raised : {"nothing", "rpc", "http", "refusal", "validation", "other"},
      core   : StatusCode,
      http   : Nat,
      detail : Detail ]

Returned   == [raised |-> "nothing", core |-> "OK", http |-> 200, detail |-> "none"]
RpcError(code) ==
    [raised |-> "rpc", core |-> code, http |-> 0, detail |-> "core"]
EdgeRefusal(status) ==
    [raised |-> "http", core |-> "OK", http |-> status, detail |-> "edge"]
Malformed  == [raised |-> "validation", core |-> "OK", http |-> 422, detail |-> "edge"]
Unhandled  == [raised |-> "other", core |-> "OK", http |-> 500, detail |-> "generic"]
MergeRefusal ==
    [raised |-> "refusal", core |-> "FAILED_PRECONDITION", http |-> 412, detail |-> "core"]

(* as_http: the same AioRpcError, for whoever runs above the handlers.     *)
as_http(code) ==
    [ raised |-> "http", core |-> code, http |-> http_status_for(code),
      detail |-> detail_for(http_status_for(code)) ]

(***************************************************************************)
(* What the caller reads.  A reply carries an HTTP status on REST and a    *)
(* gRPC status on gRPC; the other field is unused (0 or "OK").             *)
(***************************************************************************)
Reply == [http : Nat, status : StatusCode, detail : Detail]

as_grpc(code) ==
    [http |-> 0, status |-> code, detail |-> detail_for(http_status_for(code))]

as_grpc_from_http(c) ==
    [ http   |-> 0,
      status |-> grpc_status_for_http(c.http),
      detail |-> IF c.http >= 500 THEN "generic" ELSE c.detail ]

(* ErrorInterceptor; a merge refusal is a message of its own, not a status. *)
GrpcReply(c) ==
    CASE c.raised = "rpc"        -> as_grpc(c.core)
      [] c.raised = "http"       -> as_grpc_from_http(c)
      [] c.raised = "validation" -> [http |-> 0, status |-> "INVALID_ARGUMENT", detail |-> "edge"]
      [] c.raised = "other"      -> [http |-> 0, status |-> "INTERNAL", detail |-> "generic"]
      [] OTHER                   -> [http |-> 0, status |-> "OK", detail |-> c.detail]

(* grpc_exception_handler for a core error, the framework for the rest.    *)
RestReply(c) ==
    IF c.raised = "rpc"
    THEN [ http   |-> http_status_for(c.core), status |-> "OK",
           detail |-> detail_for(http_status_for(c.core)) ]
    ELSE [http |-> c.http, status |-> "OK", detail |-> c.detail]

ReplyOn(surface, c) == IF surface = "rest" THEN RestReply(c) ELSE GrpcReply(c)

(* The HTTP class of a reply, whichever port it left by.                   *)
HttpClass(surface, rep) ==
    IF surface = "rest" THEN rep.http ELSE http_status_for(rep.status)
=============================================================================
