---------------------------- MODULE MCEventStream ----------------------------
(* Instances of EventStream: one status the client may retry, one not; one *)
(* whose text must not leave, one whose text must.                         *)
EXTENDS EventStream

Resuming  == {"EventSource", "grpc"}
Fetching  == {"fetch"}
SomeError == {"UNAVAILABLE", "NOT_FOUND"}
Starts    == {0, 1}
=============================================================================
