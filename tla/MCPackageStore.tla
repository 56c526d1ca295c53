--------------------------- MODULE MCPackageStore ---------------------------
(* One instance of PackageStore for TLC: in each behaviour one process     *)
(* serves all requests, either the server or a command line that is        *)
(* started anew for each, and statements may fail or never do.             *)
EXTENDS PackageStore

VARIABLES only, faulty

MCInit == Init /\ only \in Proc /\ faulty \in BOOLEAN

MCNext ==
  /\ Work(only) \/ (faulty /\ Fault(only))
  /\ UNCHANGED <<only, faulty>>

MCSpec == MCInit /\ [][MCNext]_<<vars, only, faulty>>

(* Unless a statement failed, between requests the server's copy is the    *)
(* table: what GET /packages and GET /status answer is what the database   *)
(* holds.                                                                  *)
ServerIsCurrent ==
  pc[only] = "idle" /\ only \in Server => faulty \/ cache[only] = table
=============================================================================
