----------------------------- MODULE Deployment -----------------------------
(***************************************************************************)
(* Flashing, OTA updates, hardware validation, health confirmations and    *)
(* protocol exchanges: iotron/toolchains.py and iotron/hardware_lab.py     *)
(* behind iotron/service.py, the table deployments and the ring of traces  *)
(* of iotron/observability.py.                                             *)
(*                                                                         *)
(* A handler reads the artifact several times: for the digest of the plan, *)
(* for the signed OTA bundle, for the signed manifest and, to execute the  *)
(* plan, for the check against that digest; then it starts a tool of the   *)
(* vendor, which reads the file once more.  Meanwhile others build the     *)
(* artifact anew, perhaps to a content it had before, or delete it.  Only  *)
(* when the tool has ended is the deployment stored, so a tool that        *)
(* outlives its 300 seconds, an error of SQLite or a stop of the process   *)
(* leaves none.                                                            *)
(*                                                                         *)
(* Handlers run on threads of the server, any number of them at once.      *)
(* Metrics and the ring of log lines are left out.                         *)
(***************************************************************************)
EXTENDS Naturals, Sequences

CONSTANTS
  Request,      \* requests the clients make
  Operation,    \* what they may ask for
  Faults,       \* may SQLite raise OperationalError?
  MaxTraces,    \* maxlen of the deque _TRACES
  Firmware,     \* contents that a build may give the artifact
  NoFile,       \* there is no artifact
  MaxBuilds,    \* bound: how often the artifact is built
  MaxRestarts   \* bound: how often the process is restarted

ASSUME ConstantsAssumption ==
  /\ Operation \subseteq {"flash", "ota", "validate_flash", "validate_ota",
                          "confirm", "exchange"}
  /\ Faults \in BOOLEAN
  /\ MaxTraces \in Nat \ {0}
  /\ NoFile \notin Firmware
  /\ MaxBuilds \in Nat /\ MaxRestarts \in Nat

VARIABLES
  artifact,   \* content of the artifact file
  builds,     \* how often it was built
  pc,         \* the next step of each handler
  req,        \* what was asked of it
  plan,       \* its plan
  rows,       \* table deployments, by the request that made the row
  audit,      \* requests with a row in table audit_log
  traces,     \* the deque _TRACES
  restarts,   \* how often the process has been restarted
  tool,       \* history: what became of the tool each handler started
  answer,     \* history: how each request ended
  reverted    \* history: requests to whose content the artifact went back

vars == <<artifact, builds, pc, req, plan, rows, audit, traces, restarts, tool,
          answer, reverted>>

-----------------------------------------------------------------------------
Content == Firmware \cup {NoFile}

Deploys == {"flash", "ota"}
Validates == {"validate_flash", "validate_ota"}
Ota == {"ota", "validate_ota"}
Traced == Validates \cup {"exchange"}

Asked == [op : Operation, execute : BOOLEAN]
NoRequest == [op |-> "none", execute |-> FALSE]

(* The digests in a plan stand for the content they were computed from; a  *)
(* bundle holds the digest it signs (payload) and that of its manifest.    *)
PlanStatus == {"none", "planned", "blocked", "failed_preflight", "succeeded",
               "failed", "ready", "completed"}
Bundle == [payload : Content, manifest : Content]
Plan == [available : BOOLEAN, sha : Content, manifest : Content,
         bundle : Bundle, status : PlanStatus]
NoPlan == [available |-> FALSE, sha |-> NoFile, manifest |-> NoFile,
           bundle |-> [payload |-> NoFile, manifest |-> NoFile], status |-> "none"]

NoRow == [status |-> "none", sha |-> NoFile]
RowOf(p) == [status |-> p.status, sha |-> p.sha]

BundleOf(content) == [payload |-> content, manifest |-> content]

(* verify_ota_rollout_bundle, up to the signatures: the signing key is the *)
(* same for as long as the process runs.                                   *)
BundleVerified(b) == b.payload = b.manifest

(* Mutant: the list of traces is not a ring. *)
PushedUnbounded(ring, trace) == Append(ring, trace)

(* The deque drops its oldest trace when it is full. *)
Pushed(ring, trace) ==
  LET longer == Append(ring, trace)
  IN  IF Len(longer) > MaxTraces THEN Tail(longer) ELSE longer

(* Mutant: the newest trace is finished, whoever started it. *)
FinishedNewest(ring, r, status) ==
  [i \in DOMAIN ring |->
     IF i = Len(ring) THEN [ring[i] EXCEPT !.status = status] ELSE ring[i]]

(* finish_trace: nothing changes if the trace has been dropped. *)
Finished(ring, r, status) ==
  [i \in DOMAIN ring |->
     IF ring[i].id = r THEN [ring[i] EXCEPT !.status = status] ELSE ring[i]]

Init ==
  /\ artifact \in Content
  /\ builds = 0
  /\ pc = [r \in Request |-> "new"]
  /\ req = [r \in Request |-> NoRequest]
  /\ plan = [r \in Request |-> NoPlan]
  /\ rows = [r \in Request |-> NoRow]
  /\ audit = {}
  /\ traces = <<>>
  /\ restarts = 0
  /\ tool = [r \in Request |-> "none"]
  /\ answer = [r \in Request |-> "none"]
  /\ reverted = {}

file == <<artifact, builds>>

Goto(r, step) == pc' = [pc EXCEPT ![r] = step]

(* A request ends.  The plan of one that failed is gone with its handler;  *)
(* the plan of any other is its answer.                                    *)
Answered(r) ==
  /\ Goto(r, "ended")
  /\ answer' = [answer EXCEPT ![r] = "ok"]
  /\ UNCHANGED plan

Raised(r) ==
  /\ Goto(r, "ended")
  /\ answer' = [answer EXCEPT ![r] = "raised"]
  /\ plan' = [plan EXCEPT ![r] = NoPlan]
  /\ reverted' = reverted \ {r}

-----------------------------------------------------------------------------
(* A request arrives.  A validation and an exchange start a trace before   *)
(* they do anything else.                                                  *)
Receive(r) ==
  /\ pc[r] = "new"
  /\ \E q \in Asked :
       /\ q.execute => q.op \in Deploys
       /\ req' = [req EXCEPT ![r] = q]
       /\ traces' = IF q.op \in Traced
                    THEN Pushed(traces, [id |-> r, status |-> "started"])
                    ELSE traces
       /\ Goto(r, IF q.op = "exchange" THEN "exchange"
                  ELSE IF q.op = "confirm" THEN "log" ELSE "plan")
  /\ UNCHANGED <<file, reverted, plan, rows, audit, restarts, tool, answer>>

(* No toolchain is registered for the board: ValueError, answered 400. *)
UnknownBoard(r) ==
  /\ pc[r] = "plan"
  /\ Raised(r)
  /\ UNCHANGED <<file, req, rows, audit, traces, restarts, tool>>

(* validate_artifact finds no file, at whichever read: ValueError too. *)
ArtifactMissing(r) ==
  /\ \/ pc[r] \in {"plan", "bundle", "manifest"}
     \/ pc[r] = "preflight" /\ plan[r].available
  /\ artifact = NoFile
  /\ Raised(r)
  /\ UNCHANGED <<file, req, rows, audit, traces, restarts, tool>>

(* build_flash_plan: find the tool, hash the artifact... *)
PlanFlash(r) ==
  /\ pc[r] = "plan" /\ req[r].op \notin Ota
  /\ artifact # NoFile
  /\ \E found \in BOOLEAN :
       plan' = [plan EXCEPT ![r].available = found, ![r].sha = artifact]
  /\ Goto(r, "manifest")
  /\ UNCHANGED <<file, reverted, req, rows, audit, traces, restarts, tool, answer>>

(* build_ota_plan: the same, but the bundle comes before the manifest... *)
PlanOta(r) ==
  /\ pc[r] = "plan" /\ req[r].op \in Ota
  /\ artifact # NoFile
  /\ \E found \in BOOLEAN :
       plan' = [plan EXCEPT ![r].available = found, ![r].sha = artifact]
  /\ Goto(r, "bundle")
  /\ UNCHANGED <<file, reverted, req, rows, audit, traces, restarts, tool, answer>>

(* ...the signed bundle, from another read of the file... *)
SignBundle(r) ==
  /\ pc[r] = "bundle"
  /\ artifact # NoFile
  /\ plan' = [plan EXCEPT ![r].bundle = BundleOf(artifact)]
  /\ Goto(r, "manifest")
  /\ UNCHANGED <<file, reverted, req, rows, audit, traces, restarts, tool, answer>>

(* ...and the signed manifest, from one more. *)
SignManifest(r) ==
  LET q == req[r] IN
  /\ pc[r] = "manifest"
  /\ artifact # NoFile
  /\ plan' = [plan EXCEPT ![r].manifest = artifact, ![r].status = "planned"]
  /\ Goto(r, IF q.op \in Validates THEN "probe"
             ELSE IF q.execute THEN "preflight" ELSE "record")
  /\ UNCHANGED <<file, reverted, req, rows, audit, traces, restarts, tool, answer>>

-----------------------------------------------------------------------------
(* Mutant: the plan's digest is not compared again. *)
PreflightUnchecked(r) ==
  LET p == plan[r] IN
  /\ pc[r] = "preflight"
  /\ p.available => artifact # NoFile
  /\ IF ~p.available
     THEN plan' = [plan EXCEPT ![r].status = "blocked"] /\ Goto(r, "record")
     ELSE Goto(r, "start") /\ UNCHANGED plan
  /\ UNCHANGED <<file, reverted, req, rows, audit, traces, restarts, tool, answer>>

(* execute_plan until the tool starts: the tool must have been found, and  *)
(* the artifact must still have the digest of the plan.                    *)
Preflight(r) ==
  LET p == plan[r]
      verified == /\ artifact = p.sha
                  /\ req[r].op = "ota" => BundleVerified(p.bundle)
  IN
  /\ pc[r] = "preflight"
  /\ p.available => artifact # NoFile
  /\ IF ~p.available
     THEN plan' = [plan EXCEPT ![r].status = "blocked"] /\ Goto(r, "record")
     ELSE IF ~verified
     THEN plan' = [plan EXCEPT ![r].status = "failed_preflight"] /\ Goto(r, "record")
     ELSE Goto(r, "start") /\ UNCHANGED plan
  /\ UNCHANGED <<file, reverted, req, rows, audit, traces, restarts, tool, answer>>

(* OSError when the tool is to be started. *)
StartFails(r) ==
  /\ pc[r] = "start"
  /\ Raised(r)
  /\ UNCHANGED <<file, req, rows, audit, traces, restarts, tool>>

(* The tool starts... *)
StartTool(r) ==
  /\ pc[r] = "start"
  /\ tool' = [tool EXCEPT ![r] = "running"]
  /\ Goto(r, "tool")
  /\ UNCHANGED <<file, reverted, req, plan, rows, audit, traces, restarts, answer>>

(* Mutant: the return code is not looked at. *)
EndToolUnread(r) ==
  /\ pc[r] = "tool"
  /\ \E outcome \in {"succeeded", "failed"} : tool' = [tool EXCEPT ![r] = outcome]
  /\ plan' = [plan EXCEPT ![r].status = "succeeded"]
  /\ Goto(r, "record")
  /\ UNCHANGED <<file, reverted, req, rows, audit, traces, restarts, answer>>

(* ...and ends, with a return code of zero or another... *)
EndTool(r) ==
  /\ pc[r] = "tool"
  /\ \E outcome \in {"succeeded", "failed"} :
       /\ tool' = [tool EXCEPT ![r] = outcome]
       /\ plan' = [plan EXCEPT ![r].status = outcome]
  /\ Goto(r, "record")
  /\ UNCHANGED <<file, reverted, req, rows, audit, traces, restarts, answer>>

(* Mutant: the handler waits for the tool without a limit. *)
ToolTimeoutNever(r) == FALSE /\ UNCHANGED vars

(* ...or is killed after 300 seconds: TimeoutExpired is nobody's           *)
(* ValueError, so the request fails before anything is stored.             *)
ToolTimeout(r) ==
  /\ pc[r] = "tool"
  /\ tool' = [tool EXCEPT ![r] = "killed"]
  /\ Raised(r)
  /\ UNCHANGED <<file, req, rows, audit, traces, restarts>>

(* run_hardware_validation looks at the file and for the tool once more.   *)
(* The port may be missing, too.                                           *)
Probe(r) ==
  /\ pc[r] = "probe"
  /\ \E status \in {"ready", "blocked"} :
       /\ status = "ready" => artifact # NoFile
       /\ plan' = [plan EXCEPT ![r].status = status]
  /\ Goto(r, "finish")
  /\ UNCHANGED <<file, reverted, req, rows, audit, traces, restarts, tool, answer>>

(* An exchange with a device or a broker: _i2c_exchange drops the limit of *)
(* five seconds, and for MQTT it is the keepalive only.                    *)
Exchange(r) ==
  /\ pc[r] = "exchange"
  /\ plan' = [plan EXCEPT ![r].status = "completed"]
  /\ Goto(r, "finish")
  /\ UNCHANGED <<file, reverted, req, rows, audit, traces, restarts, tool, answer>>

ExchangeFails(r) ==
  /\ pc[r] = "exchange"
  /\ Raised(r)
  /\ UNCHANGED <<file, req, rows, audit, traces, restarts, tool>>

FinishTrace(r) ==
  /\ pc[r] = "finish"
  /\ traces' = Finished(traces, r, plan[r].status)
  /\ Goto(r, "log")
  /\ UNCHANGED <<file, reverted, req, plan, rows, audit, restarts, tool, answer>>

-----------------------------------------------------------------------------
(* Mutant: plans that were not executed are not stored. *)
RecordExecuted(r) ==
  /\ pc[r] = "record"
  /\ rows' = IF req[r].execute THEN [rows EXCEPT ![r] = RowOf(plan[r])] ELSE rows
  /\ Goto(r, "log")
  /\ UNCHANGED <<file, reverted, req, plan, audit, traces, restarts, tool, answer>>

(* _record_deployment: save_deployment in one transaction... *)
Record(r) ==
  /\ pc[r] = "record"
  /\ rows' = [rows EXCEPT ![r] = RowOf(plan[r])]
  /\ Goto(r, "log")
  /\ UNCHANGED <<file, reverted, req, plan, audit, traces, restarts, tool, answer>>

(* ...the audit row in another; then the request is answered. *)
Log(r) ==
  /\ pc[r] = "log"
  /\ audit' = audit \cup {r}
  /\ Answered(r)
  /\ UNCHANGED <<file, reverted, req, rows, traces, restarts, tool>>

(* SQLite raises, and nothing is committed. *)
Fault(r) ==
  /\ Faults
  /\ pc[r] \in {"record", "log"}
  /\ Raised(r)
  /\ UNCHANGED <<file, req, rows, audit, traces, restarts, tool>>

(* The process stops and is started again.  A tool that is running goes on *)
(* without it.                                                             *)
Restart ==
  /\ restarts < MaxRestarts
  /\ restarts' = restarts + 1
  /\ traces' = <<>>
  /\ LET open == {r \in Request : pc[r] \notin {"new", "ended"}} IN
       /\ pc' = [r \in Request |-> IF r \in open THEN "ended" ELSE pc[r]]
       /\ answer' = [r \in Request |-> IF r \in open THEN "lost" ELSE answer[r]]
       /\ plan' = [r \in Request |-> IF r \in open THEN NoPlan ELSE plan[r]]
       /\ reverted' = reverted \ open
       /\ tool' = [r \in Request |->
                     IF tool[r] = "running" THEN "orphaned" ELSE tool[r]]
  /\ UNCHANGED <<file, req, rows, audit>>

(* The artifact is built by others, with a content it may have had before, *)
(* or deleted.                                                             *)
Build ==
  /\ builds < MaxBuilds
  /\ builds' = builds + 1
  /\ \E content \in Firmware \ {artifact} :
       /\ artifact' = content
       /\ reverted' = reverted \cup
            {r \in Request : /\ req[r].execute
                            /\ pc[r] \in {"bundle", "manifest", "preflight"}
                            /\ plan[r].sha = content}
  /\ UNCHANGED <<pc, req, plan, rows, audit, traces, restarts, tool, answer>>

Delete ==
  /\ artifact # NoFile
  /\ artifact' = NoFile
  /\ UNCHANGED <<builds, reverted, pc, req, plan, rows, audit, traces, restarts,
                 tool, answer>>

(* What a handler does by itself; neither the tool nor the other end of an *)
(* exchange is part of it.                                                 *)
Handle(r) ==
  \/ ArtifactMissing(r) \/ PlanFlash(r) \/ PlanOta(r) \/ SignBundle(r)
  \/ SignManifest(r) \/ Preflight(r) \/ StartTool(r) \/ ToolTimeout(r)
  \/ Probe(r) \/ FinishTrace(r) \/ Record(r) \/ Log(r)

Next ==
  \/ \E r \in Request :
       Receive(r) \/ UnknownBoard(r) \/ Handle(r) \/ StartFails(r) \/ EndTool(r)
         \/ Exchange(r) \/ ExchangeFails(r) \/ Fault(r)
  \/ Restart \/ Build \/ Delete

Spec == Init /\ [][Next]_vars

(* The server's threads run; neither a tool nor an exchange needs to end,  *)
(* but the wait for a tool is limited.                                     *)
FairSpec == Spec /\ \A r \in Request : WF_vars(Handle(r))

-----------------------------------------------------------------------------
(* Every variable has its type. *)
TypeOK ==
  /\ artifact \in Content /\ builds \in 0 .. MaxBuilds
  /\ pc \in [Request -> {"new", "plan", "bundle", "manifest", "preflight",
                         "start", "tool", "probe", "exchange", "finish",
                         "record", "log", "ended"}]
  /\ req \in [Request -> Asked \cup {NoRequest}]
  /\ plan \in [Request -> Plan]
  /\ rows \in [Request -> [status : PlanStatus, sha : Content]]
  /\ audit \subseteq Request
  /\ traces \in Seq([id : Request, status : PlanStatus \cup {"started"}])
  /\ Len(traces) <= MaxTraces
  /\ restarts \in 0 .. MaxRestarts
  /\ tool \in [Request -> {"none", "running", "succeeded", "failed", "killed",
                           "orphaned"}]
  /\ answer \in [Request -> {"none", "ok", "raised", "lost"}]
  /\ reverted \subseteq Request

(* The table of deployments tells what the tools did: a row that says      *)
(* succeeded or failed is of a tool that ended so, and any other row of a  *)
(* deployment whose tool was never started.                                *)
HistoryIsTrue ==
  \A r \in Request : rows[r] # NoRow =>
    IF rows[r].status \in {"succeeded", "failed"}
    THEN tool[r] = rows[r].status
    ELSE tool[r] = "none"

(* Every answered request is in the audit log, and in the table of         *)
(* deployments if it is one, whether or not the process stopped since;     *)
(* a tool that was started for an answered request has its outcome there.  *)
AnsweredIsRecorded ==
  \A r \in Request : answer[r] = "ok" =>
    /\ r \in audit
    /\ req[r].op \in Deploys =>
         /\ rows[r] # NoRow
         /\ tool[r] # "none" => rows[r].status = tool[r]

(* A tool is started only for an artifact all of whose reads agreed: the   *)
(* manifest and, for an OTA update, the bundle sign the very digest that   *)
(* is stored with the deployment, however often it was built meanwhile,    *)
(* unless a build brought the content of the plan back: the preflight      *)
(* compares digests and does not see what was signed in between.           *)
DispatchedIsSigned ==
  \A r \in Request \ reverted : tool[r] # "none" =>
    /\ plan[r].manifest = plan[r].sha
    /\ req[r].op = "ota" => plan[r].bundle = BundleOf(plan[r].sha)

(* Unless its request failed, a trace that is still marked as started      *)
(* belongs to a request that is still served, and a finished one carries   *)
(* the result of the request that started it, however requests overlap and *)
(* traces drop out of the ring.                                            *)
TraceFollowsRequest ==
  \A i \in DOMAIN traces :
    LET r == traces[i].id IN
    \/ answer[r] = "raised"
    \/ traces[i].status = "started" /\ pc[r] \in {"plan", "bundle", "manifest",
                                              "probe", "exchange", "finish"}
    \/ traces[i].status = plan[r].status /\ pc[r] \in {"log", "ended"}

(* Every request that arrives ends, even when its tool never does, except  *)
(* one whose exchange never does.                                          *)
RequestAnswered ==
  \A r \in Request : pc[r] \notin {"new", "exchange"} ~> pc[r] = "ended"
=============================================================================
