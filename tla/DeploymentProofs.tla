-------------------------- MODULE DeploymentProofs --------------------------
(***************************************************************************)
(* Theorems about Deployment, for any number of overlapping requests,      *)
(* whenever the artifact is built or deleted, SQLite raises, a tool        *)
(* outlives its limit or the process stops.                                *)
(***************************************************************************)
EXTENDS Deployment, TLAPS

Steps == {"new", "plan", "bundle", "manifest", "preflight", "start", "tool",
          "probe", "exchange", "finish", "record", "log", "ended"}
Outcomes == {"none", "running", "succeeded", "failed", "killed", "orphaned"}
Row == [status : PlanStatus, sha : Content]
Trace == [id : Request, status : PlanStatus \cup {"started"}]

SignedBy(p, op) == p.manifest = p.sha /\ (op = "ota" => p.bundle = BundleOf(p.sha))

(* While a deployment is planned, an artifact that has the plan's content  *)
(* has had it at every read so far, unless it went back to it.             *)
PlanOK(r) ==
  LET p == plan[r] IN
  /\ pc[r] \in {"bundle", "manifest", "preflight"} => p.sha \in Firmware
  /\ pc[r] = "preflight" => req[r].execute
  /\ r \notin reverted /\ req[r].execute /\ artifact = p.sha =>
       /\ pc[r] \in {"manifest", "preflight"} /\ req[r].op = "ota" =>
            p.bundle = BundleOf(p.sha)
       /\ pc[r] = "preflight" => p.manifest = p.sha
  /\ r \notin reverted /\ (pc[r] \in {"start", "tool"} \/ tool[r] # "none") =>
       SignedBy(p, req[r].op)

(* What the plan, the row and the answer of a request say of its tool, and *)
(* at which steps they do.                                                 *)
SaysTrue(status, outcome) ==
  IF status \in {"succeeded", "failed"} THEN outcome = status ELSE outcome = "none"

ToolOK(r) ==
  /\ pc[r] = "tool" <=> tool[r] = "running"
  /\ tool[r] # "none" => pc[r] \in {"tool", "record", "log", "ended"}
  /\ pc[r] = "record" => plan[r].status # "none" /\ SaysTrue(plan[r].status, tool[r])
  /\ rows[r] # NoRow => pc[r] \in {"log", "ended"} /\ SaysTrue(rows[r].status, tool[r])

AnswerOK(r) ==
  /\ pc[r] \in {"probe", "exchange", "finish"} => req[r].op \in Traced
  /\ pc[r] = "log" \/ answer[r] = "ok" =>
       /\ req[r].op \in Deploys => rows[r] # NoRow
       /\ tool[r] # "none" => rows[r] # NoRow
  /\ answer[r] = "ok" => pc[r] = "ended" /\ r \in audit

Sound(r) == PlanOK(r) /\ ToolOK(r) /\ AnswerOK(r)

IInv == TypeOK /\ \A r \in Request : Sound(r)

-----------------------------------------------------------------------------
(* The ring keeps its type and its length.                                 *)
LEMMA PushedFacts ==
  ASSUME ConstantsAssumption, NEW ring \in Seq(Trace), Len(ring) <= MaxTraces,
         NEW trace \in Trace
  PROVE  Pushed(ring, trace) \in Seq(Trace) /\ Len(Pushed(ring, trace)) <= MaxTraces
<1> DEFINE longer == Append(ring, trace)
<1>1. longer \in Seq(Trace) /\ Len(longer) = Len(ring) + 1
  OBVIOUS
<1>2. Len(ring) \in Nat /\ MaxTraces \in Nat
  BY ConstantsAssumption DEF ConstantsAssumption
<1>3. longer # <<>>
  BY <1>1, <1>2
<1>4. Tail(longer) \in Seq(Trace) /\ Len(Tail(longer)) = Len(longer) - 1
  BY <1>1, <1>3
<1>5. QED
  BY <1>1, <1>2, <1>4 DEF Pushed

LEMMA FinishedFacts ==
  ASSUME NEW ring \in Seq(Trace), NEW r, NEW status \in PlanStatus
  PROVE  /\ Finished(ring, r, status) \in Seq(Trace)
         /\ Len(Finished(ring, r, status)) = Len(ring)
<1>1. ASSUME NEW i \in 1 .. Len(ring)
      PROVE  [ring[i] EXCEPT !.status = status] \in Trace /\ ring[i] \in Trace
  <2>1. ring[i] \in Trace
    BY <1>1
  <2>2. QED
    BY <2>1 DEF Trace
<1>2. Finished(ring, r, status) \in [1 .. Len(ring) -> Trace]
  BY <1>1 DEF Finished
<1>3. QED
  BY <1>2

(* A request that a step does not touch stays sound.                       *)
LEMMA Frame ==
  ASSUME NEW s, Sound(s), artifact' = artifact, s \in reverted' <=> s \in reverted,
         pc'[s] = pc[s], req'[s] = req[s], plan'[s] = plan[s], rows'[s] = rows[s],
         tool'[s] = tool[s], answer'[s] = answer[s], audit \subseteq audit'
  PROVE  Sound(s)'
<1>1. PlanOK(s)'
  BY DEF Sound, PlanOK
<1>2. ToolOK(s)'
  BY DEF Sound, ToolOK
<1>3. AnswerOK(s)'
  BY DEF Sound, AnswerOK
<1>4. QED
  BY <1>1, <1>2, <1>3 DEF Sound
-----------------------------------------------------------------------------
LEMMA InitIInv == Init => IInv
<1> SUFFICES ASSUME Init PROVE IInv
  OBVIOUS
<1>1. NoFile \in Content /\ 0 \in 0 .. MaxBuilds
  BY ConstantsAssumption DEF Content, ConstantsAssumption
<1>2. NoPlan \in Plan /\ NoRow \in Row /\ "none" \in PlanStatus
  BY <1>1 DEF NoPlan, Plan, Bundle, PlanStatus, NoRow, Row
<1>3. TypeOK
  <2>1. traces \in Seq(Trace) /\ Len(traces) = 0 /\ 0 <= MaxTraces
    BY ConstantsAssumption DEF Init, ConstantsAssumption
  <2>2. QED
    BY <1>1, <1>2, <2>1, ConstantsAssumption
    DEF Init, TypeOK, Row, Trace, ConstantsAssumption
<1>4. \A r \in Request : Sound(r)
  BY DEF Init, Sound, PlanOK, ToolOK, AnswerOK
<1>5. QED
  BY <1>3, <1>4 DEF IInv

(* A step of request r that leaves the artifact alone need only keep the   *)
(* types and r itself sound.                                               *)
LEMMA StepOf ==
  ASSUME IInv, NEW r \in Request, TypeOK', Sound(r)',
         UNCHANGED artifact, audit \subseteq audit',
         \A s \in Request \ {r} :
           /\ s \in reverted' <=> s \in reverted
           /\ pc'[s] = pc[s] /\ req'[s] = req[s] /\ plan'[s] = plan[s]
           /\ rows'[s] = rows[s] /\ tool'[s] = tool[s] /\ answer'[s] = answer[s]
  PROVE  IInv'
<1>1. ASSUME NEW s \in Request \ {r} PROVE Sound(s)'
  BY Frame DEF IInv
<1>2. QED
  BY <1>1 DEF IInv

(* A request that fails keeps nothing of its plan.                         *)
LEMMA RaisedSound ==
  ASSUME ConstantsAssumption, IInv, NEW r \in Request, Raised(r),
         pc[r] \notin {"new", "ended"}, UNCHANGED <<artifact, builds, req, rows, audit>>,
         traces' \in Seq(Trace), Len(traces') <= MaxTraces, restarts' = restarts,
         \/ tool' = tool /\ pc[r] # "tool"
         \/ tool' = [tool EXCEPT ![r] = "killed"] /\ pc[r] = "tool"
  PROVE  IInv'
<1>1. /\ NoPlan \in Plan /\ NoPlan.sha = NoFile
      /\ NoPlan.manifest = NoFile /\ NoPlan.bundle = BundleOf(NoFile)
  BY ConstantsAssumption
  DEF ConstantsAssumption, NoPlan, Plan, Bundle, PlanStatus, Content, BundleOf
<1>2. TypeOK'
  BY <1>1 DEF IInv, TypeOK, Raised, Goto, Row, Trace
<1>3. /\ pc'[r] = "ended" /\ answer'[r] = "raised" /\ plan'[r] = NoPlan
      /\ tool'[r] # "running"
  BY DEF IInv, TypeOK, Raised, Goto, Sound, ToolOK
<1>4. Sound(r) /\ (rows[r] # NoRow => pc[r] = "log" /\ tool'[r] = tool[r])
  BY DEF IInv, Sound, ToolOK
<1>5. Sound(r)'
  <2>1. PlanOK(r)'
    BY <1>1, <1>3 DEF PlanOK, SignedBy
  <2>2. ToolOK(r)'
    BY <1>3, <1>4 DEF Sound, ToolOK
  <2>3. AnswerOK(r)'
    BY <1>3 DEF AnswerOK
  <2>4. QED
    BY <2>1, <2>2, <2>3 DEF Sound
<1>6. ASSUME NEW s \in Request \ {r}
      PROVE  /\ s \in reverted' <=> s \in reverted
             /\ pc'[s] = pc[s] /\ req'[s] = req[s] /\ plan'[s] = plan[s]
             /\ rows'[s] = rows[s] /\ tool'[s] = tool[s] /\ answer'[s] = answer[s]
  BY DEF IInv, TypeOK, Raised, Goto
<1>7. QED
  BY <1>2, <1>5, <1>6, StepOf

LEMMA RaisingPreserves ==
  ASSUME ConstantsAssumption, IInv, NEW r \in Request,
         \/ UnknownBoard(r) \/ ArtifactMissing(r) \/ ToolTimeout(r)
         \/ StartFails(r) \/ ExchangeFails(r) \/ Fault(r)
  PROVE  IInv'
<1>1. traces \in Seq(Trace) /\ Len(traces) <= MaxTraces
  BY DEF IInv, TypeOK, Trace
<1>2. QED
  BY <1>1, RaisedSound
  DEF UnknownBoard, ArtifactMissing, ToolTimeout, StartFails, ExchangeFails, Fault,
      file
-----------------------------------------------------------------------------
LEMMA ReceivePreserves ==
  ASSUME ConstantsAssumption, IInv, NEW r \in Request, Receive(r)
  PROVE  IInv'
<1>1. PICK q \in Asked :
        /\ req' = [req EXCEPT ![r] = q]
        /\ traces' = IF q.op \in Traced
                     THEN Pushed(traces, [id |-> r, status |-> "started"])
                     ELSE traces
        /\ Goto(r, IF q.op = "exchange" THEN "exchange"
                   ELSE IF q.op = "confirm" THEN "log" ELSE "plan")
  BY DEF Receive
<1>2. traces' \in Seq(Trace) /\ Len(traces') <= MaxTraces
  <2>1. traces \in Seq(Trace) /\ Len(traces) <= MaxTraces
    BY DEF IInv, TypeOK, Trace
  <2>2. [id |-> r, status |-> "started"] \in Trace
    BY DEF Trace
  <2>3. QED
    BY <1>1, <2>1, <2>2, PushedFacts
<1>3. TypeOK'
  BY <1>1, <1>2 DEF IInv, TypeOK, Receive, Goto, Trace, file
<1>4. /\ req'[r] = q /\ tool'[r] = tool[r] /\ rows'[r] = rows[r]
      /\ pc'[r] \in {"exchange", "log", "plan"} /\ answer'[r] = answer[r]
      /\ pc'[r] = "exchange" => q.op = "exchange"
      /\ pc'[r] = "log" => q.op = "confirm"
  BY <1>1 DEF IInv, TypeOK, Receive, Goto
<1>5. tool[r] = "none" /\ rows[r] = NoRow /\ answer[r] # "ok"
  BY DEF Receive, IInv, Sound, ToolOK, AnswerOK
<1>6. Sound(r)'
  BY <1>4, <1>5 DEF Sound, PlanOK, ToolOK, AnswerOK, Traced, Deploys
<1>7. QED
  BY <1>1, <1>3, <1>6, StepOf DEF IInv, TypeOK, Receive, Goto, file

LEMMA ReadFacts ==
  ASSUME IInv, artifact # NoFile
  PROVE  artifact \in Content /\ artifact \in Firmware /\ BundleOf(artifact) \in Bundle
  BY DEF IInv, TypeOK, Content, BundleOf, Bundle

LEMMA PlanPreserves ==
  ASSUME ConstantsAssumption, IInv, NEW r \in Request, PlanFlash(r) \/ PlanOta(r)
  PROVE  IInv'
<1>1. PICK found \in BOOLEAN :
        plan' = [plan EXCEPT ![r].available = found, ![r].sha = artifact]
  BY DEF PlanFlash, PlanOta
<1>2. /\ pc[r] = "plan" /\ artifact # NoFile
      /\ pc' = [pc EXCEPT ![r] = IF req[r].op \in Ota THEN "bundle" ELSE "manifest"]
      /\ UNCHANGED <<artifact, builds, reverted, req, rows, audit, traces, restarts, tool, answer>>
  BY DEF PlanFlash, PlanOta, Goto, file
<1>3. plan[r] \in Plan /\ plan'[r] = [plan[r] EXCEPT !.available = found, !.sha = artifact]
  BY <1>1 DEF IInv, TypeOK
<1>4. plan'[r] \in Plan /\ plan'[r].sha = artifact
  BY <1>2, <1>3, ReadFacts DEF Plan
<1>5. TypeOK'
  BY <1>1, <1>2, <1>3, <1>4 DEF IInv, TypeOK
<1>6. pc'[r] = IF req[r].op \in Ota THEN "bundle" ELSE "manifest"
  BY <1>2 DEF IInv, TypeOK
<1>7. tool[r] = "none" /\ rows[r] = NoRow /\ answer[r] # "ok"
  BY <1>2 DEF IInv, Sound, ToolOK, AnswerOK
<1>8. Sound(r)'
  <2>1. PlanOK(r)'
    BY <1>2, <1>4, <1>6, <1>7, ReadFacts DEF PlanOK, Ota
  <2>2. QED
    BY <1>2, <1>6, <1>7, <2>1 DEF Sound, ToolOK, AnswerOK
<1>9. QED
  BY <1>1, <1>2, <1>5, <1>8, StepOf DEF IInv, TypeOK

LEMMA SignBundlePreserves ==
  ASSUME ConstantsAssumption, IInv, NEW r \in Request, SignBundle(r)
  PROVE  IInv'
<1>1. /\ pc[r] = "bundle" /\ artifact # NoFile /\ pc' = [pc EXCEPT ![r] = "manifest"]
      /\ plan' = [plan EXCEPT ![r].bundle = BundleOf(artifact)]
      /\ UNCHANGED <<artifact, builds, reverted, req, rows, audit, traces, restarts, tool, answer>>
  BY DEF SignBundle, Goto, file
<1>2. plan[r] \in Plan /\ plan'[r] = [plan[r] EXCEPT !.bundle = BundleOf(artifact)]
  BY <1>1 DEF IInv, TypeOK
<1>3. /\ plan'[r] \in Plan /\ plan'[r].sha = plan[r].sha
      /\ plan'[r].bundle = BundleOf(artifact)
  BY <1>1, <1>2, ReadFacts DEF Plan
<1>4. TypeOK'
  BY <1>1, <1>2, <1>3 DEF IInv, TypeOK
<1>5. /\ tool[r] = "none" /\ rows[r] = NoRow /\ answer[r] # "ok"
      /\ plan[r].sha \in Firmware /\ pc'[r] = "manifest"
  BY <1>1 DEF IInv, TypeOK, Sound, PlanOK, ToolOK, AnswerOK
<1>6. Sound(r)'
  <2>1. PlanOK(r)'
    BY <1>1, <1>3, <1>5 DEF PlanOK
  <2>2. QED
    BY <1>1, <1>5, <2>1 DEF Sound, ToolOK, AnswerOK
<1>7. QED
  BY <1>1, <1>4, <1>6, StepOf DEF IInv, TypeOK

LEMMA SignManifestPreserves ==
  ASSUME ConstantsAssumption, IInv, NEW r \in Request, SignManifest(r)
  PROVE  IInv'
<1>1. /\ pc[r] = "manifest" /\ artifact # NoFile
      /\ plan' = [plan EXCEPT ![r].manifest = artifact, ![r].status = "planned"]
      /\ pc' = [pc EXCEPT ![r] = IF req[r].op \in Validates THEN "probe"
                               ELSE IF req[r].execute THEN "preflight" ELSE "record"]
      /\ UNCHANGED <<artifact, builds, reverted, req, rows, audit, traces, restarts, tool, answer>>
  BY DEF SignManifest, Goto, file
<1>2. /\ plan[r] \in Plan
      /\ plan'[r] = [plan[r] EXCEPT !.manifest = artifact, !.status = "planned"]
  BY <1>1 DEF IInv, TypeOK
<1>3. /\ plan'[r] \in Plan /\ plan'[r].sha = plan[r].sha /\ plan'[r].status = "planned"
      /\ plan'[r].bundle = plan[r].bundle /\ plan'[r].manifest = artifact
  <2>1. "planned" \in PlanStatus
    BY DEF PlanStatus
  <2>2. artifact \in Content
    BY <1>1, ReadFacts
  <2>3. DEFINE p == plan[r]
               half == [p EXCEPT !.manifest = artifact]
  <2>4. /\ half \in Plan /\ half.sha = p.sha
        /\ half.bundle = p.bundle /\ half.manifest = artifact
    BY <1>2, <2>2 DEF Plan
  <2>5. plan'[r] = [half EXCEPT !.status = "planned"]
    BY <1>2
  <2>6. QED
    BY <2>1, <2>4, <2>5 DEF Plan
<1>4. TypeOK'
  BY <1>1, <1>2, <1>3 DEF IInv, TypeOK
<1>5. /\ tool[r] = "none" /\ rows[r] = NoRow /\ answer[r] # "ok"
      /\ plan[r].sha \in Firmware
      /\ r \notin reverted /\ req[r].execute /\ artifact = plan[r].sha
           => (req[r].op = "ota" => plan[r].bundle = BundleOf(plan[r].sha))
  BY <1>1 DEF IInv, Sound, PlanOK, ToolOK, AnswerOK
<1>6. pc'[r] = IF req[r].op \in Validates THEN "probe"
               ELSE IF req[r].execute THEN "preflight" ELSE "record"
  BY <1>1 DEF IInv, TypeOK
<1>7. Sound(r)'
  <2>1. PlanOK(r)'
    BY <1>1, <1>3, <1>5, <1>6 DEF PlanOK
  <2>2. ToolOK(r)' /\ AnswerOK(r)'
    BY <1>1, <1>3, <1>5, <1>6 DEF ToolOK, AnswerOK, SaysTrue, Traced
  <2>3. QED
    BY <2>1, <2>2 DEF Sound
<1>8. QED
  BY <1>1, <1>4, <1>7, StepOf DEF IInv, TypeOK
-----------------------------------------------------------------------------
(* A step of request r that changes the status of its plan, if anything of *)
(* it, and neither the row, the artifact nor the answer.                   *)
LEMMA StatusStep ==
  ASSUME ConstantsAssumption, IInv, NEW r \in Request,
         NEW step \in {"start", "tool", "record", "finish"}, Goto(r, step),
         NEW status \in PlanStatus,
         plan' = plan \/ plan' = [plan EXCEPT ![r].status = status],
         NEW outcome \in Outcomes, tool' = [tool EXCEPT ![r] = outcome],
         UNCHANGED <<artifact, builds, reverted, req, rows, audit, traces, restarts, answer>>,
         pc[r] \notin {"new", "log", "ended"},
         outcome = "running" <=> step = "tool",
         outcome # "none" => step \in {"tool", "record"},
         step = "finish" => req[r].op \in Traced,
         step = "record" => plan'[r].status # "none" /\ SaysTrue(plan'[r].status, outcome),
         r \notin reverted /\ (step \in {"start", "tool"} \/ outcome # "none") =>
           SignedBy(plan[r], req[r].op)
  PROVE  IInv'
<1>1. /\ pc' = [pc EXCEPT ![r] = step] /\ pc'[r] = step /\ tool'[r] = outcome
      /\ plan[r] \in Plan
  BY DEF IInv, TypeOK, Goto
<1>2. plan'[r] = plan[r] \/ plan'[r] = [plan[r] EXCEPT !.status = status]
  BY <1>1 DEF IInv, TypeOK
<1>3. /\ plan'[r] \in Plan /\ plan'[r].sha = plan[r].sha
      /\ plan'[r].manifest = plan[r].manifest /\ plan'[r].bundle = plan[r].bundle
  BY <1>1, <1>2 DEF Plan
<1>4. plan' \in [Request -> Plan]
  BY <1>3 DEF IInv, TypeOK
<1>5. TypeOK'
  BY <1>1, <1>4 DEF IInv, TypeOK, Outcomes
<1>6. rows[r] = NoRow /\ answer[r] # "ok"
  BY DEF IInv, Sound, ToolOK, AnswerOK
<1>7. PlanOK(r)'
  BY <1>1, <1>3 DEF PlanOK, SignedBy
<1>8. ToolOK(r)' /\ AnswerOK(r)'
  BY <1>1, <1>6 DEF ToolOK, AnswerOK
<1>9. Sound(r)'
  BY <1>7, <1>8 DEF Sound
<1>10. ASSUME NEW s \in Request \ {r}
       PROVE  /\ s \in reverted' <=> s \in reverted
              /\ pc'[s] = pc[s] /\ req'[s] = req[s] /\ plan'[s] = plan[s]
              /\ rows'[s] = rows[s] /\ tool'[s] = tool[s] /\ answer'[s] = answer[s]
  BY <1>1 DEF IInv, TypeOK
<1>11. QED
  BY <1>5, <1>9, <1>10, StepOf

(* Whoever passes the check finds the artifact as it was when it was       *)
(* hashed for the plan; unless it went back to that content, what was      *)
(* signed in between has it, too.                                          *)
LEMMA PreflightPreserves ==
  ASSUME ConstantsAssumption, IInv, NEW r \in Request, Preflight(r)
  PROVE  IInv'
<1>1. /\ pc[r] = "preflight"
      /\ UNCHANGED <<artifact, builds, reverted, req, rows, audit, traces, restarts, tool, answer>>
  BY DEF Preflight, file
<1>2. tool[r] = "none" /\ PlanOK(r) /\ plan[r] \in Plan
  BY <1>1 DEF IInv, TypeOK, Sound, ToolOK
<1>3. tool' = [tool EXCEPT ![r] = "none"] /\ "none" \in Outcomes
  BY <1>1, <1>2 DEF IInv, TypeOK, Outcomes
<1>4. {"none", "blocked", "failed_preflight"} \subseteq PlanStatus
  BY DEF PlanStatus
<1>5. ASSUME NEW status \in {"blocked", "failed_preflight"},
             plan' = [plan EXCEPT ![r].status = status], Goto(r, "record")
      PROVE  IInv'
  <2>1. plan'[r].status = status
    BY <1>2, <1>5 DEF IInv, TypeOK, Plan
  <2>2. SaysTrue(plan'[r].status, "none") /\ plan'[r].status # "none"
    BY <2>1 DEF SaysTrue
  <2>3. status \in PlanStatus
    BY <1>4
  <2>4. pc[r] \notin {"new", "log", "ended"}
    BY <1>1
  <2>5. UNCHANGED <<artifact, builds, reverted, req, rows, audit, traces, restarts, answer>>
    BY <1>1
  <2>6. plan' = [plan EXCEPT ![r].status = status] /\ Goto(r, "record")
    BY <1>5
  <2>7. QED
    BY <1>3, <2>2, <2>3, <2>4, <2>5, <2>6, StatusStep
<1>6. CASE /\ plan[r].available /\ artifact = plan[r].sha
           /\ req[r].op = "ota" => BundleVerified(plan[r].bundle)
           /\ Goto(r, "start") /\ UNCHANGED plan
  <2>1. r \notin reverted => SignedBy(plan[r], req[r].op)
    BY <1>1, <1>2, <1>6 DEF PlanOK, SignedBy
  <2>2. QED
    BY <1>1, <1>3, <1>4, <1>6, <2>1, StatusStep
<1>7. QED
  BY <1>5, <1>6 DEF Preflight

LEMMA StartToolPreserves ==
  ASSUME ConstantsAssumption, IInv, NEW r \in Request, StartTool(r)
  PROVE  IInv'
<1>1. "running" \in Outcomes /\ "none" \in PlanStatus
  BY DEF Outcomes, PlanStatus
<1>2. r \notin reverted => SignedBy(plan[r], req[r].op)
  BY DEF StartTool, IInv, Sound, PlanOK
<1>3. QED
  BY <1>1, <1>2, StatusStep DEF StartTool, file

LEMMA EndToolPreserves ==
  ASSUME ConstantsAssumption, IInv, NEW r \in Request, EndTool(r)
  PROVE  IInv'
<1>1. PICK outcome \in {"succeeded", "failed"} :
        /\ tool' = [tool EXCEPT ![r] = outcome]
        /\ plan' = [plan EXCEPT ![r].status = outcome]
  BY DEF EndTool
<1>2. outcome \in Outcomes /\ outcome \in PlanStatus
  BY DEF Outcomes, PlanStatus
<1>3. plan'[r].status = outcome
  <2>1. plan[r] \in Plan /\ plan'[r] = [plan[r] EXCEPT !.status = outcome]
    BY <1>1 DEF IInv, TypeOK
  <2>2. QED
    BY <2>1 DEF Plan
<1>4. r \notin reverted => SignedBy(plan[r], req[r].op)
  BY DEF EndTool, IInv, Sound, PlanOK
<1>5. SaysTrue(outcome, outcome)
  BY DEF SaysTrue
<1>6. QED
  BY <1>1, <1>2, <1>3, <1>4, <1>5, StatusStep DEF EndTool, file

LEMMA ProbePreserves ==
  ASSUME ConstantsAssumption, IInv, NEW r \in Request, Probe(r) \/ Exchange(r)
  PROVE  IInv'
<1>1. PICK status \in {"ready", "blocked", "completed"} :
        plan' = [plan EXCEPT ![r].status = status]
  BY DEF Probe, Exchange
<1>2. status \in PlanStatus /\ "none" \in Outcomes
  BY DEF PlanStatus, Outcomes
<1>3. /\ pc[r] \in {"probe", "exchange"} /\ Goto(r, "finish")
      /\ UNCHANGED <<artifact, builds, reverted, req, rows, audit, traces, restarts, tool, answer>>
  BY DEF Probe, Exchange, file
<1>4. tool[r] = "none" /\ req[r].op \in Traced
  BY <1>3 DEF IInv, Sound, ToolOK, AnswerOK
<1>5. tool' = [tool EXCEPT ![r] = "none"]
  BY <1>3, <1>4 DEF IInv, TypeOK
<1>6. QED
  BY <1>1, <1>2, <1>3, <1>4, <1>5, StatusStep

LEMMA FinishTracePreserves ==
  ASSUME ConstantsAssumption, IInv, NEW r \in Request, FinishTrace(r)
  PROVE  IInv'
<1>1. /\ pc[r] = "finish" /\ pc' = [pc EXCEPT ![r] = "log"]
      /\ traces' = Finished(traces, r, plan[r].status)
      /\ UNCHANGED <<artifact, builds, reverted, req, plan, rows, audit, restarts, tool, answer>>
  BY DEF FinishTrace, Goto, file
<1>2. traces' \in Seq(Trace) /\ Len(traces') <= MaxTraces
  <2>1. traces \in Seq(Trace) /\ Len(traces) <= MaxTraces
    BY DEF IInv, TypeOK, Trace
  <2>2. plan[r] \in Plan
    BY DEF IInv, TypeOK
  <2>3. plan[r].status \in PlanStatus
    BY <2>2 DEF Plan
  <2>4. QED
    BY <1>1, <2>1, <2>3, FinishedFacts
<1>3. TypeOK'
  BY <1>1, <1>2 DEF IInv, TypeOK, Trace
<1>4. /\ tool[r] = "none" /\ rows[r] = NoRow /\ answer[r] # "ok"
      /\ req[r].op \notin Deploys /\ pc'[r] = "log"
  BY <1>1 DEF IInv, TypeOK, Sound, ToolOK, AnswerOK, Traced, Validates, Deploys
<1>5. Sound(r)'
  BY <1>1, <1>4 DEF Sound, PlanOK, ToolOK, AnswerOK
<1>6. QED
  BY <1>1, <1>3, <1>5, StepOf DEF IInv, TypeOK

LEMMA RecordPreserves ==
  ASSUME ConstantsAssumption, IInv, NEW r \in Request, Record(r)
  PROVE  IInv'
<1>1. /\ pc[r] = "record" /\ pc' = [pc EXCEPT ![r] = "log"]
      /\ rows' = [rows EXCEPT ![r] = RowOf(plan[r])]
      /\ UNCHANGED <<artifact, builds, reverted, req, plan, audit, traces, restarts, tool, answer>>
  BY DEF Record, Goto, file
<1>2. plan[r] \in Plan
  BY DEF IInv, TypeOK
<1>3. RowOf(plan[r]) \in Row /\ RowOf(plan[r]).status = plan[r].status
  BY <1>2 DEF RowOf, Row, Plan
<1>4. TypeOK'
  BY <1>1, <1>3 DEF IInv, TypeOK, Row
<1>5. /\ pc'[r] = "log" /\ rows'[r] = RowOf(plan[r]) /\ answer[r] # "ok"
      /\ tool[r] # "running"
      /\ r \notin reverted /\ tool[r] # "none" => SignedBy(plan[r], req[r].op)
      /\ plan[r].status # "none" /\ SaysTrue(plan[r].status, tool[r])
  BY <1>1 DEF IInv, TypeOK, Sound, PlanOK, ToolOK, AnswerOK
<1>6. rows'[r] # NoRow
  BY <1>3, <1>5 DEF NoRow
<1>7. Sound(r)'
  BY <1>1, <1>3, <1>5, <1>6 DEF Sound, PlanOK, ToolOK, AnswerOK
<1>8. QED
  BY <1>1, <1>4, <1>7, StepOf DEF IInv, TypeOK

LEMMA LogPreserves ==
  ASSUME ConstantsAssumption, IInv, NEW r \in Request, Log(r)
  PROVE  IInv'
<1>1. /\ pc[r] = "log" /\ pc' = [pc EXCEPT ![r] = "ended"]
      /\ answer' = [answer EXCEPT ![r] = "ok"] /\ audit' = audit \cup {r}
      /\ UNCHANGED <<artifact, builds, reverted, req, plan, rows, traces, restarts, tool>>
  BY DEF Log, Answered, Goto, file
<1>2. TypeOK'
  BY <1>1 DEF IInv, TypeOK
<1>3. pc'[r] = "ended" /\ Sound(r)
  BY <1>1 DEF IInv, TypeOK
<1>4. Sound(r)'
  BY <1>1, <1>3 DEF Sound, PlanOK, ToolOK, AnswerOK
<1>5. QED
  BY <1>1, <1>2, <1>4, StepOf DEF IInv, TypeOK

-----------------------------------------------------------------------------
(* The steps that are no request's own.                                    *)
LEMMA RestartPreserves ==
  ASSUME ConstantsAssumption, IInv, Restart
  PROVE  IInv'
<1> DEFINE open == {r \in Request : pc[r] \notin {"new", "ended"}}
<1>1. /\ traces' = <<>> /\ restarts' = restarts + 1 /\ restarts < MaxRestarts
      /\ pc' = [r \in Request |-> IF r \in open THEN "ended" ELSE pc[r]]
      /\ answer' = [r \in Request |-> IF r \in open THEN "lost" ELSE answer[r]]
      /\ plan' = [r \in Request |-> IF r \in open THEN NoPlan ELSE plan[r]]
      /\ tool' = [r \in Request |->
                    IF tool[r] = "running" THEN "orphaned" ELSE tool[r]]
      /\ reverted' = reverted \ open
      /\ UNCHANGED <<artifact, builds, req, rows, audit>>
  BY DEF Restart, file
<1>2. /\ NoPlan \in Plan /\ NoPlan.sha = NoFile
      /\ NoPlan.manifest = NoFile /\ NoPlan.bundle = BundleOf(NoFile)
  BY ConstantsAssumption
  DEF ConstantsAssumption, NoPlan, Plan, Bundle, PlanStatus, Content, BundleOf
<1>3. traces' \in Seq(Trace) /\ Len(traces') <= MaxTraces
  BY <1>1, ConstantsAssumption DEF ConstantsAssumption
<1>4. TypeOK'
  <2>1. restarts' \in 0 .. MaxRestarts
    BY <1>1, ConstantsAssumption DEF IInv, TypeOK, ConstantsAssumption
  <2>2. plan' \in [Request -> Plan]
    BY <1>1, <1>2 DEF IInv, TypeOK
  <2>3. QED
    BY <1>1, <1>3, <2>1, <2>2 DEF IInv, TypeOK, Trace
<1>5. ASSUME NEW r \in Request PROVE Sound(r)'
  <2>1. /\ pc'[r] = IF r \in open THEN "ended" ELSE pc[r]
        /\ answer'[r] = IF r \in open THEN "lost" ELSE answer[r]
        /\ plan'[r] = IF r \in open THEN NoPlan ELSE plan[r]
        /\ tool'[r] = IF tool[r] = "running" THEN "orphaned" ELSE tool[r]
        /\ rows'[r] = rows[r] /\ req'[r] = req[r] /\ audit' = audit
        /\ r \notin open => (r \in reverted' <=> r \in reverted)
    BY <1>1
  <2>2. Sound(r)
    BY DEF IInv
  <2>3. PlanOK(r)'
    BY <1>2, <2>1, <2>2 DEF Sound, PlanOK, ToolOK, SignedBy
  <2>4. ToolOK(r)' /\ AnswerOK(r)'
    BY <2>1, <2>2 DEF Sound, ToolOK, AnswerOK
  <2>5. QED
    BY <2>3, <2>4 DEF Sound
<1>6. QED
  BY <1>4, <1>5 DEF IInv

(* A build changes the artifact to what it was not; whoever's plan has     *)
(* that content is now one of those to whose content it went back.         *)
LEMMA BuildPreserves ==
  ASSUME ConstantsAssumption, IInv, Build \/ Delete
  PROVE  IInv'
<1> DEFINE open == {r \in Request : /\ req[r].execute
                                    /\ pc[r] \in {"bundle", "manifest", "preflight"}
                                    /\ plan[r].sha = artifact'}
<1>1. /\ builds' \in {builds, builds + 1} /\ builds' \in 0 .. MaxBuilds
      /\ artifact' \in Firmware \cup {NoFile}
      /\ artifact' # NoFile => reverted' = reverted \cup open
      /\ artifact' = NoFile => reverted' = reverted
      /\ UNCHANGED <<pc, req, plan, rows, audit, traces, restarts, tool, answer>>
  BY ConstantsAssumption DEF Build, Delete, IInv, TypeOK, ConstantsAssumption
<1>2. TypeOK'
  <2>1. reverted' \subseteq Request
    BY <1>1 DEF IInv, TypeOK
  <2>2. QED
    BY <1>1, <2>1 DEF IInv, TypeOK, Content
<1>3. ASSUME NEW s \in Request PROVE Sound(s)'
  <2>1. Sound(s) /\ reverted \subseteq reverted'
    BY <1>1 DEF IInv
  <2>2. PlanOK(s)'
    <3>1. CASE artifact' = plan[s].sha /\ req[s].execute
               /\ pc[s] \in {"bundle", "manifest", "preflight"}
      <4>1. artifact' # NoFile
        BY <2>1, <3>1, ConstantsAssumption DEF Sound, PlanOK, ConstantsAssumption
      <4>2. s \in reverted'
        BY <1>1, <3>1, <4>1
      <4>3. QED
        BY <1>1, <2>1, <4>2 DEF Sound, PlanOK
    <3>2. CASE ~ (artifact' = plan[s].sha /\ req[s].execute
                  /\ pc[s] \in {"bundle", "manifest", "preflight"})
      BY <1>1, <2>1, <3>2 DEF Sound, PlanOK
    <3>3. QED
      BY <3>1, <3>2
  <2>3. ToolOK(s)' /\ AnswerOK(s)'
    BY <1>1, <2>1 DEF Sound, ToolOK, AnswerOK
  <2>4. QED
    BY <2>2, <2>3 DEF Sound
<1>4. QED
  BY <1>2, <1>3 DEF IInv

LEMMA NextIInv == IInv /\ [Next]_vars => IInv'
<1> SUFFICES ASSUME IInv, [Next]_vars PROVE IInv'
  OBVIOUS
<1> USE ConstantsAssumption
<1>1. CASE UNCHANGED vars
  BY <1>1 DEF vars, IInv, TypeOK, Sound, PlanOK, ToolOK, AnswerOK
<1>2. ASSUME NEW r \in Request, Receive(r) PROVE IInv'
  BY <1>2, ReceivePreserves
<1>3. ASSUME NEW r \in Request,
             UnknownBoard(r) \/ ArtifactMissing(r) \/ ToolTimeout(r)
               \/ StartFails(r) \/ ExchangeFails(r) \/ Fault(r)
      PROVE  IInv'
  BY <1>3, RaisingPreserves
<1>4. ASSUME NEW r \in Request, PlanFlash(r) \/ PlanOta(r) PROVE IInv'
  BY <1>4, PlanPreserves
<1>5. ASSUME NEW r \in Request, SignBundle(r) PROVE IInv'
  BY <1>5, SignBundlePreserves
<1>6. ASSUME NEW r \in Request, SignManifest(r) PROVE IInv'
  BY <1>6, SignManifestPreserves
<1>7. ASSUME NEW r \in Request, Preflight(r) PROVE IInv'
  BY <1>7, PreflightPreserves
<1>8. ASSUME NEW r \in Request, StartTool(r) PROVE IInv'
  BY <1>8, StartToolPreserves
<1>9. ASSUME NEW r \in Request, EndTool(r) PROVE IInv'
  BY <1>9, EndToolPreserves
<1>10. ASSUME NEW r \in Request, Probe(r) \/ Exchange(r) PROVE IInv'
  BY <1>10, ProbePreserves
<1>11. ASSUME NEW r \in Request, FinishTrace(r) PROVE IInv'
  BY <1>11, FinishTracePreserves
<1>12. ASSUME NEW r \in Request, Record(r) PROVE IInv'
  BY <1>12, RecordPreserves
<1>13. ASSUME NEW r \in Request, Log(r) PROVE IInv'
  BY <1>13, LogPreserves
<1>14. CASE Restart
  BY <1>14, RestartPreserves
<1>15. CASE Build \/ Delete
  BY <1>15, BuildPreserves
<1>16. QED
  BY <1>1, <1>2, <1>3, <1>4, <1>5, <1>6, <1>7, <1>8, <1>9, <1>10, <1>11, <1>12,
     <1>13, <1>14, <1>15 DEF Next, Handle

LEMMA AlwaysIInv == Spec => []IInv
<1>1. QED
  BY InitIInv, NextIInv, PTL DEF Spec

-----------------------------------------------------------------------------
(* The traces.  A request that arrives is in no trace yet, so no trace has *)
(* two owners; from then on each of its steps that changes its plan or     *)
(* ends it finds its trace at the status that the step may leave.          *)
Follows(r, status) ==
  /\ req[r].op \in Traced
  /\ \/ answer[r] = "raised" /\ pc[r] = "ended"
     \/ status = "started" /\ pc[r] \in {"plan", "bundle", "manifest",
                                       "probe", "exchange", "finish"}
     \/ status = plan[r].status /\ pc[r] \in {"log", "ended"}

RequestOK(r) ==
  /\ pc[r] \in {"plan", "bundle", "manifest"} => req[r].op # "exchange"
  /\ answer[r] = "raised" => pc[r] = "ended"

TraceInv ==
  /\ \A i \in DOMAIN traces : Follows(traces[i].id, traces[i].status)
  /\ \A r \in Request : RequestOK(r)

LEMMA PushedElements ==
  ASSUME ConstantsAssumption, NEW ring \in Seq(Trace), NEW trace \in Trace,
         NEW i \in DOMAIN Pushed(ring, trace)
  PROVE  \/ Pushed(ring, trace)[i] = trace
         \/ \E j \in DOMAIN ring : Pushed(ring, trace)[i] = ring[j]
<1> DEFINE longer == Append(ring, trace)
<1>1. /\ longer \in Seq(Trace) /\ Len(longer) = Len(ring) + 1 /\ Len(ring) \in Nat
      /\ \A k \in 1 .. Len(ring) : longer[k] = ring[k]
      /\ longer[Len(ring) + 1] = trace
  OBVIOUS
<1>2. \A k \in DOMAIN longer : longer[k] = trace \/ \E j \in DOMAIN ring : longer[k] = ring[j]
  BY <1>1
<1>3. CASE Pushed(ring, trace) = longer
  BY <1>2, <1>3
<1>4. CASE Pushed(ring, trace) = Tail(longer)
  <2>1. /\ longer # <<>> /\ i \in 1 .. Len(longer) - 1
        /\ Tail(longer)[i] = longer[i + 1]
    BY <1>1, <1>4
  <2>2. i + 1 \in DOMAIN longer
    BY <1>1, <2>1
  <2>3. QED
    BY <1>2, <1>4, <2>1, <2>2
<1>5. QED
  BY <1>3, <1>4 DEF Pushed

(* A step of request r keeps all traces followed if every trace after it   *)
(* is followed by r or was there before and is another's.                  *)
LEMMA TracesStep ==
  ASSUME TraceInv, NEW r \in Request, RequestOK(r)',
         \A s \in Request \ {r} :
           /\ pc'[s] = pc[s] /\ req'[s] = req[s] /\ plan'[s] = plan[s]
           /\ answer'[s] = answer[s],
         \A i \in DOMAIN traces' : \/ /\ traces'[i].id = r
                                     /\ Follows(r, traces[i].status)'
                                  \/ /\ traces'[i].id \in Request \ {r}
                                     /\ \E j \in DOMAIN traces : traces'[i] = traces[j]
  PROVE  TraceInv'
<1>1. ASSUME NEW i \in DOMAIN traces' PROVE Follows(traces[i].id, traces[i].status)'
  <2>1. CASE traces'[i].id = r /\ Follows(r, traces[i].status)'
    BY <2>1 DEF Follows
  <2>2. CASE /\ traces'[i].id \in Request \ {r}
             /\ \E j \in DOMAIN traces : traces'[i] = traces[j]
    <3>1. Follows(traces'[i].id, traces'[i].status)
      BY <2>2 DEF TraceInv
    <3>2. QED
      BY <2>2, <3>1 DEF Follows
  <2>3. QED
    BY <2>1, <2>2
<1>2. ASSUME NEW s \in Request PROVE RequestOK(s)'
  BY DEF TraceInv, RequestOK
<1>3. QED
  BY <1>1, <1>2 DEF TraceInv

(* A step of r that leaves the ring alone: it only has to be followed by   *)
(* the traces that followed r before.                                      *)
LEMMA RingUnchanged ==
  ASSUME IInv, TraceInv, NEW r \in Request, UNCHANGED traces, RequestOK(r)',
         \A s \in Request \ {r} :
           /\ pc'[s] = pc[s] /\ req'[s] = req[s] /\ plan'[s] = plan[s]
           /\ answer'[s] = answer[s],
         \A status \in PlanStatus \cup {"started"} :
           Follows(r, status) => Follows(r, status)'
  PROVE  TraceInv'
<1>1. traces \in Seq(Trace)
  BY DEF IInv, TypeOK, Trace
<1>2. ASSUME NEW i \in DOMAIN traces
      PROVE  /\ traces[i].id \in Request /\ traces[i].status \in PlanStatus \cup {"started"}
             /\ Follows(traces[i].id, traces[i].status)
  <2>1. traces[i] \in Trace
    BY <1>1
  <2>2. QED
    BY <2>1 DEF Trace, TraceInv
<1>3. ASSUME NEW i \in DOMAIN traces, traces[i].id = r
      PROVE  Follows(r, traces[i].status)'
  <2> DEFINE status == traces[i].status
  <2>1. Follows(r, status)
    BY <1>2, <1>3
  <2>2. /\ req'[r].op \in Traced
        /\ \/ answer'[r] = "raised" /\ pc'[r] = "ended"
           \/ status = "started" /\ pc'[r] \in {"plan", "bundle", "manifest",
                                             "probe", "exchange", "finish"}
           \/ status = plan'[r].status /\ pc'[r] \in {"log", "ended"}
    BY <1>2, <2>1 DEF Follows
  <2>3. QED
    BY <2>2 DEF Follows
<1>4. QED
  BY <1>2, <1>3, TracesStep

LEMMA RaisingFollows ==
  ASSUME IInv, TraceInv, NEW r \in Request,
         \/ UnknownBoard(r) \/ ArtifactMissing(r) \/ ToolTimeout(r)
         \/ StartFails(r) \/ ExchangeFails(r) \/ Fault(r)
  PROVE  TraceInv'
<1>1. Raised(r) /\ UNCHANGED <<req, traces>>
  BY DEF UnknownBoard, ArtifactMissing, ToolTimeout, StartFails, ExchangeFails, Fault
<1>2. /\ pc'[r] = "ended" /\ answer'[r] = "raised"
      /\ \A s \in Request \ {r} : /\ pc'[s] = pc[s] /\ plan'[s] = plan[s]
                                 /\ answer'[s] = answer[s]
  BY <1>1 DEF IInv, TypeOK, Raised, Goto
<1>3. RequestOK(r)'
  BY <1>2 DEF RequestOK
<1>4. QED
  BY <1>1, <1>2, <1>3, RingUnchanged DEF Follows

LEMMA ReceiveFollows ==
  ASSUME ConstantsAssumption, IInv, TraceInv, NEW r \in Request, Receive(r)
  PROVE  TraceInv'
<1>1. PICK q \in Asked :
        /\ req' = [req EXCEPT ![r] = q]
        /\ traces' = IF q.op \in Traced
                     THEN Pushed(traces, [id |-> r, status |-> "started"])
                     ELSE traces
        /\ Goto(r, IF q.op = "exchange" THEN "exchange"
                   ELSE IF q.op = "confirm" THEN "log" ELSE "plan")
  BY DEF Receive
<1>2. pc[r] = "new" /\ UNCHANGED <<plan, answer>>
  BY DEF Receive
<1>3. /\ req'[r] = q
      /\ pc'[r] = IF q.op = "exchange" THEN "exchange"
                  ELSE IF q.op = "confirm" THEN "log" ELSE "plan"
      /\ \A s \in Request \ {r} : pc'[s] = pc[s] /\ req'[s] = req[s]
  BY <1>1 DEF IInv, TypeOK, Goto
<1>4. traces \in Seq(Trace) /\ [id |-> r, status |-> "started"] \in Trace
  BY DEF IInv, TypeOK, Trace
<1>5. \A j \in DOMAIN traces : traces[j].id \in Request \ {r}
  <2>1. ASSUME NEW j \in DOMAIN traces PROVE traces[j].id \in Request \ {r}
    <3>1. traces[j] \in Trace /\ Follows(traces[j].id, traces[j].status)
      BY <1>4 DEF TraceInv
    <3>2. traces[j].id # r
      BY <1>2, <3>1 DEF Follows
    <3>3. QED
      BY <3>1, <3>2 DEF Trace
  <2>2. QED
    BY <2>1
<1>6. RequestOK(r)'
  BY <1>2, <1>3 DEF TraceInv, RequestOK
<1>7. CASE q.op \in Traced
  <2>1. Follows(r, "started")'
    BY <1>3, <1>7 DEF Follows, Traced, Validates
  <2>2. ASSUME NEW i \in DOMAIN traces'
        PROVE  \/ traces'[i] = [id |-> r, status |-> "started"]
               \/ \E j \in DOMAIN traces : traces'[i] = traces[j]
    BY <1>1, <1>4, <1>7, <2>2, PushedElements
  <2>3. ASSUME NEW i \in DOMAIN traces'
        PROVE  \/ traces'[i].id = r /\ Follows(r, traces[i].status)'
               \/ /\ traces'[i].id \in Request \ {r}
                  /\ \E j \in DOMAIN traces : traces'[i] = traces[j]
    <3>1. CASE traces'[i] = [id |-> r, status |-> "started"]
      BY <2>1, <3>1 DEF Follows
    <3>2. CASE \E j \in DOMAIN traces : traces'[i] = traces[j]
      BY <1>5, <3>2
    <3>3. QED
      BY <2>2, <3>1, <3>2
  <2>4. QED
    BY <1>2, <1>3, <1>6, <2>3, TracesStep
<1>8. CASE q.op \notin Traced
  BY <1>1, <1>2, <1>3, <1>5, <1>6, <1>8, TracesStep
<1>9. QED
  BY <1>7, <1>8

(* The steps that plan, sign, check, start and probe leave a trace that is *)
(* marked as started; a validation goes from the manifest to the probe.    *)
LEMMA PlanningFollows ==
  ASSUME IInv, TraceInv, NEW r \in Request,
         \/ PlanFlash(r) \/ PlanOta(r) \/ SignBundle(r) \/ SignManifest(r)
         \/ Probe(r) \/ Exchange(r)
  PROVE  TraceInv'
<1>1. /\ pc[r] \in {"plan", "bundle", "manifest", "probe", "exchange"}
      /\ UNCHANGED <<req, traces, answer>>
  BY DEF PlanFlash, PlanOta, SignBundle, SignManifest, Probe, Exchange
<1>2. /\ pc'[r] \in {"bundle", "manifest", "probe", "preflight", "record", "finish"}
      /\ pc'[r] \in {"preflight", "record"} => req[r].op \notin Validates /\ pc[r] = "manifest"
      /\ pc'[r] \in {"bundle", "manifest"} => pc[r] \in {"plan", "bundle"}
      /\ \A s \in Request \ {r} : pc'[s] = pc[s] /\ plan'[s] = plan[s]
  BY DEF IInv, TypeOK, Goto, PlanFlash, PlanOta, SignBundle, SignManifest, Probe, Exchange
<1>3. RequestOK(r)
  BY DEF TraceInv
<1>4. RequestOK(r)'
  BY <1>1, <1>2, <1>3 DEF RequestOK
<1>5. ASSUME NEW status, Follows(r, status) PROVE Follows(r, status)'
  <2>1. status = "started" /\ req[r].op \in Traced
    BY <1>1, <1>5 DEF Follows
  <2>2. pc'[r] \notin {"preflight", "record"}
    BY <1>2, <1>3, <2>1 DEF RequestOK, Traced
  <2>3. QED
    BY <1>1, <1>2, <2>1, <2>2 DEF Follows
<1>6. QED
  BY <1>1, <1>2, <1>4, <1>5, RingUnchanged

(* What executes or records a deployment belongs to no trace. *)
LEMMA ExecutingFollows ==
  ASSUME IInv, TraceInv, NEW r \in Request,
         Preflight(r) \/ StartTool(r) \/ EndTool(r) \/ Record(r)
  PROVE  TraceInv'
<1>1. /\ pc[r] \in {"preflight", "start", "tool", "record"}
      /\ UNCHANGED <<req, traces, answer>>
  BY DEF Preflight, StartTool, EndTool, Record
<1>2. /\ pc'[r] \in {"record", "start", "tool", "log"}
      /\ \A s \in Request \ {r} : pc'[s] = pc[s] /\ plan'[s] = plan[s]
  BY DEF IInv, TypeOK, Goto, Preflight, StartTool, EndTool, Record
<1>3. RequestOK(r)'
  BY <1>1, <1>2 DEF TraceInv, RequestOK
<1>4. \A status : ~Follows(r, status)
  BY <1>1 DEF Follows
<1>5. QED
  BY <1>1, <1>2, <1>3, <1>4, RingUnchanged

LEMMA FinishTraceFollows ==
  ASSUME IInv, TraceInv, NEW r \in Request, FinishTrace(r)
  PROVE  TraceInv'
<1>1. /\ pc[r] = "finish" /\ traces' = Finished(traces, r, plan[r].status)
      /\ UNCHANGED <<req, plan, answer>>
  BY DEF FinishTrace
<1>2. pc'[r] = "log" /\ \A s \in Request \ {r} : pc'[s] = pc[s]
  BY DEF FinishTrace, Goto, IInv, TypeOK
<1>3. RequestOK(r)' /\ req[r].op \in Traced
  BY <1>1, <1>2 DEF TraceInv, RequestOK, IInv, Sound, AnswerOK
<1>4. Follows(r, plan[r].status)'
  BY <1>1, <1>2, <1>3 DEF Follows
<1>5. ASSUME NEW i \in DOMAIN traces'
      PROVE  \/ traces'[i].id = r /\ Follows(r, traces[i].status)'
             \/ /\ traces'[i].id \in Request \ {r}
                /\ \E j \in DOMAIN traces : traces'[i] = traces[j]
  <2>1. /\ i \in DOMAIN traces
        /\ traces'[i] = IF traces[i].id = r
                        THEN [traces[i] EXCEPT !.status = plan[r].status]
                        ELSE traces[i]
    BY <1>1, <1>5 DEF Finished
  <2>2. traces[i] \in Trace
    <3>1. traces \in Seq(Trace)
      BY DEF IInv, TypeOK, Trace
    <3>2. QED
      BY <2>1, <3>1
  <2>3. CASE traces[i].id = r
    <3>1. traces'[i].id = r /\ traces'[i].status = plan'[r].status
      BY <1>1, <2>1, <2>2, <2>3 DEF Trace
    <3>2. QED
      BY <1>4, <3>1 DEF Follows
  <2>4. CASE traces[i].id # r
    BY <2>1, <2>2, <2>4 DEF Trace
  <2>5. QED
    BY <2>3, <2>4
<1>6. QED
  BY <1>1, <1>2, <1>3, <1>5, TracesStep

LEMMA LogFollows ==
  ASSUME IInv, TraceInv, NEW r \in Request, Log(r)
  PROVE  TraceInv'
<1>1. pc[r] = "log" /\ UNCHANGED <<req, plan, traces>>
  BY DEF Log, Answered
<1>2. /\ pc'[r] = "ended" /\ answer'[r] = "ok"
      /\ \A s \in Request \ {r} : pc'[s] = pc[s] /\ answer'[s] = answer[s]
  BY DEF Log, Answered, Goto, IInv, TypeOK
<1>3. RequestOK(r)'
  BY <1>2 DEF RequestOK
<1>4. QED
  BY <1>1, <1>2, <1>3, RingUnchanged DEF Follows

LEMMA NextTraceInv == IInv /\ TraceInv /\ [Next]_vars => TraceInv'
<1> SUFFICES ASSUME IInv, TraceInv, [Next]_vars PROVE TraceInv'
  OBVIOUS
<1>1. CASE UNCHANGED vars
  BY <1>1 DEF vars, TraceInv, Follows, RequestOK
<1>2. ASSUME NEW r \in Request, Receive(r) PROVE TraceInv'
  BY <1>2, ReceiveFollows, ConstantsAssumption
<1>3. ASSUME NEW r \in Request,
             UnknownBoard(r) \/ ArtifactMissing(r) \/ ToolTimeout(r)
               \/ StartFails(r) \/ ExchangeFails(r) \/ Fault(r)
      PROVE  TraceInv'
  BY <1>3, RaisingFollows
<1>4. ASSUME NEW r \in Request,
             \/ PlanFlash(r) \/ PlanOta(r) \/ SignBundle(r) \/ SignManifest(r)
             \/ Probe(r) \/ Exchange(r)
      PROVE  TraceInv'
  BY <1>4, PlanningFollows
<1>5. ASSUME NEW r \in Request,
             Preflight(r) \/ StartTool(r) \/ EndTool(r) \/ Record(r)
      PROVE  TraceInv'
  BY <1>5, ExecutingFollows
<1>6. ASSUME NEW r \in Request, FinishTrace(r) PROVE TraceInv'
  BY <1>6, FinishTraceFollows
<1>7. ASSUME NEW r \in Request, Log(r) PROVE TraceInv'
  BY <1>7, LogFollows
<1>8. CASE Restart
  <2>1. DOMAIN traces' = {}
    BY <1>8 DEF Restart
  <2>2. ASSUME NEW r \in Request PROVE RequestOK(r)'
    <3>1. /\ req' = req
          /\ pc'[r] = IF pc[r] \notin {"new", "ended"} THEN "ended" ELSE pc[r]
          /\ answer'[r] = IF pc[r] \notin {"new", "ended"} THEN "lost" ELSE answer[r]
      BY <1>8 DEF Restart
    <3>2. QED
      BY <3>1 DEF TraceInv, RequestOK
  <2>3. QED
    BY <2>1, <2>2 DEF TraceInv
<1>9. CASE Build \/ Delete
  <2>1. UNCHANGED <<pc, req, plan, traces, answer>>
    BY <1>9 DEF Build, Delete
  <2>2. QED
    BY <2>1 DEF TraceInv, Follows, RequestOK
<1>10. QED
  BY <1>1, <1>2, <1>3, <1>4, <1>5, <1>6, <1>7, <1>8, <1>9 DEF Next, Handle

-----------------------------------------------------------------------------
(* Every variable keeps its type, and the ring of traces its length.       *)
THEOREM TypeCorrect == Spec => []TypeOK
<1>1. IInv => TypeOK
  BY DEF IInv
<1>2. QED
  BY AlwaysIInv, <1>1, PTL

(* execute_plan starts a tool only if all reads of the artifact agreed,    *)
(* unless the artifact went back to the content it was planned with: the   *)
(* check compares the artifact with the plan's digest alone, and what was  *)
(* signed between the two may then be another content.                     *)
THEOREM DispatchHolds == Spec => []DispatchedIsSigned
<1>1. IInv => DispatchedIsSigned
  BY DEF IInv, Sound, PlanOK, SignedBy, DispatchedIsSigned
<1>2. QED
  BY AlwaysIInv, <1>1, PTL

(* The table of deployments says what became of the tools.                 *)
THEOREM HistoryHolds == Spec => []HistoryIsTrue
<1>1. IInv => HistoryIsTrue
  BY DEF IInv, Sound, ToolOK, SaysTrue, HistoryIsTrue
<1>2. QED
  BY AlwaysIInv, <1>1, PTL

(* An answered request has its rows, and they tell its tool's outcome.     *)
THEOREM AnswersHold == Spec => []AnsweredIsRecorded
<1>1. IInv => AnsweredIsRecorded
  BY DEF IInv, Sound, ToolOK, AnswerOK, SaysTrue, AnsweredIsRecorded
<1>2. QED
  BY AlwaysIInv, <1>1, PTL

(* start_trace and finish_trace: however requests overlap and traces drop  *)
(* out of the ring, a trace is of one request, started while it is served  *)
(* and finished with its result, unless the request failed.                *)
THEOREM TracesFollow == Spec => []TraceFollowsRequest
<1>1. Init => TraceInv
  BY DEF Init, TraceInv, RequestOK
<1>2. TraceInv => TraceFollowsRequest
  BY DEF TraceInv, Follows, TraceFollowsRequest
<1>3. QED
  BY AlwaysIInv, NextTraceInv, <1>1, <1>2, PTL DEF Spec
=============================================================================
