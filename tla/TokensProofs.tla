---------------------------- MODULE TokensProofs ----------------------------
(***************************************************************************)
(* What TLAPS proves about tokens, for any number of tokens, handlers and  *)
(* rotations and any lifetime of a token.                                  *)
(*                                                                         *)
(* A check reads the secrets, the clock, the revocations and the policies  *)
(* one after the other.  The inductive invariant says, for each step of a  *)
(* check, why a token that was bad when it began is still refused: what    *)
(* makes a token bad (time, rotation, revocation) does not go away.        *)
(***************************************************************************)
EXTENDS Tokens, TLAPS

(* A rejection that a request at each step still has ahead of it, if its   *)
(* bearer's token was not good when the check began.                       *)
Expired(t) == issued[t].exp < now
Rotated(t, gen) == t \in Issuable /\ issued[t].key + 1 < gen
Withdrawn(t) == t \in Issuable /\ t \in told

ValidInv(h) ==
  ~req[h].valid =>
    /\ req[h].checking = "bearer" /\ pc[h] \in {"secret", "verify", "lookup"}
    /\ pc[h] = "secret" => \/ Expired(req[h].bearer) \/ Withdrawn(req[h].bearer)
                           \/ Rotated(req[h].bearer, secret)
    /\ pc[h] = "verify" => \/ Expired(req[h].bearer) \/ Withdrawn(req[h].bearer)
                           \/ Rotated(req[h].bearer, req[h].first)
    /\ pc[h] = "lookup" => Withdrawn(req[h].bearer)

(* Whose token is verified at which step: one that some client holds. *)
StageInv(h) ==
  /\ pc[h] = "permission" => req[h].checking = "bearer"
  /\ pc[h] = "act" => req[h].checking = "bearer"
  /\ pc[h] = "insert" => req[h].checking = "target"
  /\ req[h].checking = "target" => req[h].op = "revoke"
  /\ pc[h] \in {"secret", "verify", "lookup", "permission", "insert"} =>
       Subject(h) \in Known
  /\ pc[h] = "lookup" => Subject(h) \in Issuable
  /\ pc[h] = "verify" => issued[Subject(h)].key <= req[h].first /\ req[h].first <= secret

(* What a request has in hand, and what it did, before it is answered. *)
TargetInv(h) ==
  /\ req[h].op = "revoke" => req[h].target \in Known
  /\ req[h].op = "issue" => req[h].target \in Issuable \ Known
  /\ req[h].made.key <= secret
  /\ pc[h] = "log" /\ req[h].op = "revoke" => req[h].target \in revoked

(* What became of the permission since the check began. *)
PolicyInv(h) ==
  /\ policy => req[h].granted
  /\ ~policy => req[h].denied
  /\ pc[h] \in {"act", "insert", "log"} \/ req[h].checking = "target" =>
       \/ req[h].bearer = ApiKey
       \/ /\ MayAsk(req[h].bearer, req[h].op)
          /\ kind[req[h].bearer] = "device" \/ req[h].granted

(* No two requests issue the same token. *)
Distinct == \A h, k \in Open : req[h].op = "issue" /\ req[k].op = "issue"
                                 /\ req[h].target = req[k].target => h = k

Sound(h) == ValidInv(h) /\ StageInv(h) /\ TargetInv(h) /\ PolicyInv(h)

IInv ==
  /\ TypeOK
  /\ told \subseteq revoked
  /\ \A t \in Token : issued[t].key <= secret
  /\ \A h \in Open : Sound(h)
  /\ Distinct
-----------------------------------------------------------------------------
Step == {"secret", "verify", "lookup", "permission", "act", "insert", "log"}

(* The steps of an open request, and what it is made of. *)
LEMMA OpenFacts ==
  ASSUME TypeOK, NEW h \in Handler
  PROVE  /\ h \in Open <=> pc[h] \in Step
         /\ h \in Open => req[h] \in Served
         /\ h \notin Open => pc[h] \in Ended
         /\ Ended \cap Step = {}
  BY DEF TypeOK, Open, Ended, Step, Served, NoRequest

(* A step of another handler or of the world: time, rotations, revocations *)
(* and issued tokens only grow.                                            *)
Grows ==
  /\ kind' = kind /\ now <= now' /\ secret <= secret'
  /\ told \subseteq told' /\ revoked \subseteq revoked'
  /\ \A t \in Known : issued'[t] = issued[t]

LEMMA Frame ==
  ASSUME ConstantsAssumption, TypeOK, TypeOK', NEW h \in Open, Sound(h), Grows, pc'[h] = pc[h],
         req'[h].op = req[h].op, req'[h].bearer = req[h].bearer,
         req'[h].target = req[h].target, req'[h].checking = req[h].checking,
         req'[h].first = req[h].first, req'[h].made = req[h].made,
         req'[h].valid = req[h].valid,
         req[h].granted => req'[h].granted,
         policy' => req'[h].granted, ~policy' => req'[h].denied,
         req[h].op = "issue" => req[h].target \notin Known'
  PROVE  Sound(h)'
<1>1. h \in Handler /\ req[h] \in Served /\ req'[h] \in Served
  BY OpenFacts DEF Open, TypeOK, NoRequest, Served
<1>2. /\ now \in Nat /\ now' \in Nat /\ secret \in Nat /\ secret' \in Nat
      /\ \A t \in Token : /\ issued[t].key \in Nat /\ issued[t].exp \in Nat
                          /\ issued'[t].key \in Nat /\ issued'[t].exp \in Nat
                          /\ issued[t] \in Signed /\ issued'[t] \in Signed
  BY ConstantsAssumption DEF TypeOK, Generation, Signed, ConstantsAssumption
<1>3. /\ \A t \in Known : t \in Token /\ t \in Known' /\ issued'[t] = issued[t]
      /\ Issuable' = Issuable
  BY DEF Grows, Known, Issuable
<1>4. Subject(h)' = Subject(h) /\ req[h].first \in Nat /\ req[h].made.key \in Nat
  BY <1>1 DEF Subject, Served, Signed, Generation
<1>5. ValidInv(h)'
  <2>1. CASE req[h].valid
    BY <2>1 DEF ValidInv
  <2>2. CASE ~req[h].valid
    <3>1. /\ req[h].checking = "bearer" /\ pc[h] \in {"secret", "verify", "lookup"}
          /\ req[h].bearer \in Known
      BY <2>2 DEF Sound, ValidInv, StageInv, Subject
    <3>2. QED
      BY <1>2, <1>3, <1>4, <2>2, <3>1
      DEF Sound, ValidInv, Expired, Withdrawn, Rotated, Grows
  <2>3. QED
    BY <2>1, <2>2
<1>6. StageInv(h)'
  BY <1>2, <1>3, <1>4 DEF Sound, StageInv, Grows
<1>7. TargetInv(h)'
  BY <1>2, <1>3, <1>4 DEF Sound, TargetInv, Grows
<1>8. PolicyInv(h)'
  BY DEF Sound, PolicyInv, MayAsk, Grows
<1>9. QED
  BY <1>5, <1>6, <1>7, <1>8 DEF Sound

(* A step of one handler that leaves the world and goes on with its        *)
(* request.                                                                *)
LEMMA HandlerStep ==
  ASSUME ConstantsAssumption, IInv, NEW h \in Open, NEW step \in Step, NEW q \in Served,
         pc' = [pc EXCEPT ![h] = step], req' = [req EXCEPT ![h] = q],
         q.op = req[h].op, q.target = req[h].target,
         UNCHANGED <<world, told>>, Sound(h)'
  PROVE  IInv'
<1>1. /\ h \in Handler /\ TypeOK /\ step \notin Ended
      /\ pc'[h] = step /\ req'[h] = q
      /\ \A k \in Handler \ {h} : pc'[k] = pc[k] /\ req'[k] = req[k]
  BY OpenFacts DEF IInv, TypeOK, Open, Ended, Step
<1>2. Open' = Open
  BY <1>1 DEF Open, Ended
<1>3. q # NoRequest
  BY DEF Served, NoRequest, Ops
<1>4. TypeOK'
  BY <1>1, <1>2, <1>3 DEF TypeOK, world, Open, Step
<1>5. \A k \in Open' : Sound(k)'
  <2>1. ASSUME NEW k \in Open, k # h PROVE Sound(k)'
    <3>1. pc'[k] = pc[k] /\ req'[k] = req[k] /\ Sound(k)
      BY <1>1, <2>1 DEF IInv, Open
    <3>2. Grows /\ Known' = Known /\ policy' = policy
      BY <1>1 DEF Grows, world, TypeOK, Generation, Known
    <3>3. QED
      BY <1>1, <1>4, <3>1, <3>2, Frame DEF Sound, PolicyInv, TargetInv
  <2>2. QED
    BY <1>2, <2>1
<1>6. Distinct'
  BY <1>1, <1>2 DEF IInv, Distinct, Open
<1>7. QED
  BY <1>4, <1>5, <1>6 DEF IInv, Distinct, world

(* A request ends. *)
LEMMA EndStep ==
  ASSUME ConstantsAssumption, IInv, NEW h \in Open, NEW how \in Ended, End(h, how),
         UNCHANGED <<world, told>>
  PROVE  IInv'
<1>1. /\ h \in Handler /\ TypeOK
      /\ pc'[h] = how /\ req'[h] = NoRequest
      /\ \A k \in Handler \ {h} : pc'[k] = pc[k] /\ req'[k] = req[k]
  BY DEF IInv, TypeOK, Open, End
<1>2. Open' = Open \ {h}
  BY <1>1 DEF Open
<1>3. TypeOK'
  BY <1>1, <1>2 DEF TypeOK, world, Open, End
<1>4. ASSUME NEW k \in Open' PROVE Sound(k)'
  <2>1. pc'[k] = pc[k] /\ req'[k] = req[k] /\ Sound(k) /\ k \in Open
    BY <1>1, <1>2 DEF IInv, Open
  <2>2. Grows /\ Known' = Known /\ policy' = policy
    BY <1>1 DEF Grows, world, TypeOK, Generation, Known
  <2>3. QED
    BY <1>1, <1>3, <2>1, <2>2, Frame DEF Sound, PolicyInv, TargetInv
<1>5. Distinct'
  BY <1>1, <1>2 DEF IInv, Distinct, Open
<1>6. QED
  BY <1>3, <1>4, <1>5 DEF IInv, Distinct, world
-----------------------------------------------------------------------------
(* A check begins: if the token is not good now, the reason is one that    *)
(* stays.                                                                  *)
LEMMA ReceivePreserves ==
  ASSUME ConstantsAssumption, IInv, NEW h \in Handler, Receive(h)
  PROVE  IInv'
<1>1. PICK op \in Ops, b \in Known \cup {ApiKey}, t \in Token \cup {NoTarget} :
        /\ op = "report" => b # ApiKey
        /\ CASE op = "revoke" -> t \in Known
             [] op = "issue" -> t \in Fresh
             [] OTHER -> t = NoTarget
        /\ req' = [req EXCEPT ![h] =
             [op |-> op, bearer |-> b, target |-> t, checking |-> "bearer",
              first |-> 0, made |-> Unsigned, valid |-> b = ApiKey \/ Good(b),
              granted |-> b = ApiKey \/ policy, denied |-> b = ApiKey \/ ~policy]]
        /\ pc' = [pc EXCEPT ![h] = IF b = ApiKey THEN "act" ELSE "secret"]
  BY DEF Receive
<1> DEFINE q == [op |-> op, bearer |-> b, target |-> t, checking |-> "bearer",
                 first |-> 0, made |-> Unsigned, valid |-> b = ApiKey \/ Good(b),
                 granted |-> b = ApiKey \/ policy, denied |-> b = ApiKey \/ ~policy]
<1>2. /\ pc[h] \in Ended /\ UNCHANGED <<world, told>> /\ TypeOK /\ h \notin Open
      /\ op = "revoke" => t \in Known
      /\ op = "issue" => t \in Fresh
  BY <1>1 DEF Receive, IInv, Open
<1>3. q \in Served
  <2>1. 0 \in Generation /\ Unsigned \in Signed
    BY ConstantsAssumption DEF ConstantsAssumption, Generation, Signed, Unsigned
  <2>2. b \in Credential /\ t \in Token \cup {NoTarget}
    BY DEF Credential, Known
  <2>3. (b = ApiKey \/ Good(b)) \in BOOLEAN
    BY DEF Good
  <2>4. QED
    BY <2>1, <2>2, <2>3, <1>2 DEF Served, TypeOK
<1>4. /\ pc'[h] = IF b = ApiKey THEN "act" ELSE "secret"
      /\ req'[h] = q /\ q # NoRequest
      /\ \A k \in Handler \ {h} : pc'[k] = pc[k] /\ req'[k] = req[k]
  BY <1>1, <1>2, <1>3 DEF TypeOK, Served, NoRequest, Ops
<1>5. Open' = Open \cup {h}
  BY <1>4 DEF Open, Ended
<1>6. TypeOK'
  <2>1. req' \in [Handler -> Served \cup {NoRequest}]
    BY <1>1, <1>2, <1>3 DEF TypeOK
  <2>2. \A k \in Handler : k \in Open' <=> req'[k] # NoRequest
    BY <1>2, <1>4, <1>5 DEF TypeOK
  <2>3. QED
    BY <1>1, <1>2, <2>1, <2>2 DEF TypeOK, world
<1>7. Sound(h)'
  <2>1. /\ req'[h].op = op /\ req'[h].bearer = b /\ req'[h].target = t
        /\ req'[h].checking = "bearer" /\ req'[h].made = Unsigned
        /\ req'[h].valid = (b = ApiKey \/ Good(b))
        /\ req'[h].granted = (b = ApiKey \/ policy)
        /\ req'[h].denied = (b = ApiKey \/ ~policy)
    BY <1>4
  <2>2. ValidInv(h)'
    <3>1. CASE b = ApiKey \/ Good(b)
      BY <2>1, <3>1 DEF ValidInv
    <3>2. CASE b # ApiKey /\ ~Good(b)
      <4>1. b \in Token /\ issued[b].key \in Nat /\ issued[b].exp \in Nat
             /\ issued[b].key <= secret /\ secret \in Nat /\ now \in Nat
        BY <1>2, <3>2, ConstantsAssumption DEF Known, IInv, TypeOK, Signed, Generation,
           ConstantsAssumption
      <4>2. Expired(b) \/ Withdrawn(b) \/ Rotated(b, secret)
        BY <3>2, <4>1 DEF Good, Accepts, Expired, Withdrawn, Rotated
      <4>3. (Expired(b) \/ Withdrawn(b) \/ Rotated(b, secret))'
        BY <1>2, <4>2 DEF Expired, Withdrawn, Rotated, Issuable, world
      <4>4. QED
        BY <1>4, <2>1, <3>2, <4>3 DEF ValidInv, Expired, Withdrawn, Rotated
    <3>3. QED
      BY <3>1, <3>2
  <2>3. StageInv(h)'
    BY <1>2, <1>4, <2>1 DEF StageInv, Subject, Known, world
  <2>4. TargetInv(h)'
    <3>1. Unsigned.key <= secret'
      BY <1>2, ConstantsAssumption
      DEF Unsigned, TypeOK, Generation, ConstantsAssumption, world
    <3>2. QED
      BY <1>2, <1>4, <2>1, <3>1 DEF TargetInv, Fresh, Known, Issuable, world
  <2>5. PolicyInv(h)'
    BY <1>2, <1>4, <2>1 DEF PolicyInv, world
  <2>6. QED
    BY <2>2, <2>3, <2>4, <2>5 DEF Sound
<1>8. ASSUME NEW k \in Open' PROVE Sound(k)'
  <2>1. CASE k = h
    BY <1>7, <2>1
  <2>2. CASE k # h
    <3>1. pc'[k] = pc[k] /\ req'[k] = req[k] /\ Sound(k) /\ k \in Open
      BY <1>4, <1>5, <2>2 DEF IInv, Open
    <3>2. Grows /\ Known' = Known /\ policy' = policy
      BY <1>2 DEF Grows, world, TypeOK, Generation, Known
    <3>3. QED
      BY <1>2, <1>6, <3>1, <3>2, Frame DEF Sound, PolicyInv, TargetInv
  <2>3. QED
    BY <2>1, <2>2
<1>9. Distinct'
  <2>1. op = "issue" => \A k \in Open : req[k].op # "issue" \/ req[k].target # t
    BY <1>2 DEF Fresh
  <2>2. QED
    BY <1>2, <1>4, <1>5, <2>1 DEF IInv, Distinct, Open
<1>10. QED
  BY <1>2, <1>6, <1>8, <1>9 DEF IInv, Distinct, world

(* Going on to a step forgets the secret that was read. *)
LEMMA GotoFacts ==
  ASSUME ConstantsAssumption, TypeOK, NEW h \in Open, NEW step \in Step, Goto(h, step)
  PROVE  LET q == [req[h] EXCEPT !.first = 0] IN
         /\ pc' = [pc EXCEPT ![h] = step] /\ req' = [req EXCEPT ![h] = q]
         /\ pc'[h] = step /\ req'[h] = q /\ q \in Served
         /\ q.op = req[h].op /\ q.bearer = req[h].bearer /\ q.target = req[h].target
         /\ q.checking = req[h].checking /\ q.made = req[h].made /\ q.valid = req[h].valid
         /\ q.granted = req[h].granted /\ q.denied = req[h].denied
<1> DEFINE q == [req[h] EXCEPT !.first = 0]
<1>1. h \in Handler /\ req[h] \in Served /\ 0 \in Generation
  BY OpenFacts DEF Open, ConstantsAssumption, Generation
<1>2. req' = [req EXCEPT ![h] = q] /\ pc' = [pc EXCEPT ![h] = step]
  BY DEF Goto
<1>3. /\ q \in Served
      /\ q.op = req[h].op /\ q.bearer = req[h].bearer /\ q.target = req[h].target
      /\ q.checking = req[h].checking /\ q.made = req[h].made /\ q.valid = req[h].valid
      /\ q.granted = req[h].granted /\ q.denied = req[h].denied
  BY <1>1 DEF Served
<1>4. QED
  BY <1>1, <1>2, <1>3 DEF TypeOK

(* The world as the handlers see it. *)
LEMMA StillFacts ==
  ASSUME UNCHANGED <<world, told>>
  PROVE  /\ Issuable' = Issuable /\ Known' = Known /\ policy' = policy
         /\ UNCHANGED <<kind, now, secret, issued, revoked, told>>
BY DEF world, Issuable, Known

LEMMA ReadSecretPreserves ==
  ASSUME ConstantsAssumption, IInv, NEW h \in Handler, ReadSecret(h)
  PROVE  IInv'
<1> DEFINE q == [req[h] EXCEPT !.first = secret]
<1>1. /\ pc[h] = "secret" /\ pc' = [pc EXCEPT ![h] = "verify"]
      /\ req' = [req EXCEPT ![h] = q] /\ UNCHANGED <<world, told>>
  BY DEF ReadSecret
<1>2. h \in Open /\ TypeOK /\ Sound(h) /\ req[h] \in Served /\ "verify" \in Step
  BY <1>1, OpenFacts DEF IInv, Open, Ended, Step
<1>3. /\ q \in Served
      /\ q.op = req[h].op /\ q.bearer = req[h].bearer /\ q.target = req[h].target
      /\ q.checking = req[h].checking /\ q.made = req[h].made /\ q.valid = req[h].valid
      /\ q.granted = req[h].granted /\ q.denied = req[h].denied /\ q.first = secret
  BY <1>2 DEF Served, TypeOK
<1>4. pc'[h] = "verify" /\ req'[h] = q
  BY <1>1, <1>2 DEF TypeOK
<1>5. Sound(h)'
  <2>1. ValidInv(h)'
    BY <1>1, <1>2, <1>3, <1>4, StillFacts DEF Sound, ValidInv, Expired, Withdrawn, Rotated
  <2>2. Subject(h)' = Subject(h) /\ Subject(h) \in Known
    BY <1>1, <1>2, <1>3, <1>4 DEF Subject, Sound, StageInv
  <2>3. issued[Subject(h)].key <= secret /\ secret \in Nat
    BY <1>2, <2>2, ConstantsAssumption DEF IInv, Known, TypeOK, Generation, ConstantsAssumption
  <2>4. (issued[Subject(h)].key)' <= secret /\ secret' = secret /\ req'[h].first = secret
    BY <1>1, <1>3, <1>4, <2>2, <2>3, StillFacts
  <2>5. StageInv(h)'
    BY <1>1, <1>2, <1>3, <1>4, <2>2, <2>3, <2>4, StillFacts DEF Sound, StageInv
  <2>6. TargetInv(h)' /\ PolicyInv(h)'
    BY <1>1, <1>2, <1>3, <1>4, StillFacts DEF Sound, TargetInv, PolicyInv, MayAsk
  <2>7. QED
    BY <2>1, <2>5, <2>6 DEF Sound
<1>6. QED
  BY <1>1, <1>2, <1>3, <1>5, HandlerStep

(* What a token that passes the check of its signature and its time was    *)
(* not: expired, or signed before the last rotation but one.               *)
LEMMA SignedFacts ==
  ASSUME ConstantsAssumption, IInv, NEW h \in Open, pc[h] = "verify",
         \/ issued[Subject(h)].key = req[h].first
         \/ secret > 0 /\ issued[Subject(h)].key = secret - 1
  PROVE  ~Rotated(Subject(h), req[h].first)
<1>1. /\ Subject(h) \in Token /\ req[h] \in Served /\ req[h].first <= secret
  BY OpenFacts DEF IInv, Sound, StageInv, Known, Open
<1>2. /\ issued[Subject(h)].key \in Nat /\ req[h].first \in Nat /\ secret \in Nat
  BY <1>1, ConstantsAssumption DEF IInv, TypeOK, Signed, Served, Generation,
     ConstantsAssumption
<1>3. QED
  BY <1>1, <1>2 DEF Rotated

LEMMA VerifyPreserves ==
  ASSUME ConstantsAssumption, IInv, NEW h \in Handler, Verify(h)
  PROVE  IInv'
<1> DEFINE t == Subject(h)
           signed == issued[t].key = req[h].first \/ (secret > 0 /\ issued[t].key = secret - 1)
<1>1. pc[h] = "verify" /\ UNCHANGED <<world, told>>
  BY DEF Verify
<1>2. h \in Open /\ TypeOK /\ Sound(h) /\ req[h] \in Served
  BY <1>1, OpenFacts DEF IInv, Open, Ended
<1>3. /\ t \in Known /\ now \in Nat /\ issued[t].exp \in Nat
  BY <1>1, <1>2, ConstantsAssumption
  DEF Sound, StageInv, TypeOK, Known, Signed, ConstantsAssumption
<1>4. CASE End(h, "unauthorized")
  BY <1>1, <1>2, <1>4, EndStep DEF Ended
<1>5. CASE t \notin Issuable /\ now <= issued[t].exp /\ Goto(h, Passed(h))
  <2> DEFINE q == [req[h] EXCEPT !.first = 0]
             step == Passed(h)
  <2>1. step \in Step /\ step \in {"permission", "insert"}
    BY DEF Passed, Step
  <2>2. /\ pc' = [pc EXCEPT ![h] = step] /\ req' = [req EXCEPT ![h] = q]
        /\ pc'[h] = step /\ req'[h] = q /\ q \in Served
        /\ q.op = req[h].op /\ q.bearer = req[h].bearer /\ q.target = req[h].target
        /\ q.checking = req[h].checking /\ q.made = req[h].made /\ q.valid = req[h].valid
        /\ q.granted = req[h].granted /\ q.denied = req[h].denied
    BY <1>2, <1>5, <2>1, GotoFacts
  <2>3. Subject(h)' = Subject(h) /\ (step = "insert" <=> req[h].checking # "bearer")
    BY <2>2 DEF Subject, Passed
  <2>4. req[h].valid
    BY <1>1, <1>2, <1>3, <1>5 DEF Sound, ValidInv, Subject, Expired, Withdrawn, Rotated
  <2>5. ValidInv(h)'
    BY <2>2, <2>4 DEF ValidInv
  <2>6. StageInv(h)'
    BY <1>1, <1>2, <1>3, <2>1, <2>2, <2>3, StillFacts DEF Sound, StageInv, Served
  <2>7. TargetInv(h)' /\ PolicyInv(h)'
    BY <1>1, <1>2, <2>1, <2>2, <2>3, StillFacts DEF Sound, TargetInv, PolicyInv, MayAsk, Served
  <2>8. Sound(h)'
    BY <2>5, <2>6, <2>7 DEF Sound
  <2>9. QED
    BY <1>1, <1>2, <2>1, <2>2, <2>8, HandlerStep
<1>6. CASE t \in Issuable /\ signed /\ now <= issued[t].exp /\ Goto(h, "lookup")
  <2> DEFINE q == [req[h] EXCEPT !.first = 0]
  <2>1. /\ pc' = [pc EXCEPT ![h] = "lookup"] /\ req' = [req EXCEPT ![h] = q]
        /\ pc'[h] = "lookup" /\ req'[h] = q /\ q \in Served /\ "lookup" \in Step
        /\ q.op = req[h].op /\ q.bearer = req[h].bearer /\ q.target = req[h].target
        /\ q.checking = req[h].checking /\ q.made = req[h].made /\ q.valid = req[h].valid
        /\ q.granted = req[h].granted /\ q.denied = req[h].denied
    BY <1>2, <1>6, GotoFacts DEF Step
  <2>2. Subject(h)' = Subject(h)
    BY <2>1 DEF Subject
  <2>3. ~Rotated(t, req[h].first) /\ ~Expired(t)
    BY <1>1, <1>2, <1>3, <1>6, SignedFacts DEF Expired
  <2>4. ValidInv(h)'
    BY <1>1, <1>2, <2>1, <2>3, StillFacts DEF Sound, ValidInv, Subject, Withdrawn
  <2>5. StageInv(h)'
    BY <1>1, <1>2, <1>3, <1>6, <2>1, <2>2, StillFacts DEF Sound, StageInv
  <2>6. TargetInv(h)' /\ PolicyInv(h)'
    BY <1>1, <1>2, <2>1, StillFacts DEF Sound, TargetInv, PolicyInv, MayAsk
  <2>7. Sound(h)'
    BY <2>4, <2>5, <2>6 DEF Sound
  <2>8. QED
    BY <1>1, <1>2, <2>1, <2>7, HandlerStep
<1>7. QED
  BY <1>4, <1>5, <1>6 DEF Verify

LEMMA LookupPreserves ==
  ASSUME ConstantsAssumption, IInv, NEW h \in Handler, Lookup(h)
  PROVE  IInv'
<1>1. pc[h] = "lookup" /\ UNCHANGED <<world, told>>
  BY DEF Lookup
<1>2. h \in Open /\ TypeOK /\ Sound(h) /\ req[h] \in Served
  BY <1>1, OpenFacts DEF IInv, Open, Ended
<1>3. CASE Subject(h) \in revoked
  <2>1. End(h, "unauthorized")
    BY <1>3 DEF Lookup
  <2>2. QED
    BY <1>1, <1>2, <2>1, EndStep DEF Ended
<1>4. CASE Subject(h) \notin revoked
  <2> DEFINE q == [req[h] EXCEPT !.first = 0]
             step == Passed(h)
  <2>1. step \in Step /\ step \in {"permission", "insert"} /\ Goto(h, step)
    BY <1>4 DEF Passed, Step, Lookup
  <2>2. /\ pc' = [pc EXCEPT ![h] = step] /\ req' = [req EXCEPT ![h] = q]
        /\ pc'[h] = step /\ req'[h] = q /\ q \in Served
        /\ q.op = req[h].op /\ q.bearer = req[h].bearer /\ q.target = req[h].target
        /\ q.checking = req[h].checking /\ q.made = req[h].made /\ q.valid = req[h].valid
        /\ q.granted = req[h].granted /\ q.denied = req[h].denied
    BY <1>2, <2>1, GotoFacts
  <2>3. Subject(h)' = Subject(h) /\ (step = "insert" <=> req[h].checking # "bearer")
    BY <2>2 DEF Subject, Passed
  <2>4. req[h].valid
    BY <1>1, <1>2, <1>4 DEF Sound, ValidInv, Subject, Withdrawn, IInv
  <2>5. ValidInv(h)'
    BY <2>2, <2>4 DEF ValidInv
  <2>6. StageInv(h)'
    BY <1>1, <1>2, <2>1, <2>2, <2>3, StillFacts DEF Sound, StageInv, Served
  <2>7. TargetInv(h)' /\ PolicyInv(h)'
    BY <1>1, <1>2, <2>1, <2>2, <2>3, StillFacts DEF Sound, TargetInv, PolicyInv, MayAsk, Served
  <2>8. Sound(h)'
    BY <2>5, <2>6, <2>7 DEF Sound
  <2>9. QED
    BY <1>1, <1>2, <2>1, <2>2, <2>8, HandlerStep
<1>5. QED
  BY <1>3, <1>4

LEMMA PermitPreserves ==
  ASSUME ConstantsAssumption, IInv, NEW h \in Handler, Permit(h)
  PROVE  IInv'
<1> DEFINE t == Subject(h)
           may == MayAsk(t, req[h].op) /\ (kind[t] = "device" \/ policy)
<1>1. pc[h] = "permission" /\ UNCHANGED <<world, told>>
  BY DEF Permit
<1>2. h \in Open /\ TypeOK /\ Sound(h) /\ req[h] \in Served
  BY <1>1, OpenFacts DEF IInv, Open, Ended
<1>3. CASE ~may
  <2>1. End(h, "forbidden")
    BY <1>3 DEF Permit
  <2>2. QED
    BY <1>1, <1>2, <2>1, EndStep DEF Ended
<1>4. CASE may
  <2> DEFINE q == [req[h] EXCEPT !.first = 0]
  <2>1. "act" \in Step /\ Goto(h, "act")
    BY <1>4 DEF Step, Permit
  <2>2. /\ pc' = [pc EXCEPT ![h] = "act"] /\ req' = [req EXCEPT ![h] = q]
        /\ pc'[h] = "act" /\ req'[h] = q /\ q \in Served
        /\ q.op = req[h].op /\ q.bearer = req[h].bearer /\ q.target = req[h].target
        /\ q.checking = req[h].checking /\ q.made = req[h].made /\ q.valid = req[h].valid
        /\ q.granted = req[h].granted /\ q.denied = req[h].denied
    BY <1>2, <2>1, GotoFacts
  <2>3. req[h].valid /\ req[h].checking = "bearer" /\ t = req[h].bearer
    BY <1>1, <1>2 DEF Sound, ValidInv, StageInv, Subject
  <2>4. ValidInv(h)'
    BY <2>2, <2>3 DEF ValidInv
  <2>5. StageInv(h)'
    BY <1>1, <1>2, <2>2, <2>3, StillFacts DEF Sound, StageInv
  <2>6. TargetInv(h)'
    BY <1>1, <1>2, <2>2, StillFacts DEF Sound, TargetInv
  <2>7. PolicyInv(h)'
    BY <1>1, <1>2, <1>4, <2>2, <2>3, StillFacts DEF Sound, PolicyInv, MayAsk
  <2>8. Sound(h)'
    BY <2>4, <2>5, <2>6, <2>7 DEF Sound
  <2>9. QED
    BY <1>1, <1>2, <2>1, <2>2, <2>8, HandlerStep
<1>5. QED
  BY <1>3, <1>4

LEMMA IssuePreserves ==
  ASSUME ConstantsAssumption, IInv, NEW h \in Handler, Issue(h)
  PROVE  IInv'
<1> DEFINE m == [key |-> secret, exp |-> now + Ttl]
           q == [req[h] EXCEPT !.made = m]
<1>1. /\ pc[h] = "act" /\ req[h].op = "issue" /\ UNCHANGED <<world, told>>
      /\ pc' = [pc EXCEPT ![h] = "log"] /\ req' = [req EXCEPT ![h] = q]
  BY DEF Issue
<1>2. h \in Open /\ TypeOK /\ Sound(h) /\ req[h] \in Served /\ "log" \in Step
  BY <1>1, OpenFacts DEF IInv, Open, Ended, Step
<1>3. m \in Signed /\ m.key <= secret /\ secret' = secret
  BY <1>1, <1>2, StillFacts, ConstantsAssumption
  DEF TypeOK, Signed, Generation, ConstantsAssumption
<1>4. /\ q \in Served
      /\ q.op = req[h].op /\ q.bearer = req[h].bearer /\ q.target = req[h].target
      /\ q.checking = req[h].checking /\ q.made = m /\ q.valid = req[h].valid
      /\ q.granted = req[h].granted /\ q.denied = req[h].denied
  BY <1>2, <1>3 DEF Served
<1>5. pc'[h] = "log" /\ req'[h] = q
  BY <1>1, <1>2 DEF TypeOK
<1>6. Sound(h)'
  <2>1. ValidInv(h)'
    BY <1>1, <1>2, <1>4, <1>5 DEF Sound, ValidInv
  <2>2. StageInv(h)'
    BY <1>1, <1>2, <1>4, <1>5 DEF Sound, StageInv
  <2>3. TargetInv(h)'
    BY <1>1, <1>2, <1>3, <1>4, <1>5, StillFacts DEF Sound, TargetInv
  <2>4. PolicyInv(h)'
    BY <1>1, <1>2, <1>4, <1>5, StillFacts DEF Sound, PolicyInv, MayAsk
  <2>5. QED
    BY <2>1, <2>2, <2>3, <2>4 DEF Sound
<1>7. QED
  BY <1>1, <1>2, <1>4, <1>6, HandlerStep

LEMMA RevokePreserves ==
  ASSUME ConstantsAssumption, IInv, NEW h \in Handler, Revoke(h)
  PROVE  IInv'
<1> DEFINE q == [req[h] EXCEPT !.checking = "target"]
<1>1. /\ pc[h] = "act" /\ req[h].op = "revoke" /\ UNCHANGED <<world, told>>
      /\ pc' = [pc EXCEPT ![h] = "secret"] /\ req' = [req EXCEPT ![h] = q]
  BY DEF Revoke
<1>2. h \in Open /\ TypeOK /\ Sound(h) /\ req[h] \in Served /\ "secret" \in Step
  BY <1>1, OpenFacts DEF IInv, Open, Ended, Step
<1>3. /\ q \in Served
      /\ q.op = req[h].op /\ q.bearer = req[h].bearer /\ q.target = req[h].target
      /\ q.checking = "target" /\ q.made = req[h].made /\ q.valid = req[h].valid
      /\ q.granted = req[h].granted /\ q.denied = req[h].denied
  BY <1>2 DEF Served
<1>4. pc'[h] = "secret" /\ req'[h] = q
  BY <1>1, <1>2 DEF TypeOK
<1>5. Sound(h)'
  <2>1. ValidInv(h)'
    BY <1>1, <1>2, <1>3, <1>4 DEF Sound, ValidInv
  <2>2. StageInv(h)'
    BY <1>1, <1>2, <1>3, <1>4, StillFacts DEF Sound, StageInv, TargetInv, Subject
  <2>3. TargetInv(h)'
    BY <1>1, <1>2, <1>3, <1>4, StillFacts DEF Sound, TargetInv
  <2>4. PolicyInv(h)'
    BY <1>1, <1>2, <1>3, <1>4, StillFacts DEF Sound, PolicyInv, MayAsk
  <2>5. QED
    BY <2>1, <2>2, <2>3, <2>4 DEF Sound
<1>6. QED
  BY <1>1, <1>2, <1>3, <1>5, HandlerStep

LEMMA FaultPreserves ==
  ASSUME ConstantsAssumption, IInv, NEW h \in Handler, Fault(h) \/ Serve(h)
  PROVE  IInv'
<1>1. h \in Open
  BY DEF Fault, Serve, Open, Ended
<1>2. PICK how \in {"failed", "served"} : End(h, how)
  BY DEF Fault, Serve
<1>3. UNCHANGED <<world, told>>
  BY DEF Fault, Serve
<1>4. QED
  BY <1>1, <1>2, <1>3, EndStep DEF Ended
-----------------------------------------------------------------------------
(* The handlers beside one that changes the tables: what they issue is not *)
(* what it has handed out.                                                 *)
LEMMA OthersKeep ==
  ASSUME ConstantsAssumption, IInv, TypeOK', NEW h \in Open, Grows, policy' = policy,
         \A k \in Handler \ {h} : pc'[k] = pc[k] /\ req'[k] = req[k],
         \A t \in Known' : t \in Known \/ (req[h].op = "issue" /\ t = req[h].target)
  PROVE  \A k \in Open \ {h} : Sound(k)'
<1> SUFFICES ASSUME NEW k \in Open \ {h} PROVE Sound(k)'
  OBVIOUS
<1>1. k \in Open /\ Sound(k) /\ pc'[k] = pc[k] /\ req'[k] = req[k]
  BY DEF IInv, Open
<1>2. req[k].op = "issue" => req[k].target \notin Known'
  BY <1>1 DEF IInv, Distinct, Sound, TargetInv
<1>3. (policy' => req'[k].granted) /\ (~policy' => req'[k].denied)
  BY <1>1 DEF Sound, PolicyInv
<1>4. QED
  BY <1>1, <1>2, <1>3, Frame DEF IInv

LEMMA InsertPreserves ==
  ASSUME ConstantsAssumption, IInv, NEW h \in Handler, Insert(h)
  PROVE  IInv'
<1> DEFINE q == [req[h] EXCEPT !.first = 0]
<1>1. /\ pc[h] = "insert" /\ Goto(h, "log") /\ revoked' = revoked \cup {Subject(h)}
      /\ UNCHANGED <<kind, now, secret, issued, policy, told>>
  BY DEF Insert
<1>2. h \in Open /\ TypeOK /\ Sound(h) /\ req[h] \in Served /\ "log" \in Step
  BY <1>1, OpenFacts DEF IInv, Open, Ended, Step
<1>3. /\ pc' = [pc EXCEPT ![h] = "log"] /\ req' = [req EXCEPT ![h] = q]
      /\ pc'[h] = "log" /\ req'[h] = q /\ q \in Served
      /\ q.op = req[h].op /\ q.bearer = req[h].bearer /\ q.target = req[h].target
      /\ q.checking = req[h].checking /\ q.made = req[h].made /\ q.valid = req[h].valid
      /\ q.granted = req[h].granted /\ q.denied = req[h].denied
  BY <1>1, <1>2, GotoFacts
<1>4. /\ Subject(h) = req[h].target /\ Subject(h) \in Known /\ req[h].op = "revoke"
      /\ req[h].checking = "target" /\ Subject(h) \in Token
  BY <1>1, <1>2 DEF Sound, StageInv, Subject, Known
<1>5. Known' = Known /\ Issuable' = Issuable
  BY <1>1 DEF Known, Issuable
<1>6. q # NoRequest /\ Open' = Open
  BY <1>2, <1>3 DEF Open, Ended, Served, NoRequest, Ops, TypeOK
<1>7. TypeOK'
  <2>1. req' \in [Handler -> Served \cup {NoRequest}] /\ pc' \in [Handler -> Ended \cup Step]
    BY <1>2, <1>3 DEF TypeOK, Step
  <2>2. \A k \in Handler : k \in Open' <=> req'[k] # NoRequest
    BY <1>2, <1>3, <1>6 DEF TypeOK
  <2>3. revoked' \subseteq Token
    BY <1>1, <1>2, <1>4 DEF TypeOK
  <2>4. QED
    BY <1>1, <1>2, <2>1, <2>2, <2>3 DEF TypeOK, Step
<1>8. Grows
  BY <1>1, <1>2, ConstantsAssumption DEF Grows, TypeOK, Generation, ConstantsAssumption
<1>9. \A k \in Handler \ {h} : pc'[k] = pc[k] /\ req'[k] = req[k]
  BY <1>2, <1>3 DEF TypeOK
<1>10. \A k \in Open \ {h} : Sound(k)'
  BY <1>1, <1>2, <1>5, <1>7, <1>8, <1>9, OthersKeep
<1>11. Sound(h)'
  <2>1. ValidInv(h)'
    BY <1>1, <1>2, <1>3 DEF Sound, ValidInv
  <2>2. StageInv(h)'
    BY <1>1, <1>3, <1>4 DEF StageInv
  <2>3. req[h].made.key <= secret
    BY <1>2 DEF Sound, TargetInv
  <2>4. TargetInv(h)'
    BY <1>1, <1>2, <1>3, <1>4, <1>5, <2>3 DEF Sound, TargetInv
  <2>5. PolicyInv(h)'
    BY <1>1, <1>2, <1>3 DEF Sound, PolicyInv, MayAsk
  <2>6. QED
    BY <2>1, <2>2, <2>4, <2>5 DEF Sound
<1>12. Distinct'
  BY <1>3, <1>6, <1>9 DEF IInv, Distinct, Open
<1>13. QED
  BY <1>1, <1>6, <1>7, <1>10, <1>11, <1>12 DEF IInv

(* A change of the policies is noted by every open request. *)
LEMMA SetPolicyPreserves ==
  ASSUME ConstantsAssumption, IInv, NEW h \in Handler, SetPolicy(h)
  PROVE  IInv'
<1> DEFINE Noted(k) == [req[k] EXCEPT !.granted = @ \/ policy', !.denied = @ \/ ~policy']
<1>0. req' = [k \in Handler |-> IF k \notin Open THEN req[k] ELSE Noted(k)]
  BY DEF SetPolicy
<1>1. /\ pc[h] = "act" /\ req[h].op = "policy" /\ policy' \in BOOLEAN
      /\ pc' = [pc EXCEPT ![h] = "log"]
      /\ UNCHANGED <<kind, now, secret, issued, revoked, told>>
  BY DEF SetPolicy
<1>2. h \in Open /\ TypeOK
  BY <1>1, OpenFacts DEF IInv, Open, Ended
<1>3. Known' = Known /\ Issuable' = Issuable
  BY <1>1 DEF Known, Issuable
<1>4. ASSUME NEW k \in Open
      PROVE  /\ req'[k] \in Served /\ req'[k] # NoRequest
             /\ req'[k].op = req[k].op /\ req'[k].bearer = req[k].bearer
             /\ req'[k].target = req[k].target /\ req'[k].checking = req[k].checking
             /\ req'[k].first = req[k].first /\ req'[k].made = req[k].made
             /\ req'[k].valid = req[k].valid
             /\ req'[k].granted = (req[k].granted \/ policy')
             /\ req'[k].denied = (req[k].denied \/ ~policy')
  <2> DEFINE g == req[k].granted \/ policy'
             half == [req[k] EXCEPT !.granted = g]
             d == half.denied \/ ~policy'
             whole == [half EXCEPT !.denied = d]
  <2>1. req[k] \in Served /\ k \in Handler
    BY <1>2, <1>4, OpenFacts DEF Open
  <2>2. g \in BOOLEAN /\ d \in BOOLEAN
    BY <1>1, <2>1 DEF Served
  <2>3. /\ half \in Served /\ half.op = req[k].op /\ half.bearer = req[k].bearer
        /\ half.target = req[k].target /\ half.checking = req[k].checking
        /\ half.first = req[k].first /\ half.made = req[k].made
        /\ half.valid = req[k].valid /\ half.granted = g /\ half.denied = req[k].denied
    <3> HIDE DEF g
    <3>1. QED
      BY <2>1, <2>2 DEF Served
  <2>4. /\ whole \in Served /\ whole.op = half.op /\ whole.bearer = half.bearer
        /\ whole.target = half.target /\ whole.checking = half.checking
        /\ whole.first = half.first /\ whole.made = half.made
        /\ whole.valid = half.valid /\ whole.granted = half.granted /\ whole.denied = d
    <3> HIDE DEF half, d
    <3>1. QED
      BY <2>2, <2>3 DEF Served
  <2>5. req'[k] = whole
    BY <1>0, <2>1, <1>4
  <2>6. whole # NoRequest
    <3> HIDE DEF whole
    <3>1. QED
      BY <2>4 DEF Served, NoRequest, Ops
  <2>7. d = (req[k].denied \/ ~policy')
    BY <2>3
  <2>8. QED
    <3> HIDE DEF whole, half, g, d
    <3>1. g = (req[k].granted \/ policy')
      BY DEF g
    <3>2. QED
      BY <2>3, <2>4, <2>5, <2>6, <2>7, <3>1
<1>5. /\ \A k \in Handler \ Open : req'[k] = req[k]
      /\ pc'[h] = "log" /\ \A k \in Handler \ {h} : pc'[k] = pc[k]
  BY <1>0, <1>1, <1>2 DEF TypeOK
<1>6. Open' = Open
  BY <1>2, <1>5 DEF Open, Ended
<1>7. TypeOK'
  <2>1. req' \in [Handler -> Served \cup {NoRequest}]
    <3>1. ASSUME NEW k \in Handler PROVE req'[k] \in Served \cup {NoRequest}
      BY <1>2, <1>4, <1>5 DEF TypeOK
    <3>2. \E f : req' = [k \in Handler |-> f[k]]
      <4> DEFINE f == [k \in Handler |-> req'[k]]
      <4>1. req' = f
        BY <1>0
      <4>2. QED
        BY <4>1
    <3>3. QED
      BY <3>1, <3>2
  <2>2. \A k \in Handler : k \in Open' <=> req'[k] # NoRequest
    BY <1>2, <1>4, <1>5, <1>6 DEF TypeOK
  <2>3. pc' \in [Handler -> Ended \cup Step]
    BY <1>1, <1>2 DEF TypeOK, Step
  <2>4. QED
    BY <1>1, <1>2, <2>1, <2>2, <2>3 DEF TypeOK, Step
<1>8. Grows
  BY <1>1, <1>2, ConstantsAssumption DEF Grows, TypeOK, Generation, ConstantsAssumption
<1>9. ASSUME NEW k \in Open \ {h} PROVE Sound(k)'
  <2>1. k \in Open /\ k \in Handler /\ Sound(k) /\ pc'[k] = pc[k]
    BY <1>5 DEF IInv, Open
  <2>2. req[k].op = "issue" => req[k].target \notin Known'
    BY <1>3, <2>1 DEF Sound, TargetInv
  <2>3. QED
    BY <1>2, <1>4, <1>7, <1>8, <2>1, <2>2, Frame
<1>10. Sound(h)'
  <2>1. Sound(h)
    BY <1>2 DEF IInv
  <2>2. ValidInv(h)'
    <3>1. req[h].valid /\ req'[h].valid = req[h].valid
      BY <1>1, <1>2, <1>4, <2>1 DEF Sound, ValidInv
    <3>2. QED
      BY <3>1 DEF ValidInv
  <2>3. StageInv(h)'
    BY <1>1, <1>2, <1>4, <1>5, <2>1 DEF Sound, StageInv
  <2>4. TargetInv(h)'
    BY <1>1, <1>2, <1>3, <1>4, <1>5, <2>1 DEF Sound, TargetInv
  <2>5. PolicyInv(h)'
    <3>1. /\ req'[h].granted = (req[h].granted \/ policy')
          /\ req'[h].denied = (req[h].denied \/ ~policy')
          /\ req'[h].bearer = req[h].bearer /\ req'[h].op = req[h].op
      BY <1>2, <1>4
    <3>2. \/ req[h].bearer = ApiKey
          \/ /\ MayAsk(req[h].bearer, req[h].op)
             /\ kind[req[h].bearer] = "device" \/ req[h].granted
      BY <1>1, <2>1 DEF Sound, PolicyInv
    <3>3. QED
      BY <1>1, <3>1, <3>2 DEF PolicyInv, MayAsk
  <2>6. QED
    BY <2>2, <2>3, <2>4, <2>5 DEF Sound
<1>11. Distinct'
  BY <1>4, <1>6 DEF IInv, Distinct
<1>12. QED
  BY <1>1, <1>6, <1>7, <1>9, <1>10, <1>11 DEF IInv

(* What an answer hands out was signed by the secret of its moment or an   *)
(* older one; a revocation that is answered is in the table.               *)
LEMMA AnswerPreserves ==
  ASSUME ConstantsAssumption, IInv, NEW h \in Handler, Answer(h)
  PROVE  IInv'
<1>1. /\ pc[h] = "log" /\ End(h, "served")
      /\ issued' = IF req[h].op = "issue" THEN [issued EXCEPT ![req[h].target] = req[h].made]
                   ELSE issued
      /\ told' = IF req[h].op = "revoke" THEN told \cup {req[h].target} ELSE told
      /\ UNCHANGED <<kind, now, secret, revoked, policy>>
  BY DEF Answer
<1>2. h \in Open /\ TypeOK /\ Sound(h) /\ req[h] \in Served
  BY <1>1, OpenFacts DEF IInv, Open, Ended
<1>3. /\ req[h].made \in Signed /\ req[h].made.key <= secret
      /\ req[h].op = "issue" => req[h].target \in Issuable \ Known /\ req[h].target \in Token
      /\ req[h].op = "revoke" => req[h].target \in revoked
  BY <1>1, <1>2 DEF Sound, TargetInv, Served, Issuable
<1>4. /\ issued' \in [Token -> Signed] /\ told' \subseteq revoked'
      /\ \A t \in Token : issued'[t] = issued[t]
                          \/ (req[h].op = "issue" /\ t = req[h].target /\ issued'[t] = req[h].made)
  BY <1>1, <1>2, <1>3 DEF IInv, TypeOK
<1>5. \A t \in Token : issued'[t].key <= secret'
  BY <1>1, <1>3, <1>4 DEF IInv
<1>6. \A t \in Known : issued'[t] = issued[t]
  BY <1>3, <1>4 DEF Known
<1>7. \A t \in Known' : t \in Known \/ (req[h].op = "issue" /\ t = req[h].target)
  BY <1>4 DEF Known
<1>8. /\ pc'[h] = "served" /\ req'[h] = NoRequest
      /\ \A k \in Handler \ {h} : pc'[k] = pc[k] /\ req'[k] = req[k]
  BY <1>1, <1>2 DEF TypeOK, End
<1>9. Open' = Open \ {h}
  BY <1>8 DEF Open, Ended
<1>10. TypeOK'
  <2>1. /\ pc' \in [Handler -> Ended \cup Step] /\ req' \in [Handler -> Served \cup {NoRequest}]
    BY <1>1, <1>2 DEF TypeOK, End, Ended, Step
  <2>2. \A k \in Handler : k \in Open' <=> req'[k] # NoRequest
    BY <1>2, <1>8, <1>9 DEF TypeOK
  <2>3. told' \subseteq Token
    BY <1>1, <1>2, <1>4 DEF TypeOK
  <2>4. QED
    BY <1>1, <1>2, <1>4, <2>1, <2>2, <2>3 DEF TypeOK, Step
<1>11. Grows
  BY <1>1, <1>2, <1>6, ConstantsAssumption
  DEF Grows, TypeOK, Generation, ConstantsAssumption
<1>12. \A k \in Open' : Sound(k)'
  BY <1>1, <1>2, <1>7, <1>8, <1>9, <1>10, <1>11, OthersKeep
<1>13. Distinct'
  BY <1>8, <1>9 DEF IInv, Distinct, Open
<1>14. QED
  BY <1>4, <1>5, <1>10, <1>12, <1>13 DEF IInv
-----------------------------------------------------------------------------
(* The clock, the administrator and the process. *)
LEMMA WorldPreserves ==
  ASSUME ConstantsAssumption, IInv, Rotate \/ Tick
  PROVE  IInv'
<1>1. /\ UNCHANGED <<kind, issued, revoked, policy, pc, req, told>> /\ TypeOK
      /\ now \in Nat /\ secret \in Nat
  BY ConstantsAssumption DEF Rotate, Tick, IInv, TypeOK, Generation, ConstantsAssumption
<1>2. now <= now' /\ secret <= secret' /\ now' \in 0 .. MaxTime /\ secret' \in Generation
  BY <1>1, ConstantsAssumption DEF Rotate, Tick, TypeOK, Generation, ConstantsAssumption
<1>3. Open' = Open /\ Known' = Known
  BY <1>1 DEF Open, Known
<1>4. TypeOK'
  BY <1>1, <1>2, <1>3 DEF TypeOK
<1>5. Grows
  BY <1>1, <1>2 DEF Grows
<1>6. ASSUME NEW h \in Open PROVE Sound(h)'
  BY <1>1, <1>3, <1>4, <1>5, Frame DEF IInv, Sound, PolicyInv, TargetInv
<1>7. \A t \in Token : issued'[t].key <= secret'
  BY <1>1, <1>2 DEF IInv, TypeOK, Signed, Generation
<1>8. QED
  BY <1>1, <1>3, <1>4, <1>6, <1>7 DEF IInv, Distinct

LEMMA RestartPreserves ==
  ASSUME ConstantsAssumption, IInv, Restart
  PROVE  IInv'
<1>1. /\ pc' = [h \in Handler |-> "idle"] /\ req' = [h \in Handler |-> NoRequest]
      /\ UNCHANGED <<world, told>> /\ TypeOK
  BY DEF Restart, IInv
<1>2. Open' = {}
  BY <1>1 DEF Open, Ended
<1>3. TypeOK'
  BY <1>1, <1>2 DEF TypeOK, world, Ended
<1>4. QED
  BY <1>1, <1>2, <1>3 DEF IInv, Distinct, world

LEMMA InitHolds == ConstantsAssumption /\ Init => IInv
<1> SUFFICES ASSUME ConstantsAssumption, Init PROVE IInv
  OBVIOUS
<1>1. Open = {}
  BY DEF Init, Open, Ended
<1>2. 0 \in Generation /\ 0 \in 0 .. MaxTime /\ 0 \in 0 .. MaxTime + Ttl /\ Ttl \in 0 .. MaxTime + Ttl
  BY DEF ConstantsAssumption, Generation
<1>3. issued \in [Token -> Signed] /\ \A t \in Token : issued[t].key = 0
  BY <1>2 DEF Init, Signed, Unsigned
<1>4. TypeOK
  BY <1>1, <1>2, <1>3 DEF Init, TypeOK, Ended
<1>5. \A t \in Token : issued[t].key <= secret
  BY <1>3 DEF Init
<1>6. QED
  BY <1>1, <1>4, <1>5 DEF Init, IInv, Distinct

LEMMA NextHolds == ConstantsAssumption /\ IInv /\ [Next]_vars => IInv'
<1> SUFFICES ASSUME ConstantsAssumption, IInv, [Next]_vars PROVE IInv'
  OBVIOUS
<1>1. ASSUME NEW h \in Handler,
             \/ Receive(h) \/ ReadSecret(h) \/ Verify(h) \/ Lookup(h) \/ Permit(h)
             \/ Serve(h) \/ Issue(h) \/ Revoke(h) \/ Insert(h) \/ SetPolicy(h)
             \/ Answer(h) \/ Fault(h)
      PROVE  IInv'
  BY <1>1, ReceivePreserves, ReadSecretPreserves, VerifyPreserves, LookupPreserves,
     PermitPreserves, IssuePreserves, RevokePreserves, InsertPreserves, SetPolicyPreserves,
     AnswerPreserves, FaultPreserves
<1>2. CASE UNCHANGED vars
  <2>1. UNCHANGED <<kind, now, secret, issued, revoked, policy, pc, req, told>>
    BY <1>2 DEF vars
  <2>2. Open' = Open /\ Known' = Known /\ Issuable' = Issuable /\ TypeOK'
    BY <2>1 DEF IInv, TypeOK, Open, Known, Issuable
  <2>3. \A h \in Open : Sound(h)'
    BY <2>1, <2>2 DEF IInv, Sound, ValidInv, StageInv, TargetInv, PolicyInv, Subject, Expired,
       Withdrawn, Rotated, MayAsk
  <2>4. QED
    BY <2>1, <2>2, <2>3 DEF IInv, Distinct
<1>3. QED
  BY <1>1, <1>2, WorldPreserves, RestartPreserves DEF Next

(* What makes a token bad stays, so each step of a check still has the     *)
(* refusal ahead of it that the token deserves.                            *)
THEOREM Invariant == Spec => []IInv
<1>1. Init => IInv
  BY ConstantsAssumption, InitHolds
<1>2. IInv /\ [Next]_vars => IInv'
  BY ConstantsAssumption, NextHolds
<1>3. QED
  BY <1>1, <1>2, PTL DEF Spec
-----------------------------------------------------------------------------
(* How a request comes to its end. *)
LEMMA EndFacts ==
  ASSUME ConstantsAssumption, IInv, [Next]_vars, NEW h \in Open, pc'[h] \in Ended
  PROVE  \/ pc'[h] \in {"idle", "failed"}
         \/ pc'[h] = "served" /\ pc[h] \in {"act", "log"}
         \/ pc'[h] = "unauthorized" /\ (Verify(h) \/ Lookup(h))
         \/ pc'[h] = "forbidden" /\ Permit(h)
<1>1. pc \in [Handler -> Ended \cup Step] /\ h \in Handler /\ pc[h] \notin Ended
  BY DEF IInv, TypeOK, Step, Open
<1>2. ASSUME NEW k \in Handler, k # h,
             \/ Receive(k) \/ ReadSecret(k) \/ Verify(k) \/ Lookup(k) \/ Permit(k)
             \/ Serve(k) \/ Issue(k) \/ Revoke(k) \/ Insert(k) \/ SetPolicy(k)
             \/ Answer(k) \/ Fault(k)
      PROVE  pc'[h] = pc[h]
  BY <1>1, <1>2 DEF Receive, ReadSecret, Verify, Lookup, Permit, Serve, Issue, Revoke, Insert,
     SetPolicy, Answer, Fault, Goto, End
<1>3. ASSUME \/ Receive(h) \/ ReadSecret(h) \/ Issue(h) \/ Revoke(h) \/ Insert(h)
             \/ SetPolicy(h)
      PROVE  FALSE
  BY <1>1, <1>3 DEF Receive, ReadSecret, Issue, Revoke, Insert, SetPolicy, Goto, Ended
<1>4. ASSUME Serve(h) \/ Answer(h)
      PROVE  pc'[h] = "served" /\ pc[h] \in {"act", "log"}
  BY <1>1, <1>4 DEF Serve, Answer, End
<1>5. ASSUME Fault(h) \/ Restart
      PROVE  pc'[h] \in {"idle", "failed"}
  BY <1>1, <1>5 DEF Fault, Restart, End
<1>6. ASSUME Verify(h) \/ Lookup(h)
      PROVE  pc'[h] = "unauthorized"
  BY <1>1, <1>6 DEF Verify, Lookup, Passed, Goto, End, Ended
<1>7. ASSUME Permit(h)
      PROVE  pc'[h] = "forbidden"
  BY <1>1, <1>7 DEF Permit, Goto, End, Ended
<1>8. ASSUME Rotate \/ Tick \/ UNCHANGED vars
      PROVE  FALSE
  BY <1>1, <1>8 DEF Rotate, Tick, vars
<1>9. QED
  BY <1>1, <1>2, <1>3, <1>4, <1>5, <1>6, <1>7, <1>8 DEF Next

(* The tables, the clock, the secrets and the handlers keep their types.   *)
THEOREM TypeCorrect == Spec => []TypeOK
<1>1. IInv => TypeOK
  BY DEF IInv
<1>2. QED
  BY <1>1, Invariant, PTL

(* verify_token lets no request through whose token was already expired,   *)
(* signed two rotations ago or revoked when its check began, whatever      *)
(* happens to the clock, the secrets and the tables while it runs.         *)
THEOREM OnlyValidServed == Spec => ServedIsValid
<1>1. IInv /\ [Next]_vars =>
        [\A h \in Handler : EndsAs(h, "served") => req[h].valid]_vars
  <2> SUFFICES ASSUME IInv, [Next]_vars, NEW h \in Handler, EndsAs(h, "served")
               PROVE  req[h].valid
    OBVIOUS
  <2>1. h \in Open /\ pc'[h] = "served" /\ "served" \in Ended
    BY DEF EndsAs, Open, Ended
  <2>2. pc[h] \in {"act", "log"}
    BY <2>1, EndFacts, ConstantsAssumption
  <2>3. QED
    BY <2>1, <2>2 DEF IInv, Sound, ValidInv
<1>2. QED
  BY <1>1, Invariant, PTL DEF Spec, ServedIsValid

(* require_operator and require_device_identity let a request through only *)
(* with the role it needs and, for operators, a permission they had at     *)
(* some moment since the check began, however the policies change.         *)
THEOREM OnlyPermittedServed == Spec => ServedIsPermitted
<1>1. IInv /\ [Next]_vars =>
        [\A h \in Handler : EndsAs(h, "served") =>
           \/ req[h].bearer = ApiKey
           \/ /\ MayAsk(req[h].bearer, req[h].op)
              /\ kind[req[h].bearer] = "device" \/ req[h].granted]_vars
  <2> SUFFICES ASSUME IInv, [Next]_vars, NEW h \in Handler, EndsAs(h, "served")
               PROVE  \/ req[h].bearer = ApiKey
                      \/ /\ MayAsk(req[h].bearer, req[h].op)
                         /\ kind[req[h].bearer] = "device" \/ req[h].granted
    OBVIOUS
  <2>1. h \in Open /\ pc'[h] = "served" /\ "served" \in Ended
    BY DEF EndsAs, Open, Ended
  <2>2. pc[h] \in {"act", "log"}
    BY <2>1, EndFacts, ConstantsAssumption
  <2>3. QED
    BY <2>1, <2>2 DEF IInv, Sound, PolicyInv
<1>2. QED
  BY <1>1, Invariant, PTL DEF Spec, ServedIsPermitted

(* Nobody is turned away without a cause: also not when the secret is      *)
(* rotated between the reading of the current one and the previous one.    *)
THEOREM RefusalsHaveCause == Spec => RefusedForCause
<1>1. ASSUME IInv, [Next]_vars, NEW h \in Handler
      PROVE  /\ EndsAs(h, "unauthorized") =>
                  \/ issued[Subject(h)].exp < now
                  \/ Subject(h) \in Issuable
                       /\ (Subject(h) \in revoked \/ ~Accepts(secret, issued[Subject(h)].key))
             /\ EndsAs(h, "forbidden") => ~MayAsk(Subject(h), req[h].op) \/ req[h].denied
  <2>1. ASSUME EndsAs(h, "unauthorized")
        PROVE  \/ issued[Subject(h)].exp < now
               \/ Subject(h) \in Issuable
                    /\ (Subject(h) \in revoked \/ ~Accepts(secret, issued[Subject(h)].key))
    <3> DEFINE t == Subject(h)
    <3>1. h \in Open /\ TypeOK /\ Sound(h) /\ (Verify(h) \/ Lookup(h)) /\ req[h] \in Served
      BY <1>1, <2>1, EndFacts, OpenFacts, ConstantsAssumption DEF EndsAs, Open, Ended, IInv
    <3>2. CASE Lookup(h)
      <4>1. pc[h] = "lookup" /\ t \in Issuable
        BY <3>1, <3>2 DEF Lookup, Sound, StageInv
      <4>2. t \in revoked
        BY <2>1, <3>1, <3>2 DEF Lookup, Goto, Passed, EndsAs, TypeOK, Open
      <4>3. QED
        BY <4>1, <4>2
    <3>3. CASE Verify(h)
      <4>1. /\ pc[h] = "verify" /\ t \in Token /\ issued[t].key <= req[h].first
            /\ req[h].first <= secret
        BY <3>1, <3>3 DEF Verify, Sound, StageInv, Known
      <4>2. /\ issued[t].key \in Nat /\ issued[t].exp \in Nat /\ now \in Nat
            /\ req[h].first \in Nat /\ secret \in Nat
        BY <3>1, <4>1, ConstantsAssumption
        DEF TypeOK, Signed, Served, Generation, ConstantsAssumption
      <4>3. /\ ~(t \notin Issuable /\ now <= issued[t].exp)
            /\ ~(/\ t \in Issuable /\ now <= issued[t].exp
                 /\ \/ issued[t].key = req[h].first
                    \/ secret > 0 /\ issued[t].key = secret - 1)
        BY <2>1, <3>1, <3>3 DEF Verify, Goto, Passed, EndsAs, TypeOK, Open
      <4>4. QED
        BY <4>1, <4>2, <4>3 DEF Accepts
    <3>4. QED
      BY <3>1, <3>2, <3>3
  <2>2. ASSUME EndsAs(h, "forbidden")
        PROVE  ~MayAsk(Subject(h), req[h].op) \/ req[h].denied
    <3>1. h \in Open /\ TypeOK /\ Sound(h) /\ Permit(h)
      BY <1>1, <2>2, EndFacts, ConstantsAssumption DEF EndsAs, Open, Ended, IInv
    <3>2. ~(MayAsk(Subject(h), req[h].op) /\ (kind[Subject(h)] = "device" \/ policy))
      BY <2>2, <3>1 DEF Permit, Goto, EndsAs, TypeOK, Open
    <3>3. QED
      BY <3>1, <3>2 DEF Sound, PolicyInv
  <2>3. QED
    BY <2>1, <2>2
<1>2. IInv /\ [Next]_vars =>
        [\A h \in Handler :
           LET t == Subject(h) IN
           /\ EndsAs(h, "unauthorized") =>
                \/ issued[t].exp < now
                \/ t \in Issuable /\ (t \in revoked \/ ~Accepts(secret, issued[t].key))
           /\ EndsAs(h, "forbidden") =>
                ~MayAsk(t, req[h].op) \/ req[h].denied]_vars
  BY <1>1
<1>3. QED
  BY <1>2, Invariant, PTL DEF Spec, RefusedForCause
=============================================================================
