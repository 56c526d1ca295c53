------------------------------- MODULE Tokens -------------------------------
(***************************************************************************)
(* Who is let in: tokens, their expiry, rotation of the signing secret,    *)
(* revocation and role policies, as iotron/security.py, iotron/oidc.py and *)
(* iotron/secrets.py check them for every request, over the tables         *)
(* revoked_tokens and rbac_policies.                                       *)
(*                                                                         *)
(* The bearer is checked by a coroutine without an await in it, so on the  *)
(* event loop these checks come one after the other; what a request asks   *)
(* for is done on a thread, beside the check of the next one.              *)
(*                                                                         *)
(* Nothing is cached between requests.  One check reads the current and    *)
(* the previous secret, the clock, the revocations and the policies, each  *)
(* at a moment of its own, while other requests revoke tokens or change    *)
(* policies, an administrator rotates the secret (the current one becomes  *)
(* the previous one) and the clock runs on.                                *)
(*                                                                         *)
(* A secret is named by the number of rotations before it; a token by its  *)
(* jti.  Tokens of the external provider are verified by another secret,   *)
(* which does not change.  The file of secrets is not in the server's      *)
(* hands: it is assumed to be replaced atomically when the secret is       *)
(* rotated, so that no reader finds it cut off and takes the default       *)
(* (iotron/secrets.py) for the secret.                                     *)
(***************************************************************************)
EXTENDS Naturals

CONSTANTS
  Handler,       \* threads that serve requests
  Token,         \* tokens that clients may come to hold
  ApiKey,        \* the credential that is no token
  Ttl,           \* seconds a token is valid
  Faults,        \* may SQLite raise OperationalError?
  MaxTime,       \* bound on the clock
  MaxRotations   \* bound: how often the secret is rotated

Credential == Token \cup {ApiKey}

ASSUME ConstantsAssumption ==
  /\ ApiKey \notin Token
  /\ Ttl \in Nat \ {0} /\ MaxTime \in Nat /\ MaxRotations \in Nat
  /\ Faults \in BOOLEAN

VARIABLES
  kind,      \* who each token is for: operator, device, or external
  now,       \* the time in seconds
  secret,    \* the current secret; the previous one is secret - 1
  issued,    \* the tokens clients hold
  revoked,   \* table revoked_tokens
  policy,    \* does rbac_policies grant operators devices:write?
  pc,        \* the next step of each handler, or how its last request ended
  req,       \* the request it serves and what it has read for it
  told       \* history: tokens whose revocation was answered

vars == <<kind, now, secret, issued, revoked, policy, pc, req, told>>
world == <<kind, now, secret, issued, revoked, policy>>

-----------------------------------------------------------------------------
Generation == 0 .. MaxRotations
Signed == [key : Generation, exp : 0 .. MaxTime + Ttl]
Unsigned == [key |-> 0, exp |-> 0]

(* Tokens issued to operators and devices, and the external provider's     *)
(* tokens for operators.                                                   *)
Kind == {"operator", "device", "external"}
Issuable == {t \in Token : kind[t] # "external"}

Ops == {"operate", "report", "issue", "revoke", "policy"}
NoTarget == ApiKey

(* A request and the locals of its handler: whose token it is verifying,   *)
(* the bearer's or that of its target; the current secret as it has read   *)
(* it; the token it has signed and not handed out.  Three fields are       *)
(* history: was the bearer's token good when the check began, and did      *)
(* operators have, or lack, the permission at any time since?              *)
Served == [op : Ops, bearer : Credential, target : Token \cup {NoTarget},
           checking : {"bearer", "target"}, first : Generation, made : Signed,
           valid : BOOLEAN, granted : BOOLEAN, denied : BOOLEAN]
NoRequest == [op |-> "none"]

Known == {t \in Token : issued[t] # Unsigned}
Ended == {"idle", "served", "unauthorized", "forbidden", "failed"}
Open == {h \in Handler : pc[h] \notin Ended}

(* Tokens no handler is issuing: every token has a random jti of its own. *)
Fresh == {t \in Issuable \ Known :
            \A h \in Open : req[h].op # "issue" \/ req[h].target # t}

(* Is the event loop busy with h's bearer? *)
Checking(h) == pc[h] \in {"secret", "verify", "lookup", "permission"}
                 /\ req[h].checking = "bearer"

Subject(h) == IF req[h].checking = "bearer" THEN req[h].bearer ELSE req[h].target

(* Devices report, operators do the rest. *)
MayAsk(t, op) == (kind[t] = "device") = (op = "report")

(* A secret accepts what it or its predecessor signed. *)
Accepts(gen, key) == key = gen \/ (gen > 0 /\ key = gen - 1)

(* Is t good at this moment? *)
Good(t) ==
  /\ now <= issued[t].exp
  /\ t \in Issuable => Accepts(secret, issued[t].key) /\ t \notin told

Init ==
  /\ kind \in [Token -> Kind]
  /\ now = 0
  /\ secret = 0
  /\ issued \in {f \in [Token -> {Unsigned, [key |-> 0, exp |-> Ttl]}] :
                   \A t \in Issuable : f[t] = Unsigned}
  /\ revoked = {}
  /\ policy = TRUE   \* the seeded policies
  /\ pc = [h \in Handler |-> "idle"]
  /\ req = [h \in Handler |-> NoRequest]
  /\ told = {}

Goto(h, step) ==
  /\ pc' = [pc EXCEPT ![h] = step]
  /\ req' = [req EXCEPT ![h].first = 0]   \* the settings are read anew each time

(* The request ends, and what its handler knew is gone. *)
End(h, how) ==
  /\ pc' = [pc EXCEPT ![h] = how]
  /\ req' = [req EXCEPT ![h] = NoRequest]

-----------------------------------------------------------------------------
(* A request's turn on the event loop.  The API key needs no further       *)
(* check; a token is verified first.                                       *)
Receive(h) ==
  /\ pc[h] \in Ended
  /\ \A k \in Handler : ~Checking(k)
  /\ \E op \in Ops, b \in Known \cup {ApiKey}, t \in Token \cup {NoTarget} :
       /\ op = "report" => b # ApiKey
       /\ CASE op = "revoke" -> t \in Known
            [] op = "issue" -> t \in Fresh
            [] OTHER -> t = NoTarget
       /\ req' = [req EXCEPT ![h] =
            [op |-> op, bearer |-> b, target |-> t, checking |-> "bearer",
             first |-> 0, made |-> Unsigned, valid |-> b = ApiKey \/ Good(b),
             granted |-> b = ApiKey \/ policy, denied |-> b = ApiKey \/ ~policy]]
       /\ pc' = [pc EXCEPT ![h] = IF b = ApiKey THEN "act" ELSE "secret"]
  /\ UNCHANGED <<world, told>>

(* verify_token loads the settings: the current secret is read first... *)
ReadSecret(h) ==
  /\ pc[h] = "secret"
  /\ req' = [req EXCEPT ![h].first = secret]
  /\ pc' = [pc EXCEPT ![h] = "verify"]
  /\ UNCHANGED <<world, told>>

Passed(h) == IF req[h].checking = "bearer" THEN "permission" ELSE "insert"

(* Mutant: the previous secret is not tried. *)
VerifyCurrent(h) ==
  LET t == Subject(h) IN
  /\ pc[h] = "verify"
  /\ IF t \notin Issuable /\ now <= issued[t].exp THEN Goto(h, Passed(h))
     ELSE IF issued[t].key = req[h].first /\ now <= issued[t].exp THEN Goto(h, "lookup")
     ELSE End(h, "unauthorized")
  /\ UNCHANGED <<world, told>>

(* ...then the previous one.  A token neither has signed may be one of the *)
(* external provider's, which is not looked up among the revocations.      *)
Verify(h) ==
  LET t == Subject(h)
      signed == issued[t].key = req[h].first \/ (secret > 0 /\ issued[t].key = secret - 1)
  IN
  /\ pc[h] = "verify"
  /\ IF t \notin Issuable /\ now <= issued[t].exp THEN Goto(h, Passed(h))
     ELSE IF t \in Issuable /\ signed /\ now <= issued[t].exp THEN Goto(h, "lookup")
     ELSE End(h, "unauthorized")
  /\ UNCHANGED <<world, told>>

(* is_token_revoked. *)
Lookup(h) ==
  /\ pc[h] = "lookup"
  /\ IF Subject(h) \in revoked THEN End(h, "unauthorized") ELSE Goto(h, Passed(h))
  /\ UNCHANGED <<world, told>>

(* Mutant: only the role is checked. *)
PermitRole(h) ==
  LET t == Subject(h) IN
  /\ pc[h] = "permission"
  /\ IF MayAsk(t, req[h].op) THEN Goto(h, "act")
     ELSE End(h, "forbidden")
  /\ UNCHANGED <<world, told>>

(* require_operator and require_device_identity check the role, then the   *)
(* policies; a device's token carries the scope it needs.                  *)
Permit(h) ==
  LET t == Subject(h) IN
  /\ pc[h] = "permission"
  /\ IF MayAsk(t, req[h].op) /\ (kind[t] = "device" \/ policy)
     THEN Goto(h, "act") ELSE End(h, "forbidden")
  /\ UNCHANGED <<world, told>>

-----------------------------------------------------------------------------
(* Every other handler; what it does is the business of other modules. *)
Serve(h) ==
  /\ pc[h] = "act" /\ req[h].op \in {"operate", "report"}
  /\ End(h, "served")
  /\ UNCHANGED <<world, told>>

(* issue_token signs with the secret that is current now. *)
Issue(h) ==
  /\ pc[h] = "act" /\ req[h].op = "issue"
  /\ req' = [req EXCEPT ![h].made = [key |-> secret, exp |-> now + Ttl]]
  /\ pc' = [pc EXCEPT ![h] = "log"]
  /\ UNCHANGED <<world, told>>

(* revoke_token: verify the token like a bearer's... *)
Revoke(h) ==
  /\ pc[h] = "act" /\ req[h].op = "revoke"
  /\ req' = [req EXCEPT ![h].checking = "target"]
  /\ pc' = [pc EXCEPT ![h] = "secret"]
  /\ UNCHANGED <<world, told>>

(* Mutant: the bearer's own token is entered. *)
InsertBearer(h) ==
  /\ pc[h] = "insert"
  /\ revoked' = revoked \cup {req[h].bearer}
  /\ Goto(h, "log")
  /\ UNCHANGED <<kind, now, secret, issued, policy, told>>

(* ...and enter it in the table. *)
Insert(h) ==
  /\ pc[h] = "insert"
  /\ revoked' = revoked \cup {Subject(h)}
  /\ Goto(h, "log")
  /\ UNCHANGED <<kind, now, secret, issued, policy, told>>

(* set_rbac_policy replaces the permissions of the operators. *)
SetPolicy(h) ==
  /\ pc[h] = "act" /\ req[h].op = "policy"
  /\ policy' \in BOOLEAN
  /\ req' = [k \in Handler |->
               IF k \notin Open THEN req[k]
               ELSE [req[k] EXCEPT !.granted = @ \/ policy', !.denied = @ \/ ~policy']]
  /\ pc' = [pc EXCEPT ![h] = "log"]
  /\ UNCHANGED <<kind, now, secret, issued, revoked, told>>

(* The audit row is written and the request answered. *)
Answer(h) ==
  LET q == req[h] IN
  /\ pc[h] = "log"
  /\ issued' = IF q.op = "issue" THEN [issued EXCEPT ![q.target] = q.made] ELSE issued
  /\ told' = IF q.op = "revoke" THEN told \cup {q.target} ELSE told
  /\ End(h, "served")
  /\ UNCHANGED <<kind, now, secret, revoked, policy>>

(* SQLite raises: the request fails, and nothing of the transaction stays. *)
Fault(h) ==
  /\ Faults
  /\ \/ pc[h] \in {"lookup", "permission", "insert", "log"}
     \/ pc[h] = "act" /\ req[h].op = "policy"
  /\ End(h, "failed")
  /\ UNCHANGED <<world, told>>

(* Mutant: revocations are kept in memory. *)
RestartForgetting ==
  /\ pc' = [h \in Handler |-> "idle"]
  /\ req' = [h \in Handler |-> NoRequest]
  /\ revoked' = {}
  /\ UNCHANGED <<kind, now, secret, issued, policy, told>>

(* The process stops and is started again: the handlers are gone. *)
Restart ==
  /\ pc' = [h \in Handler |-> "idle"]
  /\ req' = [h \in Handler |-> NoRequest]
  /\ UNCHANGED <<world, told>>

(* An administrator makes the current secret the previous one. *)
Rotate ==
  /\ secret < MaxRotations
  /\ secret' = secret + 1
  /\ UNCHANGED <<kind, now, issued, revoked, policy, pc, req, told>>

Tick ==
  /\ now < MaxTime
  /\ now' = now + 1
  /\ UNCHANGED <<kind, secret, issued, revoked, policy, pc, req, told>>

Next ==
  \/ \E h \in Handler :
       \/ Receive(h) \/ ReadSecret(h) \/ Verify(h) \/ Lookup(h) \/ Permit(h)
       \/ Serve(h) \/ Issue(h) \/ Revoke(h) \/ Insert(h) \/ SetPolicy(h)
       \/ Answer(h) \/ Fault(h)
  \/ Restart \/ Rotate \/ Tick

Spec == Init /\ [][Next]_vars

-----------------------------------------------------------------------------
(* Every variable has its type. *)
TypeOK ==
  /\ kind \in [Token -> Kind]
  /\ now \in 0 .. MaxTime /\ secret \in Generation
  /\ issued \in [Token -> Signed]
  /\ revoked \subseteq Token /\ told \subseteq Token
  /\ policy \in BOOLEAN
  /\ pc \in [Handler -> Ended \cup {"secret", "verify", "lookup", "permission",
                                   "act", "insert", "log"}]
  /\ req \in [Handler -> Served \cup {NoRequest}]
  /\ \A h \in Handler : h \in Open <=> req[h] # NoRequest

EndsAs(h, how) == pc[h] \notin Ended /\ pc'[h] = how

(* A request is served only if its bearer's token was good when the check  *)
(* began: not expired, signed by the secret of that moment or the one      *)
(* before it, and its revocation not answered, whether or not the process  *)
(* was restarted since.                                                    *)
ServedIsValid == [][\A h \in Handler : EndsAs(h, "served") => req[h].valid]_vars

(* A request with a token is served only for the role that may make it,    *)
(* and an operator's only if operators had the permission at some moment   *)
(* between the start of the check and the answer.                          *)
ServedIsPermitted ==
  [][\A h \in Handler : EndsAs(h, "served") =>
       \/ req[h].bearer = ApiKey
       \/ /\ MayAsk(req[h].bearer, req[h].op)
          /\ kind[req[h].bearer] = "device" \/ req[h].granted]_vars

(* Nobody is refused without a cause: a token that is refused has expired, *)
(* is revoked, or was signed two rotations ago, and a role is refused what *)
(* it may not ask for, or was denied since the check began.                *)
RefusedForCause ==
  [][\A h \in Handler :
       LET t == Subject(h) IN
       /\ EndsAs(h, "unauthorized") =>
            \/ issued[t].exp < now
            \/ t \in Issuable /\ (t \in revoked \/ ~Accepts(secret, issued[t].key))
       /\ EndsAs(h, "forbidden") =>
            ~MayAsk(t, req[h].op) \/ req[h].denied]_vars
=============================================================================
