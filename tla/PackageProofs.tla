--------------------------- MODULE PackageProofs ---------------------------
(***************************************************************************)
(* Theorems about PackageStore, for every set of packages, whatever SQLite *)
(* refuses and wherever processes stop.  What they assume is what the code *)
(* does not provide: no process keeps a copy while another one writes.     *)
(***************************************************************************)
EXTENDS MCPackageStore, TLAPS

(* Requests are served one after the other, by one process or by commands. *)
NoStaleCopy == ~Overlap /\ ((\E x : Proc = {x}) \/ Server = {})

(* At most one process is inside a request. *)
Exclusive == \A x, y \in Proc : pc[x] # "idle" /\ pc[y] # "idle" => x = y

(* The request in progress is well formed, and nothing is promised about   *)
(* its package.                                                            *)
InProgress ==
  \A x \in Proc : pc[x] # "idle" =>
    /\ req[x] \in Request /\ req[x].at # 0
    /\ promised[req[x].pkg] = 0
    /\ req[x].pkg \notin removed

(* A state of the table, or a copy of it, that keeps all promises.         *)
(* Nothing is promised about the removal of packages in the legacy file.   *)
Keeps(rows) ==
  /\ \A p \in Package : promised[p] # 0 => rows[p] = promised[p]
  /\ \A p \in Package \ Legacy : p \in removed => rows[p] = 0

(* The copies that may still be written to the table keep all promises. *)
CopiesKeep ==
  \A x \in Proc :
    x \in Server \/ pc[x] \in {"change", "save", "refresh", "answer"} => Keeps(cache[x])

(* What the request wrote to its copy, and from there to the table. *)
Wrote(rows, q) ==
  /\ q.kind = "install" => rows[q.pkg] = q.at
  /\ q.kind = "uninstall" /\ q.pkg \notin Legacy => rows[q.pkg] = 0

Written ==
  \A x \in Proc :
    /\ pc[x] \in {"save", "refresh", "answer"} => Wrote(cache[x], req[x])
    /\ pc[x] \in {"refresh", "answer"} => Wrote(table, req[x])

IInv ==
  /\ TypeOK
  /\ Exclusive
  /\ InProgress
  /\ Keeps(table)
  /\ CopiesKeep
  /\ Written

-----------------------------------------------------------------------------
(* Opening a connection changes an empty table only, and no package that   *)
(* is not in the legacy file.                                              *)
LEMMA OpenedFacts ==
  ASSUME ConstantsAssumption, NEW rows \in Packages
  PROVE  /\ Opened(rows) \in Packages
         /\ \A p \in Package : rows[p] # 0 => Opened(rows) = rows
         /\ \A p \in Package \ Legacy : Opened(rows)[p] = rows[p]
<1>1. Nothing \in Packages /\ \A p \in Package : Nothing[p] = 0
  BY ConstantsAssumption DEF Nothing, Packages, Version
<1>2. LegacyPackages \in Packages
  BY ConstantsAssumption DEF LegacyPackages, Packages, Version
<1>3. Opened(rows) \in Packages
  BY <1>2 DEF Opened
<1>4. \A p \in Package : rows[p] # 0 => Opened(rows) = rows
  BY <1>1 DEF Opened
<1>5. \A p \in Package \ Legacy : LegacyPackages[p] = Nothing[p]
  BY DEF LegacyPackages, Nothing
<1>6. QED
  BY <1>3, <1>4, <1>5 DEF Opened

(* So promises are kept across it, and so is what a request wrote. *)
LEMMA OpenedKeeps ==
  ASSUME ConstantsAssumption, NEW rows \in Packages, Keeps(rows)
  PROVE  /\ Keeps(Opened(rows))
         /\ \A q \in Request : q.at # 0 /\ Wrote(rows, q) => Wrote(Opened(rows), q)
<1>1. Keeps(Opened(rows))
  <2>1. ASSUME NEW p \in Package, promised[p] # 0
        PROVE  Opened(rows)[p] = promised[p]
    BY <2>1, OpenedFacts DEF Keeps
  <2>2. \A p \in Package \ Legacy : p \in removed => Opened(rows)[p] = 0
    BY OpenedFacts DEF Keeps
  <2>3. QED
    BY <2>1, <2>2 DEF Keeps
<1>2. ASSUME NEW q \in Request, q.at # 0, Wrote(rows, q)
      PROVE  Wrote(Opened(rows), q)
  BY <1>2, OpenedFacts DEF Wrote, Request
<1>3. QED
  BY <1>1, <1>2

(* With no stale copy, a process inside a request is the only one whose    *)
(* copy matters.                                                           *)
LEMMA OnlyCopy ==
  ASSUME NoStaleCopy, ConstantsAssumption, Exclusive, NEW x \in Proc, pc[x] # "idle",
         NEW y \in Proc, y \in Server \/ pc[y] # "idle"
  PROVE  y = x
  BY DEF NoStaleCopy, Exclusive, ConstantsAssumption

-----------------------------------------------------------------------------
LEMMA InitIInv == Init => IInv
<1> SUFFICES ASSUME Init PROVE IInv
  OBVIOUS
<1>1. PICK S \in SUBSET Package :
        table = Opened([p \in Package |-> IF p \in S THEN 1 ELSE 0])
  BY DEF Init
<1>2. [p \in Package |-> IF p \in S THEN 1 ELSE 0] \in Packages
  BY ConstantsAssumption DEF Packages, Version
<1>3. table \in Packages
  BY <1>1, <1>2, OpenedFacts, ConstantsAssumption
<1>4. promised \in Packages /\ removed = {} /\ \A p \in Package : promised[p] = 0
  <2>1. promised = Nothing /\ removed = {}
    BY DEF Init
  <2>2. 0 \in Version
    BY ConstantsAssumption DEF Version
  <2>3. QED
    BY <2>1, <2>2 DEF Nothing, Packages
<1>5. TypeOK
  <2>1. clock \in Version
    <3>1. clock = 1
      BY DEF Init
    <3>2. QED
      BY <3>1, ConstantsAssumption DEF Version
  <2>2. cache \in [Proc -> Packages]
    BY <1>3 DEF Init
  <2>3. /\ pc \in [Proc -> {"idle", "start", "change", "save", "refresh", "answer"}]
        /\ req \in [Proc -> Request \cup {NoRequest}]
    BY DEF Init
  <2>4. QED
    BY <1>3, <1>4, <2>1, <2>2, <2>3 DEF TypeOK
<1>6. Keeps(table) /\ CopiesKeep
  BY <1>4 DEF Keeps, CopiesKeep
<1>7. Exclusive /\ InProgress /\ Written
  BY DEF Init, Exclusive, InProgress, Written
<1>8. QED
  BY <1>5, <1>6, <1>7 DEF IInv

LEMMA BeginPreserves ==
  ASSUME ConstantsAssumption, NoStaleCopy, IInv, NEW x \in Proc, Begin(x)
  PROVE  IInv'
<1> USE DEF IInv
<1>1. PICK q \in [kind : {"install", "uninstall"}, pkg : Package, at : {clock + 1}] :
        /\ req' = [req EXCEPT ![x] = q]
        /\ promised' = [promised EXCEPT ![q.pkg] = 0]
        /\ removed' = removed \ {q.pkg}
  BY DEF Begin
<1>2. clock' \in Version /\ clock + 1 \in Version /\ clock + 1 # 0 /\ clock' = clock + 1
  BY ConstantsAssumption DEF Begin, TypeOK, Version
<1>3. q \in Request /\ q.at # 0 /\ q.pkg \in Package
  BY <1>2 DEF Request
<1>4. promised' \in Packages /\ promised'[q.pkg] = 0
      /\ \A p \in Package : promised'[p] # 0 => promised'[p] = promised[p]
  BY <1>1, <1>3, ConstantsAssumption DEF TypeOK, Packages, Version
<1>5. /\ pc' = [pc EXCEPT ![x] = IF x \in Server THEN "change" ELSE "start"]
      /\ UNCHANGED <<table, cache>>
      /\ pc[x] = "idle"
  BY DEF Begin
<1>6. TypeOK'
  BY <1>1, <1>2, <1>3, <1>4, <1>5 DEF TypeOK
<1>7. \A y \in Proc : y # x => pc[y] = "idle"
  BY DEF Begin, NoStaleCopy
<1>8. Exclusive'
  BY <1>5, <1>7 DEF Exclusive, TypeOK
<1>9. InProgress'
  BY <1>1, <1>3, <1>4, <1>5, <1>7 DEF InProgress, TypeOK
<1>10. ASSUME NEW rows, Keeps(rows)
       PROVE  /\ \A p \in Package : promised'[p] # 0 => rows[p] = promised'[p]
              /\ \A p \in Package \ Legacy : p \in removed' => rows[p] = 0
  BY <1>1, <1>4, <1>10 DEF Keeps
<1>11. Keeps(table)'
  BY <1>5, <1>10 DEF Keeps
<1>12. CopiesKeep'
  <2>1. ASSUME NEW y \in Proc,
               y \in Server \/ pc'[y] \in {"change", "save", "refresh", "answer"}
        PROVE  Keeps(cache[y])
    BY <2>1, <1>5, <1>7 DEF CopiesKeep, TypeOK
  <2>2. QED
    BY <1>5, <1>10, <2>1 DEF CopiesKeep, Keeps
<1>13. Written'
  BY <1>5, <1>7 DEF Written, TypeOK
<1>14. QED
  BY <1>6, <1>8, <1>9, <1>11, <1>12, <1>13

LEMMA StartPreserves ==
  ASSUME ConstantsAssumption, NoStaleCopy, IInv, NEW x \in Proc, Start(x)
  PROVE  IInv'
<1> USE DEF IInv
<1>1. /\ pc[x] = "start" /\ pc' = [pc EXCEPT ![x] = "change"]
      /\ table' = Opened(table) /\ cache' = [cache EXCEPT ![x] = table']
      /\ UNCHANGED <<req, clock, promised, removed>>
  BY DEF Start
<1>2. table' \in Packages /\ Keeps(table')
  BY <1>1, OpenedFacts, OpenedKeeps DEF TypeOK
<1>3. \A y \in Proc : y \in Server \/ pc[y] # "idle" => y = x
  BY <1>1, OnlyCopy
<1>4. TypeOK'
  BY <1>1, <1>2 DEF TypeOK
<1>5. Exclusive' /\ InProgress'
  BY <1>1 DEF Exclusive, InProgress, TypeOK
<1>6. Keeps(table)'
  BY <1>1, <1>2 DEF Keeps
<1>7. CopiesKeep'
  BY <1>1, <1>2, <1>3 DEF CopiesKeep, Keeps, TypeOK
<1>8. Written'
  BY <1>1, <1>3 DEF Written, TypeOK
<1>9. QED
  BY <1>4, <1>5, <1>6, <1>7, <1>8

LEMMA ChangePreserves ==
  ASSUME ConstantsAssumption, NoStaleCopy, IInv, NEW x \in Proc, Change(x)
  PROVE  IInv'
<1> USE DEF IInv
<1> DEFINE q == req[x]
           new == [cache[x] EXCEPT ![q.pkg] = IF q.kind = "install" THEN q.at ELSE 0]
<1>1. /\ pc[x] = "change" /\ pc' = [pc EXCEPT ![x] = "save"]
      /\ cache' = [cache EXCEPT ![x] = new]
      /\ UNCHANGED <<table, req, clock, promised, removed>>
  BY DEF Change
<1>2. q \in Request /\ q.at # 0 /\ promised[q.pkg] = 0 /\ q.pkg \notin removed
  BY <1>1 DEF InProgress
<1>3. /\ q.pkg \in Package /\ q.at \in Version /\ 0 \in Version
      /\ q.kind \in {"install", "uninstall"}
  BY <1>2, ConstantsAssumption DEF Request, Version
<1>4. cache[x] \in Packages /\ Keeps(cache[x])
  BY <1>1 DEF CopiesKeep, TypeOK
<1>5. /\ new \in Packages
      /\ new[q.pkg] = IF q.kind = "install" THEN q.at ELSE 0
      /\ \A p \in Package : p # q.pkg => new[p] = cache[x][p]
  BY <1>3, <1>4 DEF Packages
<1> HIDE DEF new
<1>6. Keeps(new)
  BY <1>2, <1>3, <1>4, <1>5 DEF Keeps, TypeOK
<1>7. Wrote(new, q)
  BY <1>5 DEF Wrote
<1>8. \A y \in Proc : y \in Server \/ pc[y] # "idle" => y = x
  BY <1>1, OnlyCopy
<1>9. TypeOK'
  BY <1>1, <1>5 DEF TypeOK
<1>10. Exclusive' /\ InProgress'
  BY <1>1 DEF Exclusive, InProgress, TypeOK
<1>11. Keeps(table)'
  BY <1>1 DEF Keeps
<1>12. CopiesKeep'
  BY <1>1, <1>6, <1>8 DEF CopiesKeep, Keeps, TypeOK
<1>13. Written'
  BY <1>1, <1>7, <1>8 DEF Written, TypeOK, Wrote
<1>14. QED
  BY <1>9, <1>10, <1>11, <1>12, <1>13

LEMMA SavePreserves ==
  ASSUME ConstantsAssumption, NoStaleCopy, IInv, NEW x \in Proc, Save(x)
  PROVE  IInv'
<1> USE DEF IInv
<1>1. /\ pc[x] = "save" /\ pc' = [pc EXCEPT ![x] = "refresh"]
      /\ table' = cache[x]
      /\ UNCHANGED <<cache, req, clock, promised, removed>>
  BY DEF Save
<1>2. \A y \in Proc : pc[y] # "idle" => y = x
  BY <1>1, OnlyCopy
<1>3. TypeOK'
  BY <1>1 DEF TypeOK
<1>4. Exclusive' /\ InProgress'
  BY <1>1 DEF Exclusive, InProgress, TypeOK
<1>5. Keeps(table)' /\ CopiesKeep'
  BY <1>1 DEF CopiesKeep, Keeps, TypeOK
<1>6. Written'
  BY <1>1, <1>2 DEF Written, TypeOK, Wrote
<1>7. QED
  BY <1>3, <1>4, <1>5, <1>6

LEMMA RefreshPreserves ==
  ASSUME ConstantsAssumption, NoStaleCopy, IInv, NEW x \in Proc, Refresh(x)
  PROVE  IInv'
<1> USE DEF IInv
<1>1. /\ pc[x] = "refresh" /\ pc' = [pc EXCEPT ![x] = "answer"]
      /\ table' = Opened(table) /\ cache' = [cache EXCEPT ![x] = table']
      /\ UNCHANGED <<req, clock, promised, removed>>
  BY DEF Refresh
<1>2. req[x] \in Request /\ req[x].at # 0 /\ Wrote(table, req[x])
  BY <1>1 DEF InProgress, Written
<1>3. table' \in Packages /\ Keeps(table') /\ Wrote(table', req[x])
  BY <1>1, <1>2, OpenedFacts, OpenedKeeps DEF TypeOK
<1>4. \A y \in Proc : y \in Server \/ pc[y] # "idle" => y = x
  BY <1>1, OnlyCopy
<1>5. TypeOK'
  BY <1>1, <1>3 DEF TypeOK
<1>6. Exclusive' /\ InProgress'
  BY <1>1 DEF Exclusive, InProgress, TypeOK
<1>7. Keeps(table)' /\ CopiesKeep'
  BY <1>1, <1>3, <1>4 DEF CopiesKeep, Keeps, TypeOK
<1>8. Written'
  BY <1>1, <1>3, <1>4 DEF Written, TypeOK, Wrote
<1>9. QED
  BY <1>5, <1>6, <1>7, <1>8

(* The request is over: no process is inside one, and its copy, if it is   *)
(* the server, keeps what it kept.                                         *)
LEMMA LeaveFacts ==
  ASSUME ConstantsAssumption, NoStaleCopy, IInv, NEW x \in Proc, Leave(x), pc[x] # "idle"
  PROVE  /\ \A y \in Proc : pc'[y] = "idle"
         /\ pc' \in [Proc -> {"idle", "start", "change", "save", "refresh", "answer"}]
         /\ req' \in [Proc -> Request \cup {NoRequest}]
         /\ Exclusive' /\ InProgress' /\ Written'
<1>1. \A y \in Proc : pc'[y] = "idle"
  BY OnlyCopy DEF IInv, TypeOK, Leave
<1>2. /\ pc' \in [Proc -> {"idle", "start", "change", "save", "refresh", "answer"}]
      /\ req' \in [Proc -> Request \cup {NoRequest}]
  BY DEF IInv, TypeOK, Leave
<1>3. QED
  BY <1>1, <1>2 DEF Exclusive, InProgress, Written

LEMMA AnswerPreserves ==
  ASSUME ConstantsAssumption, NoStaleCopy, IInv, NEW x \in Proc, Answer(x)
  PROVE  IInv'
<1> USE DEF IInv
<1> DEFINE q == req[x]
<1>1. /\ pc[x] = "answer" /\ Leave(x) /\ table' = Opened(table)
      /\ UNCHANGED <<cache, clock>>
  BY DEF Answer
<1>2. q \in Request /\ q.at # 0 /\ promised[q.pkg] = 0 /\ q.pkg \notin removed
      /\ Wrote(table, q) /\ Wrote(cache[x], q)
  BY <1>1 DEF InProgress, Written
<1>3. q.pkg \in Package /\ q.at \in Version /\ q.kind \in {"install", "uninstall"}
  BY <1>2 DEF Request
<1>4. table' \in Packages /\ Keeps(table') /\ Wrote(table', q)
  BY <1>1, <1>2, OpenedFacts, OpenedKeeps DEF TypeOK
<1>5. ASSUME NEW rows, Keeps(rows), Wrote(rows, q)
      PROVE  /\ \A p \in Package : promised'[p] # 0 => rows[p] = promised'[p]
             /\ \A p \in Package \ Legacy : p \in removed' => rows[p] = 0
  <2>1. CASE q.kind = "install"
    BY <1>3, <1>5, <2>1 DEF Answer, Keeps, Wrote, TypeOK, Packages
  <2>2. CASE q.kind = "uninstall"
    BY <1>3, <1>5, <2>2 DEF Answer, Keeps, Wrote, TypeOK, Packages
  <2>3. QED
    BY <1>3, <2>1, <2>2
<1>6. promised' \in Packages /\ removed' \subseteq Package
  BY <1>3 DEF Answer, TypeOK, Packages
<1>7. TypeOK'
  BY <1>1, <1>4, <1>6, LeaveFacts DEF TypeOK
<1>8. Keeps(table)'
  BY <1>4, <1>5 DEF Keeps
<1>9. CopiesKeep'
  <2>1. Keeps(cache[x])
    BY <1>1 DEF CopiesKeep
  <2>2. \A y \in Proc : y \in Server => y = x
    BY <1>1, OnlyCopy
  <2>3. QED
    BY <1>1, <1>2, <1>5, <2>1, <2>2, LeaveFacts DEF CopiesKeep, Keeps
<1>10. QED
  BY <1>1, <1>7, <1>8, <1>9, LeaveFacts

LEMMA FaultPreserves ==
  ASSUME ConstantsAssumption, NoStaleCopy, IInv, NEW x \in Proc, Fault(x)
  PROVE  IInv'
<1> USE DEF IInv
<1>1. /\ pc[x] \in {"start", "save", "refresh", "answer"} /\ Leave(x)
      /\ UNCHANGED <<table, cache, clock, promised, removed>>
  BY DEF Fault
<1>2. TypeOK'
  BY <1>1, LeaveFacts DEF TypeOK
<1>3. Keeps(table)' /\ CopiesKeep'
  BY <1>1, LeaveFacts DEF CopiesKeep, Keeps
<1>4. QED
  BY <1>1, <1>2, <1>3, LeaveFacts

(* A process may also stop while it is idle: then another one may be       *)
(* inside a request, but only if both are commands.                        *)
LEMMA StopPreserves ==
  ASSUME ConstantsAssumption, NoStaleCopy, IInv, NEW x \in Proc, Stop(x)
  PROVE  IInv'
<1> USE DEF IInv
<1>1. /\ pc' = [pc EXCEPT ![x] = "idle"] /\ req' = [req EXCEPT ![x] = NoRequest]
      /\ UNCHANGED <<clock, promised, removed>>
  BY DEF Stop, Leave
<1>2. CASE x \in Server
  <2>1. Proc = {x}
    BY <1>2 DEF NoStaleCopy
  <2>2. table' = Opened(table) /\ cache' = [cache EXCEPT ![x] = table']
    BY <1>2 DEF Stop
  <2>3. table' \in Packages /\ Keeps(table')
    BY <2>2, OpenedFacts, OpenedKeeps DEF TypeOK
  <2>4. TypeOK'
    BY <1>1, <2>2, <2>3 DEF TypeOK
  <2>5. Exclusive' /\ InProgress' /\ Written'
    BY <1>1, <2>1 DEF Exclusive, InProgress, Written, TypeOK
  <2>6. Keeps(table)' /\ CopiesKeep'
    BY <1>1, <2>1, <2>2, <2>3 DEF Keeps, CopiesKeep, TypeOK
  <2>7. QED
    BY <2>4, <2>5, <2>6
<1>3. CASE x \notin Server
  <2>1. UNCHANGED <<table, cache>>
    BY <1>3 DEF Stop
  <2>2. TypeOK'
    BY <1>1, <2>1 DEF TypeOK
  <2>3. \A y \in Proc : pc'[y] # "idle" => y # x /\ pc'[y] = pc[y] /\ req'[y] = req[y]
    BY <1>1 DEF TypeOK
  <2>4. Exclusive'
    BY <2>3 DEF Exclusive
  <2>5. InProgress'
    BY <1>1, <2>3 DEF InProgress
  <2>6. Written'
    BY <1>1, <2>1 DEF Written, TypeOK, Wrote
  <2>7. Keeps(table)' /\ CopiesKeep'
    BY <1>1, <2>1 DEF Keeps, CopiesKeep, TypeOK
  <2>8. QED
    BY <2>2, <2>4, <2>5, <2>6, <2>7
<1>4. QED
  BY <1>2, <1>3

LEMMA NotInstalledPreserves ==
  ASSUME ConstantsAssumption, NoStaleCopy, IInv, NEW x \in Proc, NotInstalled(x)
  PROVE  IInv'
<1> USE DEF IInv
<1>1. /\ pc[x] = "change" /\ Leave(x)
      /\ UNCHANGED <<table, cache, clock, promised, removed>>
  BY DEF NotInstalled
<1>2. TypeOK'
  BY <1>1, LeaveFacts DEF TypeOK
<1>3. Keeps(table)' /\ CopiesKeep'
  BY <1>1, LeaveFacts DEF CopiesKeep, Keeps
<1>4. QED
  BY <1>1, <1>2, <1>3, LeaveFacts

(* A refresh for another request finds no process inside one. *)
LEMMA ReloadPreserves ==
  ASSUME ConstantsAssumption, NoStaleCopy, IInv, NEW x \in Proc, Reload(x)
  PROVE  IInv'
<1> USE DEF IInv
<1>1. /\ \A y \in Proc : pc[y] = "idle"
      /\ x \in Server
      /\ table' = Opened(table) /\ cache' = [cache EXCEPT ![x] = table']
      /\ UNCHANGED <<pc, req, clock, promised, removed>>
  BY DEF Reload, NoStaleCopy
<1>2. table' \in Packages /\ Keeps(table')
  BY <1>1, OpenedFacts, OpenedKeeps DEF TypeOK
<1>3. TypeOK'
  BY <1>1, <1>2 DEF TypeOK
<1>4. Exclusive' /\ InProgress' /\ Written'
  BY <1>1 DEF Exclusive, InProgress, Written
<1>5. Keeps(table)'
  BY <1>1, <1>2 DEF Keeps
<1>6. CopiesKeep'
  BY <1>1, <1>2 DEF CopiesKeep, Keeps, TypeOK
<1>7. QED
  BY <1>3, <1>4, <1>5, <1>6

-----------------------------------------------------------------------------
LEMMA NextIInv ==
  ASSUME ConstantsAssumption, NoStaleCopy
  PROVE  IInv /\ [Next]_vars => IInv'
<1> SUFFICES ASSUME IInv, [Next]_vars PROVE IInv'
  OBVIOUS
<1>1. CASE UNCHANGED vars
  BY <1>1 DEF vars, IInv, TypeOK, Exclusive, InProgress, Keeps, CopiesKeep, Written, Wrote
<1>2. ASSUME NEW x \in Proc, Begin(x) PROVE IInv'
  BY <1>2, BeginPreserves
<1>3. ASSUME NEW x \in Proc, Start(x) PROVE IInv'
  BY <1>3, StartPreserves
<1>4. ASSUME NEW x \in Proc, Change(x) PROVE IInv'
  BY <1>4, ChangePreserves
<1>5. ASSUME NEW x \in Proc, NotInstalled(x) PROVE IInv'
  BY <1>5, NotInstalledPreserves
<1>6. ASSUME NEW x \in Proc, Save(x) PROVE IInv'
  BY <1>6, SavePreserves
<1>7. ASSUME NEW x \in Proc, Refresh(x) PROVE IInv'
  BY <1>7, RefreshPreserves
<1>8. ASSUME NEW x \in Proc, Answer(x) PROVE IInv'
  BY <1>8, AnswerPreserves
<1>9. ASSUME NEW x \in Proc, Fault(x) PROVE IInv'
  BY <1>9, FaultPreserves
<1>10. ASSUME NEW x \in Proc, Stop(x) PROVE IInv'
  BY <1>10, StopPreserves
<1>11. ASSUME NEW x \in Proc, Reload(x) PROVE IInv'
  BY <1>11, ReloadPreserves
<1>12. QED
  BY <1>1, <1>2, <1>3, <1>4, <1>5, <1>6, <1>7, <1>8, <1>9, <1>10, <1>11 DEF Next, Work

(* install_package and update_package: while no process keeps a copy that  *)
(* another one's write has made stale, an answered install stays in the    *)
(* table until someone asks to change that package, through SQLite errors, *)
(* restarts and imports of the legacy file.                                *)
THEOREM InstalledHolds ==
  ASSUME NoStaleCopy
  PROVE  Spec => []InstalledStays
<1>1. IInv => InstalledStays
  BY DEF IInv, Keeps, InstalledStays
<1>2. IInv /\ [Next]_vars => IInv'
  BY NextIInv, ConstantsAssumption
<1>3. QED
  BY InitIInv, <1>1, <1>2, PTL DEF Spec

(* uninstall_package: under the same assumption, a package that is not in  *)
(* the legacy file and whose removal was answered stays out of the table   *)
(* until someone asks to install it.                                       *)
THEOREM RemovedHolds ==
  ASSUME NoStaleCopy
  PROVE  Spec => []RemovedStays
<1>1. IInv => RemovedStays
  BY DEF IInv, TypeOK, Keeps, RemovedStays
<1>2. IInv /\ [Next]_vars => IInv'
  BY NextIInv, ConstantsAssumption
<1>3. QED
  BY InitIInv, <1>1, <1>2, PTL DEF Spec

-----------------------------------------------------------------------------
(* Types need no such assumption: any number of processes, stale copies    *)
(* and all.                                                                *)
Types ==
  /\ TypeOK
  /\ \A x \in Proc : pc[x] # "idle" => req[x] \in Request

LEMMA InitTypes == Init => Types
<1>1. Init => IInv
  BY InitIInv
<1>2. QED
  BY <1>1 DEF Init, IInv, Types

LEMMA NextTypes == Types /\ [Next]_vars => Types'
<1> SUFFICES ASSUME Types, [Next]_vars PROVE Types'
  OBVIOUS
<1> USE DEF Types
<1>1. CASE UNCHANGED vars
  BY <1>1 DEF vars, TypeOK
<1>2. 0 \in Version /\ Opened(table) \in Packages
  BY ConstantsAssumption, OpenedFacts DEF TypeOK, Version
<1>3. ASSUME NEW x \in Proc, Begin(x) PROVE Types'
  <2>1. PICK q \in [kind : {"install", "uninstall"}, pkg : Package, at : {clock + 1}] :
          /\ req' = [req EXCEPT ![x] = q]
          /\ promised' = [promised EXCEPT ![q.pkg] = 0]
          /\ removed' = removed \ {q.pkg}
    BY <1>3 DEF Begin
  <2>2. clock' \in Version /\ clock' = clock + 1
    BY <1>3, ConstantsAssumption DEF Begin, TypeOK, Version
  <2>3. q \in Request
    BY <2>2 DEF Request
  <2>4. promised' \in Packages
    BY <1>2, <2>1 DEF TypeOK, Packages
  <2>5. QED
    BY <1>3, <2>1, <2>2, <2>3, <2>4 DEF Begin, TypeOK
<1>4. ASSUME NEW x \in Proc, Start(x) \/ Refresh(x) \/ Reload(x) PROVE Types'
  BY <1>2, <1>4 DEF Start, Refresh, Reload, TypeOK
<1>5. ASSUME NEW x \in Proc, Change(x) PROVE Types'
  <2>1. /\ pc[x] = "change" /\ pc' = [pc EXCEPT ![x] = "save"]
        /\ cache' = [cache EXCEPT ![x][req[x].pkg] =
                       IF req[x].kind = "install" THEN req[x].at ELSE 0]
        /\ UNCHANGED <<table, req, clock, promised, removed>>
    BY <1>5 DEF Change
  <2>2. req[x].at \in Version /\ req[x].pkg \in Package
    BY <2>1 DEF Request
  <2>3. cache' \in [Proc -> Packages]
    BY <1>2, <2>1, <2>2 DEF TypeOK, Packages
  <2>4. QED
    BY <2>1, <2>3 DEF TypeOK
<1>6. ASSUME NEW x \in Proc, Save(x) PROVE Types'
  BY <1>6 DEF Save, TypeOK
<1>7. ASSUME NEW x \in Proc, NotInstalled(x) \/ Fault(x) PROVE Types'
  BY <1>7 DEF NotInstalled, Fault, Leave, TypeOK
<1>8. ASSUME NEW x \in Proc, Answer(x) PROVE Types'
  <2>1. /\ pc[x] = "answer" /\ table' = Opened(table) /\ Leave(x)
        /\ UNCHANGED <<cache, clock>>
    BY <1>8 DEF Answer
  <2>2. req[x].at \in Version /\ req[x].pkg \in Package
    BY <2>1 DEF Request
  <2>3. promised' \in Packages /\ removed' \subseteq Package
    BY <1>8, <2>2 DEF Answer, TypeOK, Packages
  <2>4. QED
    BY <1>2, <2>1, <2>3 DEF Leave, TypeOK
<1>9. ASSUME NEW x \in Proc, Stop(x) PROVE Types'
  BY <1>2, <1>9 DEF Stop, Leave, TypeOK
<1>10. QED
  BY <1>1, <1>3, <1>4, <1>5, <1>6, <1>7, <1>8, <1>9 DEF Next, Work

(* Every variable keeps its type, however processes overlap and whatever   *)
(* copy one writes over another's.                                         *)
THEOREM TypeCorrect == Spec => []TypeOK
<1>1. Types => TypeOK
  BY DEF Types
<1>2. QED
  BY InitTypes, NextTypes, <1>1, PTL DEF Spec

-----------------------------------------------------------------------------
(* The server alone.  From the end of a refresh until the next change its  *)
(* copy is the table, and opening another connection changes neither.      *)
Current ==
  only \in Server /\ ~faulty =>
    /\ pc[only] # "start"
    /\ pc[only] \in {"idle", "change", "answer"} => cache[only] = table
    /\ pc[only] = "answer" => Opened(table) = table

ServerInv == Types /\ only \in Proc /\ Current

(* What an opened table holds is not imported once more. *)
LEMMA OpenedTwice == \A rows : Opened(Opened(rows)) = Opened(rows)
  BY DEF Opened

LEMMA MCNextServerInv ==
  ServerInv /\ [MCNext]_<<vars, only, faulty>> => ServerInv'
<1> SUFFICES ASSUME ServerInv, [MCNext]_<<vars, only, faulty>> PROVE ServerInv'
  OBVIOUS
<1>1. CASE UNCHANGED <<vars, only, faulty>>
  BY <1>1 DEF vars, ServerInv, Types, TypeOK, Current
<1>2. CASE MCNext
  <2>1. UNCHANGED <<only, faulty>> /\ only \in Proc /\ Next
    BY <1>2 DEF MCNext, ServerInv, Next
  <2>2. Types'
    BY <2>1, NextTypes DEF ServerInv
  <2>3. ASSUME only \in Server, ~faulty, Work(only)
        PROVE  /\ pc'[only] # "start"
               /\ pc'[only] \in {"idle", "change", "answer"} => cache'[only] = table'
               /\ pc'[only] = "answer" => Opened(table') = table'
    <3>1. /\ pc[only] # "start"
          /\ pc[only] \in {"idle", "change", "answer"} => cache[only] = table
          /\ pc[only] = "answer" => Opened(table) = table
      BY <2>3 DEF ServerInv, Current
    <3>2. only \in DOMAIN pc /\ only \in DOMAIN cache
      BY <2>1 DEF ServerInv, Types, TypeOK
    <3>3. CASE Begin(only)
      BY <2>3, <3>1, <3>2, <3>3 DEF Begin
    <3>4. CASE Change(only)
      BY <3>2, <3>4 DEF Change
    <3>5. CASE NotInstalled(only)
      BY <3>1, <3>2, <3>5 DEF NotInstalled, Leave
    <3>6. CASE Save(only)
      BY <3>2, <3>6 DEF Save
    <3>7. CASE Refresh(only)
      BY <3>2, <3>7, OpenedTwice DEF Refresh
    <3>8. CASE Answer(only)
      BY <3>1, <3>2, <3>8 DEF Answer, Leave
    <3>9. CASE Stop(only)
      BY <2>3, <3>2, <3>9 DEF Stop, Leave
    <3>10. CASE Reload(only)
      BY <3>1, <3>2, <3>10, OpenedTwice DEF Reload
    <3>11. QED
      BY <2>3, <3>1, <3>3, <3>4, <3>5, <3>6, <3>7, <3>8, <3>9, <3>10 DEF Work, Start
  <2>4. Current'
    BY <1>2, <2>1, <2>3 DEF Current, MCNext
  <2>5. QED
    BY <2>1, <2>2, <2>4 DEF ServerInv
<1>3. QED
  BY <1>1, <1>2

(* _save_packages and refresh: a server that alone uses the database, and  *)
(* none of whose statements fails, answers between requests from a copy    *)
(* that is the table, wherever it is stopped and started again.            *)
THEOREM ServerHolds == MCSpec => []ServerIsCurrent
<1>1. MCInit => ServerInv
  BY InitTypes DEF MCInit, Init, ServerInv, Current
<1>2. ServerInv => ServerIsCurrent
  BY DEF ServerInv, Current, ServerIsCurrent
<1>3. QED
  BY <1>1, <1>2, MCNextServerInv, PTL DEF MCSpec
=============================================================================
