---------------------------- MODULE PackageStore ----------------------------
(***************************************************************************)
(* Installed packages, as the API server and the iotron command line keep  *)
(* them: iotron/service.py over iotron/storage.py, in several processes.   *)
(*                                                                         *)
(* Each process has an IoTronService with its own copy of the table. A     *)
(* command-line process loads it when it starts and ends after one         *)
(* command; the server loads it when it starts, after every save of its    *)
(* own and whenever a request about something else refreshes, never        *)
(* because another process wrote.  A save replaces the table by the copy.  *)
(* storage._DB_LOCK does not reach across processes, so only single        *)
(* transactions are atomic.                                                *)
(*                                                                         *)
(* Whenever a connection is opened and the table is empty, the packages of *)
(* the file vendor/installed_packages.db, if there is one, are imported.   *)
(***************************************************************************)
EXTENDS Naturals

CONSTANTS
  Package,      \* package names
  Proc,         \* processes
  Server,       \* the long-lived ones among them
  Legacy,       \* packages in the legacy file
  Overlap,      \* may requests of different processes overlap?
  Faults,       \* may SQLite raise OperationalError?
  MaxClock      \* bound: how many requests are made

ASSUME ConstantsAssumption ==
  /\ Server \subseteq Proc
  /\ Legacy \subseteq Package
  /\ Overlap \in BOOLEAN /\ Faults \in BOOLEAN
  /\ MaxClock \in Nat \ {0}

VARIABLES
  table,      \* the rows of table packages
  cache,      \* _packages of each process
  pc,         \* the next step of each process
  req,        \* the request it serves
  clock,      \* requests made so far: the source of installed_at
  promised,   \* history: what the last answered install or update wrote
  removed     \* history: packages whose removal was answered

vars == <<table, cache, pc, req, clock, promised, removed>>

-----------------------------------------------------------------------------
(* A package is absent (0) or installed at some time; the legacy file's    *)
(* packages come from before the first request.                            *)
Version == 0 .. MaxClock
Packages == [Package -> Version]
Nothing == [p \in Package |-> 0]
LegacyPackages == [p \in Package |-> IF p \in Legacy THEN 1 ELSE 0]

NoRequest == [kind |-> "none"]
Request == [kind : {"install", "uninstall"}, pkg : Package, at : Version]

(* Mutant: the object around the legacy list is stored, not its list. *)
OpenedWrapped(rows) == IF rows = Nothing THEN [packages |-> LegacyPackages] ELSE rows

(* _bootstrap_from_legacy_json, run by _migrate on every connection. *)
Opened(rows) == IF rows = Nothing THEN LegacyPackages ELSE rows

Init ==
  /\ \E S \in SUBSET Package :
       table = Opened([p \in Package |-> IF p \in S THEN 1 ELSE 0])
  /\ cache = [x \in Proc |-> table]
  /\ pc = [x \in Proc |-> "idle"]
  /\ req = [x \in Proc |-> NoRequest]
  /\ clock = 1
  /\ promised = Nothing
  /\ removed = {}

(* A request is made: to the server, which uses the copy it has, or by     *)
(* starting a command-line process.  From now on the package's earlier     *)
(* state is no longer promised.                                            *)
Begin(x) ==
  /\ pc[x] = "idle"
  /\ Overlap \/ \A y \in Proc : pc[y] = "idle"
  /\ clock < MaxClock
  /\ clock' = clock + 1
  /\ \E q \in [kind : {"install", "uninstall"}, pkg : Package, at : {clock + 1}] :
       /\ req' = [req EXCEPT ![x] = q]
       /\ promised' = [promised EXCEPT ![q.pkg] = 0]
       /\ removed' = removed \ {q.pkg}
  /\ pc' = [pc EXCEPT ![x] = IF x \in Server THEN "change" ELSE "start"]
  /\ UNCHANGED <<table, cache>>

(* Mutant: a command starts with an empty copy. *)
StartEmpty(x) ==
  /\ pc[x] = "start"
  /\ table' = Opened(table)
  /\ cache' = [cache EXCEPT ![x] = Nothing]
  /\ pc' = [pc EXCEPT ![x] = "change"]
  /\ UNCHANGED <<req, clock, promised, removed>>

(* IoTronService.__init__ of a command-line process. *)
Start(x) ==
  /\ pc[x] = "start"
  /\ table' = Opened(table)
  /\ cache' = [cache EXCEPT ![x] = Opened(table)]
  /\ pc' = [pc EXCEPT ![x] = "change"]
  /\ UNCHANGED <<req, clock, promised, removed>>

(* install_package and update_package insert or update the package in the  *)
(* copy; uninstall_package filters it out.                                 *)
Change(x) ==
  LET q == req[x] IN
  /\ pc[x] = "change"
  /\ q.kind = "uninstall" => cache[x][q.pkg] # 0
  /\ cache' = [cache EXCEPT ![x][q.pkg] = IF q.kind = "install" THEN q.at ELSE 0]
  /\ pc' = [pc EXCEPT ![x] = "save"]
  /\ UNCHANGED <<table, req, clock, promised, removed>>

Leave(x) ==
  /\ pc' = [pc EXCEPT ![x] = "idle"]
  /\ req' = [req EXCEPT ![x] = NoRequest]

(* uninstall_package of a package the copy does not hold: nothing is       *)
(* saved and the answer is "removed": false.                               *)
NotInstalled(x) ==
  /\ pc[x] = "change"
  /\ req[x].kind = "uninstall"
  /\ cache[x][req[x].pkg] = 0
  /\ Leave(x)
  /\ UNCHANGED <<table, cache, clock, promised, removed>>

(* Mutant: rows are inserted or replaced, none are deleted. *)
SaveMerging(x) ==
  /\ pc[x] = "save"
  /\ table' = [p \in Package |-> IF cache[x][p] = 0 THEN table[p] ELSE cache[x][p]]
  /\ pc' = [pc EXCEPT ![x] = "refresh"]
  /\ UNCHANGED <<cache, req, clock, promised, removed>>

(* save_packages replaces the table by the copy, in one transaction. *)
Save(x) ==
  /\ pc[x] = "save"
  /\ table' = cache[x]
  /\ pc' = [pc EXCEPT ![x] = "refresh"]
  /\ UNCHANGED <<cache, req, clock, promised, removed>>

(* Mutant: the copy is not read back. *)
RefreshSkipped(x) ==
  /\ pc[x] = "refresh"
  /\ table' = Opened(table)
  /\ pc' = [pc EXCEPT ![x] = "answer"]
  /\ UNCHANGED <<cache, req, clock, promised, removed>>

(* refresh() reads it back, over a new connection. *)
Refresh(x) ==
  /\ pc[x] = "refresh"
  /\ table' = Opened(table)
  /\ cache' = [cache EXCEPT ![x] = Opened(table)]
  /\ pc' = [pc EXCEPT ![x] = "answer"]
  /\ UNCHANGED <<req, clock, promised, removed>>

(* _log writes the audit row, over one more connection, and the request is *)
(* answered.                                                               *)
Answer(x) ==
  LET q == req[x] IN
  /\ pc[x] = "answer"
  /\ table' = Opened(table)
  /\ IF q.kind = "install"
     THEN promised' = [promised EXCEPT ![q.pkg] = q.at] /\ UNCHANGED removed
     ELSE removed' = removed \cup {q.pkg} /\ UNCHANGED promised
  /\ Leave(x)
  /\ UNCHANGED <<cache, clock>>

(* A statement raises, for instance because another process holds the file *)
(* longer than the busy timeout: nothing is committed, the request fails,  *)
(* and the copy keeps its changes.                                         *)
Fault(x) ==
  /\ Faults
  /\ pc[x] \in {"start", "save", "refresh", "answer"}
  /\ Leave(x)
  /\ UNCHANGED <<table, cache, clock, promised, removed>>

(* A process stops anywhere.  The server is started again. *)
Stop(x) ==
  /\ Leave(x)
  /\ IF x \in Server
     THEN /\ table' = Opened(table)
          /\ cache' = [cache EXCEPT ![x] = Opened(table)]
     ELSE UNCHANGED <<table, cache>>
  /\ UNCHANGED <<clock, promised, removed>>

(* A request of the server that is about no package, a change of settings  *)
(* or of the runtime state, refreshes: the copy is read back with the      *)
(* rest.                                                                   *)
Reload(x) ==
  /\ x \in Server
  /\ Overlap \/ \A y \in Proc : pc[y] = "idle"
  /\ table' = Opened(table)
  /\ cache' = [cache EXCEPT ![x] = Opened(table)]
  /\ UNCHANGED <<pc, req, clock, promised, removed>>

(* What a process does if no statement fails. *)
Work(x) ==
  \/ Begin(x) \/ Start(x) \/ Change(x) \/ NotInstalled(x) \/ Save(x)
  \/ Refresh(x) \/ Answer(x) \/ Reload(x) \/ Stop(x)

Next == \E x \in Proc : Work(x) \/ Fault(x)

Spec == Init /\ [][Next]_vars

-----------------------------------------------------------------------------
(* Every variable has its type. *)
TypeOK ==
  /\ table \in Packages
  /\ cache \in [Proc -> Packages]
  /\ pc \in [Proc -> {"idle", "start", "change", "save", "refresh", "answer"}]
  /\ req \in [Proc -> Request \cup {NoRequest}]
  /\ clock \in Version
  /\ promised \in Packages
  /\ removed \subseteq Package

(* An answered install or update stays in the table, with its time, until  *)
(* someone asks to change that package.                                    *)
InstalledStays == \A p \in Package : promised[p] # 0 => table[p] = promised[p]

(* A package whose removal was answered stays out of the table until       *)
(* someone asks to install it, unless it is in the legacy file.            *)
RemovedStays == \A p \in removed \ Legacy : table[p] = 0
=============================================================================
