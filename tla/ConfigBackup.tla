---------------------------- MODULE ConfigBackup ----------------------------
(***************************************************************************)
(* The project configuration and the backups of the API server:            *)
(* config.json, which iotron/storage.py rewrites in place, the server's    *)
(* copy of it in iotron/service.py, and the directories that               *)
(* iotron/operations.py copies config.json and the database file to and    *)
(* from.                                                                   *)
(*                                                                         *)
(* A file is truncated before it is written: whoever looks in between, or  *)
(* after the process stopped in between, finds it empty, and the next load *)
(* of an empty config.json replaces it by the defaults.  Every request     *)
(* that saves anything, settings or not, reads config.json back into the   *)
(* copy (refresh).  A backup is named by the second it was begun in;       *)
(* another one in the same second goes to the same directory.              *)
(*                                                                         *)
(* The database is a set of rows.  A transaction is first in the WAL file; *)
(* closing the connection checkpoints it into the database file, which has *)
(* two halves that are written, and copied, one after the other.  A copy   *)
(* taken across a checkpoint is torn.  What SQLite reads from a torn file  *)
(* is left out: nothing is promised of one.                                *)
(*                                                                         *)
(* Requests overlap, except with a restore: what SQLite makes of a file    *)
(* that is overwritten under an open connection is left out.               *)
(***************************************************************************)
EXTENDS Naturals

CONSTANTS
  Handler,      \* threads that serve requests
  Setting,      \* boards, protocols, networks and features to be enabled
  Board,        \* those of which one at most is selected
  MaxOverlaps,  \* bound: how many requests arrive while others are served
  Faults,       \* may SQLite raise OperationalError?
  MaxRequests,  \* bound: how many requests are made
  MaxSecond     \* bound on the clock

ASSUME ConstantsAssumption ==
  /\ Board \subseteq Setting
  /\ Faults \in BOOLEAN
  /\ MaxOverlaps \in Nat /\ MaxRequests \in Nat /\ MaxSecond \in Nat

VARIABLES
  file,      \* config.json
  config,    \* _config, the server's copy
  db,        \* the database file
  wal,       \* rows that are in the WAL file
  backups,   \* the directories under vendor/backups, by their second
  second,    \* the clock, when it was last looked at
  made,      \* requests made so far
  overlaps,  \* how many of them arrived while others were served
  pc,        \* the next step of each handler
  req,       \* the request it serves
  clash,     \* history: did a change of settings meet a refresh or another?
  kept,      \* history: settings that answered requests promise
  logged,    \* history: rows that answered requests promise
  gone,      \* history: rows that restores took away
  owed,      \* history: what the answer of each handler will promise
  good       \* history: what each answered backup promises

vars == <<file, config, db, wal, backups, second, made, overlaps, pc, req,
          clash, kept, logged, gone, owed, good>>

-----------------------------------------------------------------------------
(* config.json holds a set of settings, unless it is empty. *)
Empty == [full |-> FALSE, set |-> {}]
Text(S) == [full |-> TRUE, set |-> S]
NoFile == [full |-> FALSE, set |-> {0}]
ConfigFile == {Empty} \cup {Text(S) : S \in SUBSET Setting}

(* The rows of a request: what it is about, and the audit row.  The halves *)
(* of a database file hold the same rows, except during a checkpoint; one  *)
(* that is not there yet has the mark Missing.                             *)
Requests == 1 .. MaxRequests
Row == Requests \X {"data", "audit"}
Missing == {<<0, "data">>}
DbFile == [head : SUBSET (Row \cup Missing), rest : SUBSET (Row \cup Missing)]
EmptyDb == [head |-> {}, rest |-> {}]
NoDb == [head |-> Missing, rest |-> Missing]
Whole(d) == d.head = d.rest /\ d # NoDb
Live == ((db.head \cap db.rest) \cup wal) \ Missing

(* A directory of vendor/backups. *)
Directory == [config : ConfigFile \cup {NoFile}, db : DbFile, exists : BOOLEAN]
Absent == [config |-> NoFile, db |-> NoDb, exists |-> FALSE]
EmptyDir == [config |-> NoFile, db |-> NoDb, exists |-> TRUE]

(* Settings, and rows if the database file is whole. *)
Promise == [config : SUBSET Setting, rows : SUBSET Row, whole : BOOLEAN]
Nothing == [config |-> {}, rows |-> {}, whole |-> FALSE]

(* "device" is any request that commits rows and refreshes: one about      *)
(* devices, telemetry or packages.  A request has a number, the text that  *)
(* its handler has read or is about to write, and, if it is about one, the *)
(* second of a backup.                                                     *)
NoRequest == [op |-> "none"]
NoSetting == "none"
Asked(n, begun, of, text) ==
  [op : {"enable"}, setting : Setting, id : {0}, number : n, text : text]
  \cup [op : {"device"}, setting : {NoSetting}, id : {0}, number : n, text : text]
  \cup [op : {"backup"}, setting : {NoSetting}, id : begun, number : n, text : text]
  \cup [op : {"restore"}, setting : {NoSetting}, id : of, number : n, text : text]
Request == Asked(Requests, 0 .. MaxSecond, 0 .. MaxSecond, ConfigFile)

Steps == {"idle", "change", "save", "truncate", "write", "load", "parse", "reset",
          "refill", "assign", "commit", "log", "close", "close_rest", "mkdir",
          "copy_config", "copy_db", "copy_rest", "find", "truncate_db", "write_db"}

(* Selecting a board replaces the one selected before. *)
Replaced(s) == IF s \in Board THEN Board \ {s} ELSE {}
Chosen(S, s) == (S \ Replaced(s)) \cup {s}

Idle == \A h \in Handler : pc[h] = "idle"
Serving(op) == \E h \in Handler : req[h].op = op

(* From the change of the copy until config.json has it; from the first    *)
(* look at config.json until the copy has it.                              *)
Changing(h) == pc[h] \in {"save", "truncate", "write"}
Refreshing(h) == pc[h] \in {"parse", "reset", "refill", "assign"}

Init ==
  /\ file = Text({}) /\ config = {}
  /\ db = EmptyDb /\ wal = {}
  /\ backups = [s \in 0 .. MaxSecond |-> Absent]
  /\ second = 0 /\ made = 0 /\ overlaps = 0
  /\ pc = [h \in Handler |-> "idle"]
  /\ req = [h \in Handler |-> NoRequest]
  /\ clash = FALSE
  /\ kept = {} /\ logged = {} /\ gone = {}
  /\ owed = [h \in Handler |-> Nothing]
  /\ good = [s \in 0 .. MaxSecond |-> Nothing]

disk == <<file, db, wal, backups>>
count == <<second, made, overlaps>>
settings == <<clash, kept>>
promises == <<clash, kept, logged, gone, owed, good>>

Goto(h, step) == pc' = [pc EXCEPT ![h] = step] /\ UNCHANGED req
Keep(h, text, step) ==
  /\ pc' = [pc EXCEPT ![h] = step]
  /\ req' = [req EXCEPT ![h].text = text]
End(h) ==
  /\ pc' = [pc EXCEPT ![h] = "idle"]
  /\ req' = [req EXCEPT ![h] = NoRequest]
  /\ owed' = [owed EXCEPT ![h] = Nothing]

-----------------------------------------------------------------------------
(* A request arrives.  A backup will promise what is promised now. *)
Receive(h) ==
  /\ pc[h] = "idle"
  /\ made < MaxRequests
  /\ made' = made + 1
  /\ overlaps' = IF Idle THEN overlaps ELSE overlaps + 1
  /\ overlaps' <= MaxOverlaps
  /\ ~Serving("restore")
  /\ \E q \in Asked({made + 1}, {0}, 0 .. second, {Empty}) :
       /\ q.op = "restore" => Idle
       /\ req' = [req EXCEPT ![h] = q]
       /\ owed' = IF q.op = "backup"
                  THEN [owed EXCEPT ![h] = [config |-> kept, rows |-> logged,
                                            whole |-> TRUE]]
                  ELSE owed
       /\ pc' = [pc EXCEPT ![h] = CASE q.op = "enable" -> "change"
                                    [] q.op = "device" -> "commit"
                                    [] q.op = "backup" -> "mkdir"
                                    [] q.op = "restore" -> "find"]
  /\ UNCHANGED <<disk, config, second, settings, logged, gone, good>>

(* A change of settings that meets a refresh or another change may be lost *)
(* and may lose every other setting: none is promised from then on.        *)
Meets(met) ==
  /\ clash' = (clash \/ met)
  /\ kept' = IF clash' THEN {} ELSE kept
  /\ owed' = [k \in Handler |-> IF clash' THEN [owed[k] EXCEPT !.config = {}] ELSE owed[k]]

(* enable_protocol, enable_network, select_board and                       *)
(* install_web_dashboard change the copy.  The answer will promise the     *)
(* setting, and nobody promises a board it replaces any more.              *)
Enable(h) ==
  LET s == req[h].setting IN
  /\ pc[h] = "change"
  /\ config' = Chosen(config, s)
  /\ clash' = (clash \/ \E k \in Handler \ {h} : Changing(k) \/ Refreshing(k))
  /\ kept' = IF clash' THEN {} ELSE kept \ Replaced(s)
  /\ owed' = [k \in Handler |->
       [owed[k] EXCEPT !.config = IF clash' THEN {}
                                  ELSE IF k = h THEN {s} ELSE @ \ Replaced(s)]]
  /\ Goto(h, "save")
  /\ UNCHANGED <<disk, count, logged, gone, good>>

(* The first two do so only if the copy lacks the setting: otherwise they  *)
(* answer without saving anything, be it still to be written by another.   *)
AlreadyEnabled(h) ==
  LET s == req[h].setting IN
  /\ pc[h] = "change"
  /\ s \in config \ Board
  /\ kept' = IF clash \/ \E k \in Handler : Changing(k) THEN kept ELSE kept \cup {s}
  /\ End(h)
  /\ UNCHANGED <<disk, config, count, clash, logged, gone, good>>

(* save_config: the text of the whole copy... *)
Save(h) ==
  /\ pc[h] = "save"
  /\ Keep(h, Text(config), "truncate")
  /\ UNCHANGED <<disk, config, count, promises>>

(* ...write_text opens the file, which empties it... *)
Truncate(h) ==
  /\ pc[h] = "truncate"
  /\ file' = Empty
  /\ Goto(h, "write")
  /\ UNCHANGED <<config, db, wal, backups, count, promises>>

(* ...and writes it.  A restore goes on with the database. *)
Write(h) ==
  /\ pc[h] = "write"
  /\ file' = req[h].text
  /\ Keep(h, Empty, IF req[h].op = "restore" THEN "truncate_db" ELSE "load")
  /\ UNCHANGED <<config, db, wal, backups, count, promises>>

(* Mutant: a restore keeps the server's copy. *)
LoadUnlessRestored(h) ==
  /\ pc[h] = "load"
  /\ Meets(\E k \in Handler \ {h} : Changing(k))
  /\ Goto(h, IF req[h].op = "restore" THEN "log"
             ELSE IF file.full THEN "parse" ELSE "reset")
  /\ UNCHANGED <<disk, config, count, logged, gone, good>>

(* refresh: _read_json reads the file once to see whether it is empty...   *)
Load(h) ==
  /\ pc[h] = "load"
  /\ Meets(\E k \in Handler \ {h} : Changing(k))
  /\ Goto(h, IF file.full THEN "parse" ELSE "reset")
  /\ UNCHANGED <<disk, config, count, logged, gone, good>>

(* ...and once more to parse it, which raises ValueError if it is by now.  *)
Parse(h) ==
  /\ pc[h] = "parse"
  /\ file.full
  /\ Keep(h, file, "assign")
  /\ UNCHANGED <<disk, config, count, promises>>

ParseError(h) ==
  /\ pc[h] = "parse"
  /\ ~file.full
  /\ End(h)
  /\ UNCHANGED <<disk, config, count, settings, logged, gone, good>>

(* If it was empty, the defaults are written, which empties it once more...*)
Reset(h) ==
  /\ pc[h] = "reset"
  /\ file' = Empty
  /\ Goto(h, "refill")
  /\ UNCHANGED <<config, db, wal, backups, count, promises>>

(* ...and are the result. *)
Refill(h) ==
  /\ pc[h] = "refill"
  /\ file' = Text({})
  /\ Keep(h, Text({}), "assign")
  /\ UNCHANGED <<config, db, wal, backups, count, promises>>

(* The result becomes the server's copy. *)
Assign(h) ==
  /\ pc[h] = "assign"
  /\ config' = req[h].text.set
  /\ Keep(h, Empty, "log")
  /\ UNCHANGED <<disk, count, promises>>

-----------------------------------------------------------------------------
(* A transaction is committed, under storage._DB_LOCK: what the request    *)
(* is about, or its audit row...                                           *)
RowOf(h) == <<req[h].number, IF pc[h] = "commit" THEN "data" ELSE "audit">>

Commit(h) ==
  /\ pc[h] \in {"commit", "log"}
  /\ \A k \in Handler : pc[k] \notin {"close", "close_rest"}
  /\ wal' = wal \cup {RowOf(h)}
  /\ Goto(h, "close")
  /\ UNCHANGED <<file, config, db, backups, count, promises>>

(* ...closing the connection writes it to the database file, one half      *)
(* after the other: a backup that is between the halves gets a torn copy...*)
Checkpoint(h) ==
  /\ pc[h] = "close"
  /\ db' = [db EXCEPT !.head = @ \cup wal]
  /\ owed' = [k \in Handler |->
       IF pc[k] = "copy_rest" THEN [owed[k] EXCEPT !.whole = FALSE] ELSE owed[k]]
  /\ Goto(h, "close_rest")
  /\ UNCHANGED <<file, config, wal, backups, count, settings, logged, gone, good>>

(* ...then the WAL is empty.  After the audit row the request is answered; *)
(* one about devices goes on with the refresh before.                      *)
Finished(h) ==
  LET q == req[h]
      own == {<<q.number, "audit">>} \cup (IF q.op = "device" THEN {<<q.number, "data">>} ELSE {})
  IN
  /\ clash' = (clash /\ q.op # "restore")
  /\ kept' = CASE q.op = "enable" -> kept \cup owed[h].config
               [] q.op = "restore" -> good[q.id].config
               [] OTHER -> kept
  /\ logged' = IF ~Whole(db') THEN {}
               ELSE own \cup (IF q.op # "restore" THEN logged
                              ELSE IF good[q.id].whole THEN good[q.id].rows ELSE {})
  /\ good' = IF q.op = "backup" THEN [good EXCEPT ![q.id] = owed[h]] ELSE good
  /\ End(h)

(* Mutant: the WAL is not reset. *)
CloseKeepingWal(h) ==
  /\ pc[h] = "close_rest"
  /\ db' = [db EXCEPT !.rest = @ \cup wal]
  /\ wal' = wal
  /\ IF <<req[h].number, "audit">> \in wal THEN Finished(h)
     ELSE Goto(h, "load") /\ UNCHANGED <<settings, logged, owed, good>>
  /\ UNCHANGED <<file, config, backups, count, gone>>

Close(h) ==
  /\ pc[h] = "close_rest"
  /\ db' = [db EXCEPT !.rest = @ \cup wal]
  /\ wal' = {}
  /\ IF <<req[h].number, "audit">> \in wal THEN Finished(h)
     ELSE Goto(h, "load") /\ UNCHANGED <<settings, logged, owed, good>>
  /\ UNCHANGED <<file, config, backups, count, gone>>

(* SQLite raises: nothing is committed, but what the request did before    *)
(* stays.                                                                  *)
Fault(h) ==
  /\ Faults
  /\ pc[h] \in {"commit", "log"}
  /\ End(h)
  /\ UNCHANGED <<disk, config, count, settings, logged, gone, good>>

-----------------------------------------------------------------------------
(* create_backup looks at the clock and makes the directory of the second, *)
(* which may be there.  Two backups that write it at the same time promise *)
(* nothing.                                                                *)
Writers(s) == {k \in Handler : /\ req[k].op = "backup" /\ pc[k] # "mkdir"
                               /\ req[k].id = s}

MakeDir(h) ==
  /\ pc[h] = "mkdir"
  /\ \E s \in second .. MaxSecond :
       /\ second' = s
       /\ req' = [req EXCEPT ![h].id = s]
       /\ backups' = IF backups[s].exists THEN backups
                     ELSE [backups EXCEPT ![s] = EmptyDir]
       /\ good' = [good EXCEPT ![s] = Nothing]
       /\ owed' = IF Writers(s) = {} THEN owed
                  ELSE [k \in Handler |-> IF k \in Writers(s) \cup {h} THEN Nothing ELSE owed[k]]
  /\ pc' = [pc EXCEPT ![h] = "copy_config"]
  /\ UNCHANGED <<file, config, db, wal, made, overlaps, settings, logged, gone>>

(* A copy of config.json, empty if it is just being rewritten... *)
CopyConfig(h) ==
  /\ pc[h] = "copy_config"
  /\ backups' = [backups EXCEPT ![req[h].id].config = file]
  /\ owed' = IF file.full THEN owed ELSE [owed EXCEPT ![h].config = {}]
  /\ Goto(h, "copy_db")
  /\ UNCHANGED <<file, config, db, wal, count, settings, logged, gone, good>>

(* Mutant: the database is copied only once. *)
CopyDbOnce(h) ==
  /\ pc[h] = "copy_db"
  /\ IF backups[req[h].id].db # NoDb
     THEN Goto(h, "log") /\ UNCHANGED <<backups, owed>>
     ELSE /\ backups' = [backups EXCEPT ![req[h].id].db = [head |-> db.head, rest |-> Missing]]
          /\ owed' = [owed EXCEPT ![h].whole = @ /\ Whole(db)]
          /\ Goto(h, "copy_rest")
  /\ UNCHANGED <<file, config, db, wal, count, settings, logged, gone, good>>

(* ...and one of the database file, without the WAL and without the lock:  *)
(* the first half...                                                       *)
CopyDb(h) ==
  /\ pc[h] = "copy_db"
  /\ backups' = [backups EXCEPT ![req[h].id].db = [head |-> db.head, rest |-> Missing]]
  /\ owed' = [owed EXCEPT ![h].whole = @ /\ Whole(db)]
  /\ Goto(h, "copy_rest")
  /\ UNCHANGED <<file, config, db, wal, count, settings, logged, gone, good>>

(* ...and the second. *)
CopyRest(h) ==
  /\ pc[h] = "copy_rest"
  /\ backups' = [backups EXCEPT ![req[h].id].db.rest = db.rest]
  /\ Goto(h, "log")
  /\ UNCHANGED <<file, config, db, wal, count, promises>>

(* Mutant: config.json is copied back even if the backup has none. *)
FindUnchecked(h) ==
  LET b == backups[req[h].id] IN
  /\ pc[h] = "find"
  /\ b.exists
  /\ Keep(h, b.config, "truncate")
  /\ kept' = {} /\ logged' = {}
  /\ UNCHANGED <<disk, config, count, clash, gone, owed, good>>

(* restore_backup: the directory must exist.  Each file that is there is   *)
(* copied over the live one, config.json first.                            *)
Find(h) ==
  LET b == backups[req[h].id] IN
  /\ pc[h] = "find"
  /\ b.exists
  /\ IF b.config = NoFile THEN Goto(h, "truncate_db") ELSE Keep(h, b.config, "truncate")
  /\ kept' = {} /\ logged' = {}
  /\ UNCHANGED <<disk, config, count, clash, gone, owed, good>>

NotFound(h) ==
  /\ pc[h] = "find"
  /\ ~backups[req[h].id].exists
  /\ End(h)
  /\ UNCHANGED <<disk, config, count, settings, logged, gone, good>>

(* The rows that the backup has not are gone; a torn one takes none away   *)
(* for certain.                                                            *)
TruncateDb(h) ==
  LET copy == backups[req[h].id].db IN
  /\ pc[h] = "truncate_db"
  /\ IF copy = NoDb THEN Goto(h, "load") /\ UNCHANGED <<db, gone>>
     ELSE /\ db' = EmptyDb
          /\ gone' = IF Whole(copy) THEN (gone \cup Live) \ copy.head ELSE {}
          /\ Goto(h, "write_db")
  /\ UNCHANGED <<file, config, wal, backups, count, settings, logged, owed, good>>

WriteDb(h) ==
  /\ pc[h] = "write_db"
  /\ db' = backups[req[h].id].db
  /\ Goto(h, "load")
  /\ UNCHANGED <<file, config, wal, backups, count, promises>>

-----------------------------------------------------------------------------
(* Mutant: the server starts with the defaults. *)
StopForgetting ==
  /\ pc' = [h \in Handler |-> "idle"]
  /\ req' = [h \in Handler |-> NoRequest]
  /\ owed' = [h \in Handler |-> Nothing]
  /\ file' = Text({}) /\ config' = {}
  /\ db' = [head |-> db.head \cup wal, rest |-> db.rest \cup wal]
  /\ wal' = {}
  /\ clash' = FALSE
  /\ kept' = IF \E h \in Handler : pc[h] = "write" THEN {} ELSE kept
  /\ UNCHANGED <<backups, count, logged, gone, good>>

(* The process stops anywhere and is started again: it loads config.json,  *)
(* and opening the database brings in the WAL.  Stopped between truncation *)
(* and writing, it has lost the settings, and nothing is promised of them. *)
Stop ==
  /\ pc' = [h \in Handler |-> "idle"]
  /\ req' = [h \in Handler |-> NoRequest]
  /\ owed' = [h \in Handler |-> Nothing]
  /\ file' = Text(file.set) /\ config' = file.set
  /\ db' = [head |-> db.head \cup wal, rest |-> db.rest \cup wal]
  /\ wal' = {}
  /\ clash' = FALSE
  /\ kept' = IF \E h \in Handler : pc[h] = "write" THEN {} ELSE kept
  /\ UNCHANGED <<backups, count, logged, gone, good>>

Next ==
  \/ \E h \in Handler :
       \/ Receive(h) \/ Enable(h) \/ AlreadyEnabled(h) \/ Save(h) \/ Truncate(h)
       \/ Write(h) \/ Load(h) \/ Parse(h) \/ ParseError(h) \/ Reset(h) \/ Refill(h)
       \/ Assign(h) \/ Commit(h) \/ Checkpoint(h) \/ Close(h) \/ Fault(h)
       \/ MakeDir(h) \/ CopyConfig(h) \/ CopyDb(h) \/ CopyRest(h) \/ Find(h)
       \/ NotFound(h) \/ TruncateDb(h) \/ WriteDb(h)
  \/ Stop

Spec == Init /\ [][Next]_vars

-----------------------------------------------------------------------------
(* Every variable has its type. *)
TypeOK ==
  /\ file \in ConfigFile /\ config \subseteq Setting
  /\ db \in DbFile /\ wal \subseteq Row
  /\ backups \in [0 .. MaxSecond -> Directory]
  /\ second \in 0 .. MaxSecond /\ made \in 0 .. MaxRequests
  /\ overlaps \in 0 .. MaxOverlaps
  /\ pc \in [Handler -> Steps]
  /\ req \in [Handler -> Request \cup {NoRequest}]
  /\ clash \in BOOLEAN
  /\ kept \subseteq Setting /\ logged \subseteq Row /\ gone \subseteq Row
  /\ owed \in [Handler -> Promise] /\ good \in [0 .. MaxSecond -> Promise]

(* A setting that was answered is in config.json whenever the file is not  *)
(* just being rewritten: through restarts, failed requests, backups, a     *)
(* restore of a backup that promises it, and requests that overlap its     *)
(* change.  It is lost by a stop between truncation and writing, and once  *)
(* a change of settings has met a refresh or another change (clash), until *)
(* the server is started again or a backup restored.                       *)
SettingStays ==
  (\A h \in Handler : pc[h] # "write") => kept \subseteq file.set

(* Between requests the server answers with what config.json says, unless  *)
(* a change of settings has met a refresh or another change.               *)
CopyIsFile == Idle => clash \/ file = Text(config)

(* A backup that was answered, and whose directory no other one wrote, has *)
(* every setting promised when it began, unless it copied config.json just *)
(* while it was rewritten or the setting was replaced meanwhile, and every *)
(* row promised when it began, unless a checkpoint ran while it copied the *)
(* database file, whatever else overlapped it.                             *)
BackupIsComplete ==
  \A s \in 0 .. MaxSecond :
    /\ good[s].config \subseteq backups[s].config.set
    /\ good[s].whole => /\ Whole(backups[s].db)
                        /\ good[s].rows \subseteq backups[s].db.head

(* After a restore the database has every row its backup promises and none *)
(* of those that the backup has not, and so it stays, with the rows of     *)
(* later requests, through restarts and overlapping requests.              *)
RestoreIsExact == logged \subseteq Live /\ gone \cap Live = {}
=============================================================================
