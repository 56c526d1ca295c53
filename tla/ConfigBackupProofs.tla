------------------------- MODULE ConfigBackupProofs -------------------------
(***************************************************************************)
(* Theorems about ConfigBackup, for every number of handlers, requests,    *)
(* overlaps and backups, whatever SQLite refuses and wherever the process  *)
(* stops.                                                                  *)
(***************************************************************************)
EXTENDS ConfigBackup, TLAPS

(* Which steps a handler takes for which request. *)
Refresh == {"load", "parse", "reset", "refill", "assign"}
Closing == {"close", "close_rest"}
Handling ==
  \A h \in Handler :
    \/ req[h] = NoRequest /\ pc[h] = "idle"
    \/ req[h].op = "enable" /\ pc[h] \in {"change", "save", "truncate", "write", "log"}
                                         \cup Refresh \cup Closing
    \/ req[h].op = "device" /\ pc[h] \in {"commit", "log"} \cup Refresh \cup Closing
    \/ req[h].op = "backup" /\ pc[h] \in {"mkdir", "copy_config", "copy_db", "copy_rest",
                                          "log"} \cup Closing
    \/ req[h].op = "restore" /\ pc[h] \in {"find", "truncate", "write", "truncate_db",
                                           "write_db", "log"} \cup Refresh \cup Closing

(* A restore is alone. *)
Alone ==
  \A h, k \in Handler : req[h].op = "restore" /\ k # h => pc[k] = "idle"

(* The lock: one connection at a time is being closed.  It has committed   *)
(* the audit row, unless the request is about devices and has yet to       *)
(* refresh.                                                                *)
Locked == \A h, k \in Handler : pc[h] \in Closing /\ pc[k] \in Closing => h = k
Logging ==
  \A h \in Handler : pc[h] \in Closing /\ req[h].op # "device"
                      => <<req[h].number, "audit">> \in wal

TInv == TypeOK /\ Handling /\ Alone /\ Locked /\ Logging

-----------------------------------------------------------------------------
(* The fields of a request, and what becomes of them. *)
LEMMA RequestFacts ==
  ASSUME NEW q \in Request
  PROVE  /\ q.op \in {"enable", "device", "backup", "restore"}
         /\ q.id \in 0 .. MaxSecond /\ q.number \in Requests /\ q.text \in ConfigFile
         /\ q.op = "enable" => q.setting \in Setting
  BY ConstantsAssumption DEF Request, Asked

LEMMA RequestText ==
  ASSUME NEW q \in Request, NEW t \in ConfigFile
  PROVE  /\ [q EXCEPT !.text = t] \in Request
         /\ [q EXCEPT !.text = t].op = q.op /\ [q EXCEPT !.text = t].id = q.id
         /\ [q EXCEPT !.text = t].number = q.number /\ [q EXCEPT !.text = t].text = t
         /\ [q EXCEPT !.text = t].setting = q.setting
  BY DEF Request, Asked

LEMMA RequestId ==
  ASSUME NEW q \in Request, q.op = "backup", NEW s \in 0 .. MaxSecond
  PROVE  /\ [q EXCEPT !.id = s] \in Request
         /\ [q EXCEPT !.id = s].op = q.op /\ [q EXCEPT !.id = s].id = s
         /\ [q EXCEPT !.id = s].number = q.number
  BY DEF Request, Asked

(* A handler that goes on to another step of its request. *)
Moves(h, step) ==
  /\ pc' \in [Handler -> Steps] /\ req' \in [Handler -> Request \cup {NoRequest}]
  /\ pc'[h] = step
  /\ req'[h] # NoRequest /\ req'[h].op = req[h].op /\ req'[h].id = req[h].id
  /\ req'[h].number = req[h].number /\ req'[h].setting = req[h].setting
  /\ \A k \in Handler : k # h => pc'[k] = pc[k] /\ req'[k] = req[k]

LEMMA InRequest ==
  ASSUME TInv, NEW h \in Handler, pc[h] # "idle"
  PROVE  req[h] \in Request
  BY DEF TInv, TypeOK, Handling, NoRequest

LEMMA GotoMoves ==
  ASSUME TInv, NEW h \in Handler, pc[h] # "idle", NEW step \in Steps, Goto(h, step)
  PROVE  Moves(h, step) /\ req' = req
<1>1. req[h] \in Request /\ req[h].op # NoRequest.op
  BY InRequest, RequestFacts DEF NoRequest
<1>2. QED
  BY <1>1 DEF TInv, TypeOK, Goto, Moves

LEMMA KeepMoves ==
  ASSUME TInv, NEW h \in Handler, pc[h] # "idle", NEW step \in Steps,
         NEW t \in ConfigFile, Keep(h, t, step)
  PROVE  Moves(h, step) /\ req'[h].text = t
<1>1. req[h] \in Request /\ req[h].op # NoRequest.op
  BY InRequest, RequestFacts DEF NoRequest
<1>2. req' = [req EXCEPT ![h] = [req[h] EXCEPT !.text = t]]
  BY DEF Keep
<1>3. req'[h] = [req[h] EXCEPT !.text = t]
  BY <1>2 DEF TInv, TypeOK
<1>4. req'[h] \in Request /\ req'[h].op = req[h].op /\ req'[h].id = req[h].id
      /\ req'[h].number = req[h].number /\ req'[h].text = t
      /\ req'[h].setting = req[h].setting
  BY <1>1, <1>3, RequestText
<1>5. QED
  BY <1>1, <1>2, <1>4 DEF TInv, TypeOK, Keep, Moves

(* One that ends it. *)
Ends(h) ==
  /\ pc' \in [Handler -> Steps] /\ req' \in [Handler -> Request \cup {NoRequest}]
  /\ owed' \in [Handler -> Promise]
  /\ pc'[h] = "idle" /\ req'[h] = NoRequest /\ owed'[h] = Nothing
  /\ \A k \in Handler : k # h => pc'[k] = pc[k] /\ req'[k] = req[k] /\ owed'[k] = owed[k]

LEMMA NothingType == Nothing \in Promise
  BY DEF Nothing, Promise

LEMMA EndEnds ==
  ASSUME TInv, NEW h \in Handler, End(h)
  PROVE  Ends(h)
  BY NothingType DEF TInv, TypeOK, End, Ends, Steps

(* Both keep the requests in order. *)
LEMMA EndsHandling ==
  ASSUME TInv, NEW h \in Handler, Ends(h)
  PROVE  Handling' /\ Alone' /\ Locked' /\ (wal' = wal => Logging')
<1>1. NoRequest.op = "none"
  BY DEF NoRequest
<1>2. Handling'
  BY DEF TInv, Handling, Ends
<1>3. Alone'
  BY <1>1 DEF TInv, Alone, Ends
<1>4. Locked'
  BY DEF TInv, Locked, Ends, Closing
<1>5. ASSUME wal' = wal PROVE Logging'
  BY <1>5 DEF TInv, Logging, Ends, Closing
<1>6. QED
  BY <1>2, <1>3, <1>4, <1>5

LEMMA MovesHandling ==
  ASSUME TInv, NEW h \in Handler, NEW step \in Steps, Moves(h, step), pc[h] # "idle",
         \/ req[h].op = "enable" /\ step \in {"change", "save", "truncate", "write", "log"}
                                             \cup Refresh \cup Closing
         \/ req[h].op = "device" /\ step \in {"commit", "log"} \cup Refresh \cup Closing
         \/ req[h].op = "backup" /\ step \in {"mkdir", "copy_config", "copy_db", "copy_rest",
                                              "log"} \cup Closing
         \/ req[h].op = "restore" /\ step \in {"find", "truncate", "write", "truncate_db",
                                               "write_db", "log"} \cup Refresh \cup Closing
  PROVE  /\ Handling' /\ Alone'
         /\ step \notin Closing => Locked'
         /\ step \notin Closing /\ wal' = wal => Logging'
<1>1. Handling'
  BY DEF TInv, Handling, Moves
<1>2. Alone'
  BY DEF TInv, Alone, Moves
<1>3. ASSUME step \notin Closing PROVE Locked'
  BY <1>3 DEF TInv, Locked, Moves
<1>4. ASSUME step \notin Closing, wal' = wal PROVE Logging'
  BY <1>4 DEF TInv, Logging, Moves
<1>5. QED
  BY <1>1, <1>2, <1>3, <1>4

-----------------------------------------------------------------------------
(* Promises and directories, and what becomes of them. *)
LEMMA PromiseConfig ==
  ASSUME NEW p \in Promise, NEW S \in SUBSET Setting
  PROVE  /\ [p EXCEPT !.config = S] \in Promise
         /\ [p EXCEPT !.config = S].config = S
         /\ [p EXCEPT !.config = S].rows = p.rows
         /\ [p EXCEPT !.config = S].whole = p.whole
  BY DEF Promise

LEMMA PromiseWhole ==
  ASSUME NEW p \in Promise, NEW b \in BOOLEAN
  PROVE  /\ [p EXCEPT !.whole = b] \in Promise
         /\ [p EXCEPT !.whole = b].config = p.config
         /\ [p EXCEPT !.whole = b].rows = p.rows
         /\ [p EXCEPT !.whole = b].whole = b
  BY DEF Promise

LEMMA NothingFacts ==
  Nothing \in Promise /\ Nothing.config = {} /\ Nothing.rows = {} /\ Nothing.whole = FALSE
  BY DEF Nothing, Promise

LEMMA NothingOnly ==
  ASSUME NEW p \in Promise, p.config = {}, p.rows = {}, p.whole = FALSE
  PROVE  p = Nothing
  BY DEF Nothing, Promise

LEMMA DirectoryConfig ==
  ASSUME NEW d \in Directory, NEW t \in ConfigFile \cup {NoFile}
  PROVE  /\ [d EXCEPT !.config = t] \in Directory
         /\ [d EXCEPT !.config = t].config = t /\ [d EXCEPT !.config = t].db = d.db
  BY DEF Directory

LEMMA DirectoryDb ==
  ASSUME NEW d \in Directory, NEW f \in DbFile
  PROVE  /\ [d EXCEPT !.db = f] \in Directory
         /\ [d EXCEPT !.db = f].config = d.config /\ [d EXCEPT !.db = f].db = f
  BY DEF Directory

LEMMA DbFacts ==
  ASSUME NEW f \in DbFile, NEW half \in SUBSET (Row \cup Missing)
  PROVE  /\ [f EXCEPT !.head = half] \in DbFile
         /\ [f EXCEPT !.head = half].head = half /\ [f EXCEPT !.head = half].rest = f.rest
         /\ [f EXCEPT !.rest = half] \in DbFile
         /\ [f EXCEPT !.rest = half].head = f.head /\ [f EXCEPT !.rest = half].rest = half
         /\ f.head \subseteq Row \cup Missing /\ f.rest \subseteq Row \cup Missing
  BY DEF DbFile

LEMMA FileTypes ==
  /\ Empty \in ConfigFile
  /\ \A S \in SUBSET Setting : Text(S) \in ConfigFile /\ Text(S).full /\ Text(S).set = S
  /\ \A t \in ConfigFile : t.set \subseteq Setting /\ t.full \in BOOLEAN
                          /\ (t.full => t = Text(t.set)) /\ (~t.full => t = Empty)
  /\ Empty.full = FALSE /\ Empty.set = {}
<1>1. Empty \in ConfigFile /\ Empty.full = FALSE /\ Empty.set = {}
  BY DEF Empty, ConfigFile
<1>2. \A S \in SUBSET Setting : Text(S) \in ConfigFile /\ Text(S).full /\ Text(S).set = S
  BY DEF Text, ConfigFile
<1>3. ASSUME NEW t \in ConfigFile
      PROVE  /\ t.set \subseteq Setting /\ t.full \in BOOLEAN
             /\ (t.full => t = Text(t.set)) /\ (~t.full => t = Empty)
  <2>1. CASE t = Empty
    BY <1>1, <2>1
  <2>2. ASSUME NEW S \in SUBSET Setting, t = Text(S)
        PROVE  t.full = TRUE /\ t.set = S
    BY <2>2 DEF Text
  <2>3. QED
    BY <2>1, <2>2 DEF ConfigFile
<1>4. QED
  BY <1>1, <1>2, <1>3

LEMMA DbTypes ==
  /\ EmptyDb \in DbFile /\ NoDb \in DbFile
  /\ \A S, T \in SUBSET (Row \cup Missing) : [head |-> S, rest |-> T] \in DbFile
  BY DEF EmptyDb, NoDb, DbFile

LEMMA DirectoryTypes ==
  /\ Absent \in Directory /\ EmptyDir \in Directory
  /\ \A d \in Directory : d.config \in ConfigFile \cup {NoFile} /\ d.db \in DbFile
  BY DbTypes DEF Absent, EmptyDir, Directory

(* What Load does to the promises. *)
LEMMA MeetsFacts ==
  ASSUME TInv, NEW met \in BOOLEAN, Meets(met)
  PROVE  /\ clash' = (clash \/ met) /\ clash' \in BOOLEAN
         /\ kept' = IF clash' THEN {} ELSE kept
         /\ owed' \in [Handler -> Promise]
         /\ \A k \in Handler : /\ owed'[k].config = IF clash' THEN {} ELSE owed[k].config
                               /\ owed'[k].rows = owed[k].rows
                               /\ owed'[k].whole = owed[k].whole
<1>1. \A k \in Handler : owed[k] \in Promise
  BY DEF TInv, TypeOK
<1>2. \A k \in Handler : /\ [owed[k] EXCEPT !.config = {}] \in Promise
                         /\ [owed[k] EXCEPT !.config = {}].config = {}
                         /\ [owed[k] EXCEPT !.config = {}].rows = owed[k].rows
                         /\ [owed[k] EXCEPT !.config = {}].whole = owed[k].whole
  BY <1>1, PromiseConfig
<1>3. owed' = [k \in Handler |-> IF clash' THEN [owed[k] EXCEPT !.config = {}] ELSE owed[k]]
  BY DEF Meets
<1>4. \A k \in Handler : owed'[k] = IF clash' THEN [owed[k] EXCEPT !.config = {}] ELSE owed[k]
  BY <1>3
<1>5. owed' \in [Handler -> Promise]
  BY <1>1, <1>2, <1>3
<1>6. clash' = (clash \/ met) /\ kept' = IF clash' THEN {} ELSE kept
  BY DEF Meets
<1>7. clash' \in BOOLEAN
  BY <1>6 DEF TInv, TypeOK
<1>8. QED
  BY <1>2, <1>4, <1>5, <1>6, <1>7

-----------------------------------------------------------------------------
(* What each action does, with the types it keeps. *)
LEMMA ReceiveStep ==
  ASSUME TInv, NEW h \in Handler, Receive(h)
  PROVE  /\ TInv'
         /\ pc[h] = "idle" /\ made' = made + 1 /\ ~Serving("restore")
         /\ UNCHANGED <<file, config, db, wal, backups, second, clash, kept, logged, gone, good>>
         /\ \A k \in Handler : k # h => pc'[k] = pc[k] /\ req'[k] = req[k] /\ owed'[k] = owed[k]
         /\ req'[h].number = made + 1
         /\ \/ req'[h].op = "enable" /\ pc'[h] = "change" /\ owed'[h] = owed[h]
            \/ req'[h].op = "device" /\ pc'[h] = "commit" /\ owed'[h] = owed[h]
            \/ req'[h].op = "backup" /\ pc'[h] = "mkdir"
               /\ owed'[h] = [config |-> kept, rows |-> logged, whole |-> TRUE]
            \/ req'[h].op = "restore" /\ pc'[h] = "find" /\ Idle /\ owed'[h] = owed[h]
<1>1. PICK q \in Asked({made + 1}, {0}, 0 .. second, {Empty}) :
        /\ q.op = "restore" => Idle
        /\ req' = [req EXCEPT ![h] = q]
        /\ owed' = IF q.op = "backup"
                   THEN [owed EXCEPT ![h] = [config |-> kept, rows |-> logged, whole |-> TRUE]]
                   ELSE owed
        /\ pc' = [pc EXCEPT ![h] = CASE q.op = "enable" -> "change"
                                     [] q.op = "device" -> "commit"
                                     [] q.op = "backup" -> "mkdir"
                                     [] q.op = "restore" -> "find"]
  BY DEF Receive
<1>2. /\ pc[h] = "idle" /\ made < MaxRequests /\ made' = made + 1 /\ ~Serving("restore")
      /\ overlaps' = (IF Idle THEN overlaps ELSE overlaps + 1) /\ overlaps' <= MaxOverlaps
      /\ UNCHANGED <<file, config, db, wal, backups, second, clash, kept, logged, gone, good>>
  BY DEF Receive, disk, settings
<1>3. made + 1 \in Requests /\ made' \in 0 .. MaxRequests /\ overlaps' \in 0 .. MaxOverlaps
      /\ 0 .. second \subseteq 0 .. MaxSecond /\ 0 \in 0 .. MaxSecond
  BY <1>2, ConstantsAssumption DEF TInv, TypeOK, Requests
<1>4. q \in Request /\ q.number = made + 1 /\ q # NoRequest
      /\ q.op \in {"enable", "device", "backup", "restore"}
  BY <1>1, <1>3, FileTypes DEF Asked, Request, NoRequest
<1>5. [config |-> kept, rows |-> logged, whole |-> TRUE] \in Promise
  BY DEF TInv, TypeOK, Promise
<1>6. /\ pc' \in [Handler -> Steps] /\ req' \in [Handler -> Request \cup {NoRequest}]
      /\ owed' \in [Handler -> Promise]
  BY <1>1, <1>4, <1>5 DEF TInv, TypeOK, Steps
<1>7. \A k \in Handler : k # h => pc'[k] = pc[k] /\ req'[k] = req[k] /\ owed'[k] = owed[k]
  BY <1>1, <1>4 DEF TInv, TypeOK
<1>8. /\ req'[h].number = made + 1
      /\ \/ req'[h].op = "enable" /\ pc'[h] = "change" /\ owed'[h] = owed[h]
         \/ req'[h].op = "device" /\ pc'[h] = "commit" /\ owed'[h] = owed[h]
         \/ req'[h].op = "backup" /\ pc'[h] = "mkdir"
            /\ owed'[h] = [config |-> kept, rows |-> logged, whole |-> TRUE]
         \/ req'[h].op = "restore" /\ pc'[h] = "find" /\ Idle /\ owed'[h] = owed[h]
  BY <1>1, <1>4 DEF TInv, TypeOK
<1>9. TypeOK'
  BY <1>2, <1>3, <1>6 DEF TInv, TypeOK
<1>10. Handling'
  BY <1>7, <1>8 DEF TInv, Handling
<1>11. Alone'
  BY <1>2, <1>7, <1>8 DEF TInv, Alone, Idle, Serving
<1>12. Locked' /\ Logging'
  BY <1>2, <1>7, <1>8 DEF TInv, Locked, Logging, Closing
<1>13. QED
  BY <1>2, <1>7, <1>8, <1>9, <1>10, <1>11, <1>12 DEF TInv

LEMMA EnableStep ==
  ASSUME TInv, NEW h \in Handler, Enable(h)
  PROVE  /\ TInv'
         /\ pc[h] = "change" /\ req[h].op = "enable" /\ Moves(h, "save") /\ req' = req
         /\ req[h].setting \in Setting
         /\ config' = Chosen(config, req[h].setting)
         /\ clash' = (clash \/ \E k \in Handler \ {h} : Changing(k) \/ Refreshing(k))
         /\ kept' = IF clash' THEN {} ELSE kept \ Replaced(req[h].setting)
         /\ \A k \in Handler :
              /\ owed'[k].config = IF clash' THEN {}
                                   ELSE IF k = h THEN {req[h].setting}
                                   ELSE owed[k].config \ Replaced(req[h].setting)
              /\ owed'[k].rows = owed[k].rows /\ owed'[k].whole = owed[k].whole
         /\ UNCHANGED <<file, db, wal, backups, second, made, overlaps, logged, gone, good>>
<1> DEFINE s == req[h].setting
           cfg(k) == IF clash' THEN {} ELSE IF k = h THEN {s} ELSE owed[k].config \ Replaced(s)
<1>1. /\ pc[h] = "change" /\ Goto(h, "save") /\ config' = Chosen(config, s)
      /\ clash' = (clash \/ \E k \in Handler \ {h} : Changing(k) \/ Refreshing(k))
      /\ kept' = IF clash' THEN {} ELSE kept \ Replaced(s)
      /\ UNCHANGED <<file, db, wal, backups, second, made, overlaps, logged, gone, good>>
      /\ owed' = [k \in Handler |-> [owed[k] EXCEPT !.config =
                    IF clash' THEN {} ELSE IF k = h THEN {s} ELSE owed[k].config \ Replaced(s)]]
  BY DEF Enable, disk, count
<1>2. req[h] \in Request /\ req[h].op = "enable" /\ Moves(h, "save") /\ req' = req
  BY <1>1, InRequest, GotoMoves DEF TInv, Handling, Steps, NoRequest, Refresh, Closing
<1>3. s \in Setting
  BY <1>2, RequestFacts
<1>4. \A k \in Handler : owed[k] \in Promise /\ owed[k].config \subseteq Setting
  BY DEF TInv, TypeOK, Promise
<1>5. \A k \in Handler : cfg(k) \in SUBSET Setting
  BY <1>3, <1>4
<1>6. \A k \in Handler : owed'[k] = [owed[k] EXCEPT !.config = cfg(k)]
  BY <1>1
<1>7. \A k \in Handler : /\ [owed[k] EXCEPT !.config = cfg(k)] \in Promise
                         /\ [owed[k] EXCEPT !.config = cfg(k)].config = cfg(k)
                         /\ [owed[k] EXCEPT !.config = cfg(k)].rows = owed[k].rows
                         /\ [owed[k] EXCEPT !.config = cfg(k)].whole = owed[k].whole
  BY <1>4, <1>5, PromiseConfig
<1>8. owed' = [k \in Handler |-> owed'[k]]
  BY <1>1
<1>9. owed' \in [Handler -> Promise]
  BY <1>6, <1>7, <1>8
<1>10. \A k \in Handler : /\ owed'[k].config = cfg(k) /\ owed'[k].rows = owed[k].rows
                          /\ owed'[k].whole = owed[k].whole
  BY <1>6, <1>7
<1>11. config' \subseteq Setting /\ kept' \subseteq Setting /\ clash' \in BOOLEAN
  BY <1>1, <1>3 DEF TInv, TypeOK, Chosen
<1>12. TypeOK'
  BY <1>1, <1>2, <1>9, <1>11 DEF TInv, TypeOK, Moves
<1>13. Handling' /\ Alone' /\ Locked' /\ Logging'
  BY <1>1, <1>2, MovesHandling DEF Closing, Steps
<1>14. QED
  BY <1>1, <1>2, <1>3, <1>10, <1>12, <1>13 DEF TInv

LEMMA AlreadyEnabledStep ==
  ASSUME TInv, NEW h \in Handler, AlreadyEnabled(h)
  PROVE  /\ TInv'
         /\ pc[h] = "change" /\ req[h].op = "enable" /\ Ends(h)
         /\ req[h].setting \in config \ Board
         /\ kept' = IF clash \/ \E k \in Handler : Changing(k) THEN kept
                    ELSE kept \cup {req[h].setting}
         /\ UNCHANGED <<file, config, db, wal, backups, second, made, overlaps,
                        clash, logged, gone, good>>
<1>1. /\ pc[h] = "change" /\ End(h) /\ req[h].setting \in config \ Board
      /\ kept' = IF clash \/ \E k \in Handler : Changing(k) THEN kept
                 ELSE kept \cup {req[h].setting}
      /\ UNCHANGED <<file, config, db, wal, backups, second, made, overlaps,
                     clash, logged, gone, good>>
  BY DEF AlreadyEnabled, disk, count
<1>2. Ends(h) /\ req[h].op = "enable"
  BY <1>1, EndEnds DEF TInv, Handling, NoRequest, Refresh, Closing
<1>3. kept' \subseteq Setting
  BY <1>1 DEF TInv, TypeOK
<1>4. TypeOK'
  BY <1>1, <1>2, <1>3 DEF TInv, TypeOK, Ends
<1>5. Handling' /\ Alone' /\ Locked' /\ Logging'
  BY <1>1, <1>2, EndsHandling
<1>6. QED
  BY <1>1, <1>2, <1>4, <1>5 DEF TInv

LEMMA SaveStep ==
  ASSUME TInv, NEW h \in Handler, Save(h)
  PROVE  /\ TInv'
         /\ pc[h] = "save" /\ req[h].op = "enable"
         /\ Moves(h, "truncate") /\ req'[h].text = Text(config)
         /\ UNCHANGED <<file, config, db, wal, backups, second, made, overlaps,
                        clash, kept, logged, gone, owed, good>>
<1>1. /\ pc[h] = "save" /\ Keep(h, Text(config), "truncate")
      /\ UNCHANGED <<file, config, db, wal, backups, second, made, overlaps,
                     clash, kept, logged, gone, owed, good>>
  BY DEF Save, disk, count, promises
<1>2. Text(config) \in ConfigFile
  BY FileTypes DEF TInv, TypeOK
<1>3. Moves(h, "truncate") /\ req'[h].text = Text(config)
  BY <1>1, <1>2, KeepMoves DEF Steps
<1>4. req[h].op = "enable"
  BY <1>1 DEF TInv, Handling, Refresh, Closing
<1>5. TypeOK'
  BY <1>1, <1>3 DEF TInv, TypeOK, Moves
<1>6. Handling' /\ Alone' /\ Locked' /\ Logging'
  BY <1>1, <1>3, <1>4, MovesHandling DEF Closing, Steps
<1>7. QED
  BY <1>1, <1>3, <1>4, <1>5, <1>6 DEF TInv

LEMMA TruncateStep ==
  ASSUME TInv, NEW h \in Handler, Truncate(h)
  PROVE  /\ TInv'
         /\ pc[h] = "truncate" /\ req[h].op \in {"enable", "restore"}
         /\ Moves(h, "write") /\ req' = req /\ file' = Empty
         /\ UNCHANGED <<config, db, wal, backups, second, made, overlaps,
                        clash, kept, logged, gone, owed, good>>
<1>1. /\ pc[h] = "truncate" /\ Goto(h, "write") /\ file' = Empty
      /\ UNCHANGED <<config, db, wal, backups, second, made, overlaps,
                     clash, kept, logged, gone, owed, good>>
  BY DEF Truncate, count, promises
<1>2. Moves(h, "write") /\ req' = req
  BY <1>1, GotoMoves DEF Steps
<1>3. req[h].op \in {"enable", "restore"}
  BY <1>1 DEF TInv, Handling, Refresh, Closing
<1>4. TypeOK'
  BY <1>1, <1>2, FileTypes DEF TInv, TypeOK, Moves
<1>5. Handling' /\ Alone' /\ Locked' /\ Logging'
  BY <1>1, <1>2, <1>3, MovesHandling DEF Closing, Steps
<1>6. QED
  BY <1>1, <1>2, <1>3, <1>4, <1>5 DEF TInv

LEMMA WriteStep ==
  ASSUME TInv, NEW h \in Handler, Write(h)
  PROVE  /\ TInv'
         /\ pc[h] = "write" /\ req[h].op \in {"enable", "restore"}
         /\ Moves(h, IF req[h].op = "restore" THEN "truncate_db" ELSE "load")
         /\ file' = req[h].text /\ req[h].text \in ConfigFile
         /\ UNCHANGED <<config, db, wal, backups, second, made, overlaps,
                        clash, kept, logged, gone, owed, good>>
<1> DEFINE next == IF req[h].op = "restore" THEN "truncate_db" ELSE "load"
<1>1. /\ pc[h] = "write" /\ Keep(h, Empty, next) /\ file' = req[h].text
      /\ UNCHANGED <<config, db, wal, backups, second, made, overlaps,
                     clash, kept, logged, gone, owed, good>>
  BY DEF Write, count, promises
<1>2. next \in Steps /\ next \notin Closing
  BY DEF Steps, Closing
<1>3. Moves(h, next)
  BY <1>1, <1>2, KeepMoves, FileTypes
<1>4. req[h].op \in {"enable", "restore"} /\ req[h].text \in ConfigFile
  BY <1>1, InRequest, RequestFacts DEF TInv, Handling, Refresh, Closing
<1>5. TypeOK'
  BY <1>1, <1>3, <1>4 DEF TInv, TypeOK, Moves
<1>6. Handling' /\ Alone' /\ Locked' /\ Logging'
  BY <1>1, <1>2, <1>3, <1>4, MovesHandling DEF Refresh
<1>7. QED
  BY <1>1, <1>3, <1>4, <1>5, <1>6 DEF TInv

LEMMA LoadStep ==
  ASSUME TInv, NEW h \in Handler, Load(h)
  PROVE  /\ TInv'
         /\ pc[h] = "load" /\ req[h].op \in {"enable", "device", "restore"}
         /\ Moves(h, IF file.full THEN "parse" ELSE "reset") /\ req' = req
         /\ clash' = (clash \/ \E k \in Handler \ {h} : Changing(k))
         /\ kept' = IF clash' THEN {} ELSE kept
         /\ \A k \in Handler : /\ owed'[k].config = IF clash' THEN {} ELSE owed[k].config
                               /\ owed'[k].rows = owed[k].rows
                               /\ owed'[k].whole = owed[k].whole
         /\ UNCHANGED <<file, config, db, wal, backups, second, made, overlaps,
                        logged, gone, good>>
<1> DEFINE next == IF file.full THEN "parse" ELSE "reset"
           met == \E k \in Handler \ {h} : Changing(k)
<1>1. /\ pc[h] = "load" /\ Goto(h, next) /\ Meets(met)
      /\ UNCHANGED <<file, config, db, wal, backups, second, made, overlaps,
                     logged, gone, good>>
  BY DEF Load, disk, count
<1>2. next \in Steps /\ next \notin Closing /\ next \in Refresh
  BY DEF Steps, Closing, Refresh
<1>3. Moves(h, next) /\ req' = req
  BY <1>1, <1>2, GotoMoves
<1>4. /\ clash' = (clash \/ met) /\ clash' \in BOOLEAN
      /\ kept' = IF clash' THEN {} ELSE kept
      /\ owed' \in [Handler -> Promise]
      /\ \A k \in Handler : /\ owed'[k].config = IF clash' THEN {} ELSE owed[k].config
                            /\ owed'[k].rows = owed[k].rows
                            /\ owed'[k].whole = owed[k].whole
  <2> HIDE DEF met
  <2>1. met \in BOOLEAN
    BY DEF met
  <2>2. QED
    BY <1>1, <2>1, MeetsFacts
<1>5. req[h].op \in {"enable", "device", "restore"}
  BY <1>1 DEF TInv, Handling, Refresh, Closing
<1>6. TypeOK'
  BY <1>1, <1>3, <1>4 DEF TInv, TypeOK, Moves
<1>7. Handling' /\ Alone' /\ Locked' /\ Logging'
  BY <1>1, <1>2, <1>3, <1>5, MovesHandling
<1>8. QED
  BY <1>1, <1>3, <1>4, <1>5, <1>6, <1>7 DEF TInv

LEMMA ParseStep ==
  ASSUME TInv, NEW h \in Handler, Parse(h)
  PROVE  /\ TInv'
         /\ pc[h] = "parse" /\ file.full
         /\ Moves(h, "assign") /\ req'[h].text = file
         /\ UNCHANGED <<file, config, db, wal, backups, second, made, overlaps,
                        clash, kept, logged, gone, owed, good>>
<1>1. /\ pc[h] = "parse" /\ file.full /\ Keep(h, file, "assign")
      /\ UNCHANGED <<file, config, db, wal, backups, second, made, overlaps,
                     clash, kept, logged, gone, owed, good>>
  BY DEF Parse, disk, count, promises
<1>2. Moves(h, "assign") /\ req'[h].text = file
  BY <1>1, KeepMoves DEF TInv, TypeOK, Steps
<1>3. req[h].op \in {"enable", "device", "restore"}
  BY <1>1 DEF TInv, Handling, Refresh, Closing
<1>4. TypeOK'
  BY <1>1, <1>2 DEF TInv, TypeOK, Moves
<1>5. Handling' /\ Alone' /\ Locked' /\ Logging'
  BY <1>1, <1>2, <1>3, MovesHandling DEF Closing, Steps, Refresh
<1>6. QED
  BY <1>1, <1>2, <1>4, <1>5 DEF TInv

LEMMA ResetStep ==
  ASSUME TInv, NEW h \in Handler, Reset(h)
  PROVE  /\ TInv'
         /\ pc[h] = "reset" /\ Moves(h, "refill") /\ req' = req /\ file' = Empty
         /\ UNCHANGED <<config, db, wal, backups, second, made, overlaps,
                        clash, kept, logged, gone, owed, good>>
<1>1. /\ pc[h] = "reset" /\ Goto(h, "refill") /\ file' = Empty
      /\ UNCHANGED <<config, db, wal, backups, second, made, overlaps,
                     clash, kept, logged, gone, owed, good>>
  BY DEF Reset, count, promises
<1>2. Moves(h, "refill") /\ req' = req
  BY <1>1, GotoMoves DEF Steps
<1>3. req[h].op \in {"enable", "device", "restore"}
  BY <1>1 DEF TInv, Handling, Refresh, Closing
<1>4. TypeOK'
  BY <1>1, <1>2, FileTypes DEF TInv, TypeOK, Moves
<1>5. Handling' /\ Alone' /\ Locked' /\ Logging'
  BY <1>1, <1>2, <1>3, MovesHandling DEF Closing, Steps, Refresh
<1>6. QED
  BY <1>1, <1>2, <1>4, <1>5 DEF TInv

LEMMA RefillStep ==
  ASSUME TInv, NEW h \in Handler, Refill(h)
  PROVE  /\ TInv'
         /\ pc[h] = "refill" /\ Moves(h, "assign") /\ file' = Text({})
         /\ req'[h].text = Text({})
         /\ UNCHANGED <<config, db, wal, backups, second, made, overlaps,
                        clash, kept, logged, gone, owed, good>>
<1>1. /\ pc[h] = "refill" /\ Keep(h, Text({}), "assign") /\ file' = Text({})
      /\ UNCHANGED <<config, db, wal, backups, second, made, overlaps,
                     clash, kept, logged, gone, owed, good>>
  BY DEF Refill, count, promises
<1>2. Text({}) \in ConfigFile
  BY FileTypes
<1>3. Moves(h, "assign") /\ req'[h].text = Text({})
  BY <1>1, <1>2, KeepMoves DEF Steps
<1>4. req[h].op \in {"enable", "device", "restore"}
  BY <1>1 DEF TInv, Handling, Refresh, Closing
<1>5. TypeOK'
  BY <1>1, <1>2, <1>3 DEF TInv, TypeOK, Moves
<1>6. Handling' /\ Alone' /\ Locked' /\ Logging'
  BY <1>1, <1>3, <1>4, MovesHandling DEF Closing, Steps, Refresh
<1>7. QED
  BY <1>1, <1>3, <1>5, <1>6 DEF TInv

LEMMA AssignStep ==
  ASSUME TInv, NEW h \in Handler, Assign(h)
  PROVE  /\ TInv'
         /\ pc[h] = "assign" /\ Moves(h, "log") /\ config' = req[h].text.set
         /\ UNCHANGED <<file, db, wal, backups, second, made, overlaps,
                        clash, kept, logged, gone, owed, good>>
<1>1. /\ pc[h] = "assign" /\ Keep(h, Empty, "log") /\ config' = req[h].text.set
      /\ UNCHANGED <<file, db, wal, backups, second, made, overlaps,
                     clash, kept, logged, gone, owed, good>>
  BY DEF Assign, disk, count, promises
<1>2. Moves(h, "log")
  BY <1>1, KeepMoves, FileTypes DEF Steps
<1>3. req[h].op \in {"enable", "device", "restore"}
  BY <1>1 DEF TInv, Handling, Refresh, Closing
<1>4. config' \subseteq Setting
  BY <1>1, InRequest, RequestFacts, FileTypes
<1>5. TypeOK'
  BY <1>1, <1>2, <1>4 DEF TInv, TypeOK, Moves
<1>6. Handling' /\ Alone' /\ Locked' /\ Logging'
  BY <1>1, <1>2, <1>3, MovesHandling DEF Closing, Steps
<1>7. QED
  BY <1>1, <1>2, <1>5, <1>6 DEF TInv

(* A request that fails before it has changed anything more. *)
LEMMA FailStep ==
  ASSUME TInv, NEW h \in Handler, ParseError(h) \/ Fault(h) \/ NotFound(h)
  PROVE  /\ TInv'
         /\ Ends(h)
         /\ pc[h] \in {"commit", "log", "find"} \/ (pc[h] = "parse" /\ ~file.full)
         /\ UNCHANGED <<file, config, db, wal, backups, second, made, overlaps,
                        clash, kept, logged, gone, good>>
<1>1. /\ pc[h] \in {"commit", "log", "find"} \/ (pc[h] = "parse" /\ ~file.full)
      /\ End(h)
      /\ UNCHANGED <<file, config, db, wal, backups, second, made, overlaps,
                     clash, kept, logged, gone, good>>
  BY DEF ParseError, Fault, NotFound, disk, count, settings
<1>2. Ends(h)
  BY <1>1, EndEnds
<1>3. TypeOK'
  BY <1>1, <1>2 DEF TInv, TypeOK, Ends
<1>4. Handling' /\ Alone' /\ Locked' /\ Logging'
  BY <1>1, <1>2, EndsHandling
<1>5. QED
  BY <1>1, <1>2, <1>3, <1>4 DEF TInv

LEMMA CommitStep ==
  ASSUME TInv, NEW h \in Handler, Commit(h)
  PROVE  /\ TInv'
         /\ pc[h] \in {"commit", "log"} /\ (pc[h] = "commit" => req[h].op = "device")
         /\ \A k \in Handler : pc[k] \notin Closing
         /\ Moves(h, "close") /\ req' = req
         /\ RowOf(h) = <<req[h].number, IF pc[h] = "commit" THEN "data" ELSE "audit">>
         /\ RowOf(h) \in Row /\ wal' = wal \cup {RowOf(h)}
         /\ UNCHANGED <<file, config, db, backups, second, made, overlaps,
                        clash, kept, logged, gone, owed, good>>
<1>1. /\ pc[h] \in {"commit", "log"} /\ Goto(h, "close")
      /\ \A k \in Handler : pc[k] \notin Closing
      /\ wal' = wal \cup {RowOf(h)}
      /\ UNCHANGED <<file, config, db, backups, second, made, overlaps,
                     clash, kept, logged, gone, owed, good>>
  BY DEF Commit, count, promises, Closing
<1>2. Moves(h, "close") /\ req' = req
  BY <1>1, GotoMoves DEF Steps
<1>3. /\ pc[h] = "commit" => req[h].op = "device"
      /\ req[h].op \in {"enable", "device", "backup", "restore"}
  BY <1>1, InRequest, RequestFacts DEF TInv, Handling, Refresh, Closing
<1>4. req[h].number \in Requests
  BY <1>1, InRequest, RequestFacts
<1>5. RowOf(h) = <<req[h].number, IF pc[h] = "commit" THEN "data" ELSE "audit">>
      /\ RowOf(h) \in Row
  BY <1>4 DEF RowOf, Row
<1>6. TypeOK'
  BY <1>1, <1>2, <1>5 DEF TInv, TypeOK, Moves
<1>7. Handling' /\ Alone'
  BY <1>1, <1>2, <1>3, MovesHandling DEF Closing, Steps
<1>8. Locked'
  BY <1>1, <1>2 DEF Locked, Moves
<1>9. Logging'
  BY <1>1, <1>2, <1>3, <1>5 DEF Logging, Moves
<1>10. QED
  BY <1>1, <1>2, <1>3, <1>5, <1>6, <1>7, <1>8, <1>9 DEF TInv

LEMMA CheckpointStep ==
  ASSUME TInv, NEW h \in Handler, Checkpoint(h)
  PROVE  /\ TInv'
         /\ pc[h] = "close" /\ Moves(h, "close_rest") /\ req' = req
         /\ db'.head = db.head \cup wal /\ db'.rest = db.rest
         /\ \A k \in Handler :
              /\ owed'[k].config = owed[k].config /\ owed'[k].rows = owed[k].rows
              /\ owed'[k].whole = (owed[k].whole /\ pc[k] # "copy_rest")
         /\ UNCHANGED <<file, config, wal, backups, second, made, overlaps,
                        clash, kept, logged, gone, good>>
<1>1. /\ pc[h] = "close" /\ Goto(h, "close_rest")
      /\ db' = [db EXCEPT !.head = db.head \cup wal]
      /\ owed' = [k \in Handler |->
           IF pc[k] = "copy_rest" THEN [owed[k] EXCEPT !.whole = FALSE] ELSE owed[k]]
      /\ UNCHANGED <<file, config, wal, backups, second, made, overlaps,
                     clash, kept, logged, gone, good>>
  BY DEF Checkpoint, count, settings
<1>2. Moves(h, "close_rest") /\ req' = req
  BY <1>1, GotoMoves DEF Steps
<1>3. db.head \cup wal \in SUBSET (Row \cup Missing)
  BY DbFacts DEF TInv, TypeOK
<1>4. db' \in DbFile /\ db'.head = db.head \cup wal /\ db'.rest = db.rest
  BY <1>1, <1>3, DbFacts DEF TInv, TypeOK
<1>5. \A k \in Handler : owed[k] \in Promise /\ owed[k].whole \in BOOLEAN
  BY DEF TInv, TypeOK, Promise
<1>6. \A k \in Handler : /\ [owed[k] EXCEPT !.whole = FALSE] \in Promise
                         /\ [owed[k] EXCEPT !.whole = FALSE].config = owed[k].config
                         /\ [owed[k] EXCEPT !.whole = FALSE].rows = owed[k].rows
                         /\ [owed[k] EXCEPT !.whole = FALSE].whole = FALSE
  BY <1>5, PromiseWhole
<1>7. owed' \in [Handler -> Promise]
  BY <1>1, <1>5, <1>6
<1>8. \A k \in Handler :
        owed'[k] = IF pc[k] = "copy_rest" THEN [owed[k] EXCEPT !.whole = FALSE] ELSE owed[k]
  BY <1>1
<1>9. \A k \in Handler :
        /\ owed'[k].config = owed[k].config /\ owed'[k].rows = owed[k].rows
        /\ owed'[k].whole = (owed[k].whole /\ pc[k] # "copy_rest")
  BY <1>5, <1>6, <1>8
<1>10. TypeOK'
  BY <1>1, <1>2, <1>4, <1>7 DEF TInv, TypeOK, Moves
<1>11. Handling' /\ Alone'
  <2>1. req[h].op \in {"enable", "device", "backup", "restore"}
    BY <1>1, InRequest, RequestFacts
  <2>2. QED
    BY <1>1, <1>2, <2>1, MovesHandling DEF Closing, Steps
<1>12. Locked' /\ Logging'
  BY <1>1, <1>2 DEF TInv, Locked, Logging, Moves, Closing
<1>13. QED
  BY <1>1, <1>2, <1>4, <1>9, <1>10, <1>11, <1>12 DEF TInv

Audit(h) == <<req[h].number, "audit">>
Data(h) == <<req[h].number, "data">>

LEMMA CloseStep ==
  ASSUME TInv, NEW h \in Handler, Close(h)
  PROVE  /\ TInv'
         /\ pc[h] = "close_rest"
         /\ db'.head = db.head /\ db'.rest = db.rest \cup wal /\ wal' = {}
         /\ db' = [head |-> db.head, rest |-> db.rest \cup wal]
         /\ UNCHANGED <<file, config, backups, second, made, overlaps, gone>>
         /\ \/ /\ req[h].op = "device" /\ Audit(h) \notin wal
               /\ Moves(h, "load") /\ req' = req
               /\ UNCHANGED <<clash, kept, logged, owed, good>>
            \/ /\ Audit(h) \in wal /\ Ends(h)
               /\ clash' = (clash /\ req[h].op # "restore")
               /\ kept' = CASE req[h].op = "enable" -> kept \cup owed[h].config
                            [] req[h].op = "restore" -> good[req[h].id].config
                            [] OTHER -> kept
               /\ logged' = IF ~Whole(db') THEN {}
                            ELSE ({Audit(h)} \cup (IF req[h].op = "device" THEN {Data(h)} ELSE {}))
                                 \cup (IF req[h].op # "restore" THEN logged
                                       ELSE IF good[req[h].id].whole THEN good[req[h].id].rows
                                       ELSE {})
               /\ good' = IF req[h].op = "backup" THEN [good EXCEPT ![req[h].id] = owed[h]]
                          ELSE good
<1>1. /\ pc[h] = "close_rest" /\ wal' = {}
      /\ db' = [db EXCEPT !.rest = db.rest \cup wal]
      /\ UNCHANGED <<file, config, backups, second, made, overlaps, gone>>
      /\ IF Audit(h) \in wal THEN Finished(h)
         ELSE Goto(h, "load") /\ UNCHANGED <<clash, kept, logged, owed, good>>
  BY DEF Close, count, settings, Audit
<1>2. db.rest \cup wal \in SUBSET (Row \cup Missing)
  BY DbFacts DEF TInv, TypeOK
<1>3. db' \in DbFile /\ db'.head = db.head /\ db'.rest = db.rest \cup wal
      /\ db' = [head |-> db.head, rest |-> db.rest \cup wal]
  BY <1>1, <1>2, DbFacts DEF TInv, TypeOK, DbFile
<1>4. req[h] \in Request /\ req[h].number \in Requests /\ req[h].id \in 0 .. MaxSecond
      /\ req[h].op \in {"enable", "device", "backup", "restore"}
  BY <1>1, InRequest, RequestFacts
<1>5. CASE Audit(h) \in wal
  <2>1. /\ End(h)
        /\ clash' = (clash /\ req[h].op # "restore")
        /\ kept' = CASE req[h].op = "enable" -> kept \cup owed[h].config
                     [] req[h].op = "restore" -> good[req[h].id].config
                     [] OTHER -> kept
        /\ logged' = IF ~Whole(db') THEN {}
                     ELSE ({Audit(h)} \cup (IF req[h].op = "device" THEN {Data(h)} ELSE {}))
                          \cup (IF req[h].op # "restore" THEN logged
                                ELSE IF good[req[h].id].whole THEN good[req[h].id].rows
                                ELSE {})
        /\ good' = IF req[h].op = "backup" THEN [good EXCEPT ![req[h].id] = owed[h]] ELSE good
    BY <1>1, <1>5 DEF Finished, Audit, Data
  <2>2. Ends(h)
    BY <2>1, EndEnds
  <2>3. good[req[h].id] \in Promise /\ owed[h] \in Promise
        /\ good[req[h].id].config \subseteq Setting /\ owed[h].config \subseteq Setting
        /\ good[req[h].id].rows \subseteq Row
    BY <1>4 DEF TInv, TypeOK, Promise
  <2>4. kept' \subseteq Setting
    BY <1>4, <2>1, <2>3 DEF TInv, TypeOK
  <2>5. Audit(h) \in Row /\ Data(h) \in Row
    BY <1>4 DEF Audit, Data, Row
  <2>6. logged' \subseteq Row
    BY <2>1, <2>3, <2>5 DEF TInv, TypeOK
  <2>7. good' \in [0 .. MaxSecond -> Promise] /\ clash' \in BOOLEAN
    BY <2>1, <2>3 DEF TInv, TypeOK
  <2>8. TypeOK'
    BY <1>1, <1>3, <2>2, <2>4, <2>6, <2>7 DEF TInv, TypeOK, Ends
  <2>9. Handling' /\ Alone' /\ Locked'
    BY <2>2, EndsHandling
  <2>10. Logging'
    BY <1>1, <2>2 DEF TInv, Locked, Logging, Ends, Closing
  <2>11. QED
    BY <1>1, <1>3, <1>5, <2>1, <2>2, <2>8, <2>9, <2>10 DEF TInv
<1>6. CASE Audit(h) \notin wal
  <2>1. Goto(h, "load") /\ UNCHANGED <<clash, kept, logged, owed, good>>
    BY <1>1, <1>6
  <2>2. req[h].op = "device"
    BY <1>1, <1>6 DEF TInv, Logging, Closing, Audit
  <2>3. Moves(h, "load") /\ req' = req
    BY <1>1, <2>1, GotoMoves DEF Steps
  <2>4. TypeOK'
    BY <1>1, <1>3, <2>1, <2>3 DEF TInv, TypeOK, Moves
  <2>5. Handling' /\ Alone' /\ Locked'
    BY <1>1, <2>2, <2>3, MovesHandling DEF Closing, Refresh, Steps
  <2>6. Logging'
    BY <1>1, <2>3 DEF TInv, Locked, Logging, Moves, Closing
  <2>7. QED
    BY <1>1, <1>3, <1>6, <2>1, <2>2, <2>3, <2>4, <2>5, <2>6 DEF TInv
<1>7. QED
  BY <1>5, <1>6

LEMMA MakeDirStep ==
  ASSUME TInv, NEW h \in Handler, MakeDir(h)
  PROVE  /\ TInv'
         /\ pc[h] = "mkdir" /\ req[h].op = "backup"
         /\ UNCHANGED <<file, config, db, wal, made, overlaps, clash, kept, logged, gone>>
         /\ \A k \in Handler : k # h => pc'[k] = pc[k] /\ req'[k] = req[k]
         /\ pc'[h] = "copy_config" /\ req'[h].op = "backup" /\ req'[h].number = req[h].number
         /\ \E s \in 0 .. MaxSecond :
              /\ req'[h].id = s
              /\ \A x \in 0 .. MaxSecond : x # s => backups'[x] = backups[x] /\ good'[x] = good[x]
              /\ good'[s] = Nothing
              /\ backups'[s] = backups[s] \/ backups'[s] = EmptyDir
              /\ \A k \in Handler :
                   owed'[k] = IF Writers(s) # {} /\ k \in Writers(s) \cup {h} THEN Nothing
                              ELSE owed[k]
<1>1. PICK s \in second .. MaxSecond :
        /\ second' = s
        /\ req' = [req EXCEPT ![h] = [req[h] EXCEPT !.id = s]]
        /\ backups' = IF backups[s].exists THEN backups ELSE [backups EXCEPT ![s] = EmptyDir]
        /\ good' = [good EXCEPT ![s] = Nothing]
        /\ owed' = IF Writers(s) = {} THEN owed
                   ELSE [k \in Handler |-> IF k \in Writers(s) \cup {h} THEN Nothing ELSE owed[k]]
  BY DEF MakeDir
<1>2. /\ pc[h] = "mkdir" /\ pc' = [pc EXCEPT ![h] = "copy_config"]
      /\ UNCHANGED <<file, config, db, wal, made, overlaps, clash, kept, logged, gone>>
  BY DEF MakeDir, settings
<1>3. req[h] \in Request /\ req[h].op = "backup"
  BY <1>2, InRequest DEF TInv, Handling, NoRequest, Refresh, Closing
<1>4. s \in 0 .. MaxSecond
  BY <1>1, ConstantsAssumption DEF TInv, TypeOK
<1>5. req'[h] = [req[h] EXCEPT !.id = s]
  BY <1>1 DEF TInv, TypeOK
<1>6. req'[h] \in Request /\ req'[h].op = "backup" /\ req'[h].id = s
      /\ req'[h].number = req[h].number
  BY <1>3, <1>4, <1>5, RequestId
<1>7. req' \in [Handler -> Request \cup {NoRequest}] /\ pc' \in [Handler -> Steps]
  BY <1>1, <1>2, <1>5, <1>6 DEF TInv, TypeOK, Steps
<1>8. \A k \in Handler : k # h => pc'[k] = pc[k] /\ req'[k] = req[k]
  BY <1>1, <1>2 DEF TInv, TypeOK
<1>9. pc'[h] = "copy_config"
  BY <1>2 DEF TInv, TypeOK
<1>10. /\ backups' \in [0 .. MaxSecond -> Directory]
       /\ \A x \in 0 .. MaxSecond : x # s => backups'[x] = backups[x]
       /\ backups'[s] = backups[s] \/ backups'[s] = EmptyDir
  BY <1>1, <1>4, DirectoryTypes DEF TInv, TypeOK
<1>11. /\ good' \in [0 .. MaxSecond -> Promise]
       /\ \A x \in 0 .. MaxSecond : x # s => good'[x] = good[x]
       /\ good'[s] = Nothing
  BY <1>1, <1>4, NothingFacts DEF TInv, TypeOK
<1>12. /\ owed' \in [Handler -> Promise]
       /\ \A k \in Handler :
            owed'[k] = IF Writers(s) # {} /\ k \in Writers(s) \cup {h} THEN Nothing ELSE owed[k]
  BY <1>1, NothingFacts DEF TInv, TypeOK
<1>13. TypeOK'
  BY <1>1, <1>2, <1>4, <1>7, <1>10, <1>11, <1>12 DEF TInv, TypeOK
<1>14. Handling'
  BY <1>6, <1>8, <1>9 DEF TInv, Handling
<1>15. Alone' /\ Locked' /\ Logging'
  BY <1>2, <1>3, <1>6, <1>8, <1>9 DEF TInv, Alone, Locked, Logging, Closing
<1>16. QED
  BY <1>2, <1>3, <1>4, <1>6, <1>8, <1>9, <1>10, <1>11, <1>12, <1>13, <1>14, <1>15 DEF TInv

LEMMA CopyConfigStep ==
  ASSUME TInv, NEW h \in Handler, CopyConfig(h)
  PROVE  /\ TInv'
         /\ pc[h] = "copy_config" /\ req[h].op = "backup" /\ req[h].id \in 0 .. MaxSecond
         /\ Moves(h, "copy_db") /\ req' = req
         /\ backups'[req[h].id].config = file /\ backups'[req[h].id].db = backups[req[h].id].db
         /\ \A x \in 0 .. MaxSecond : x # req[h].id => backups'[x] = backups[x]
         /\ \A k \in Handler :
              /\ owed'[k].config = IF k = h /\ ~file.full THEN {} ELSE owed[k].config
              /\ owed'[k].rows = owed[k].rows /\ owed'[k].whole = owed[k].whole
              /\ owed[k] = Nothing => owed'[k] = Nothing
         /\ UNCHANGED <<file, config, db, wal, second, made, overlaps,
                        clash, kept, logged, gone, good>>
<1> DEFINE i == req[h].id
           d == [backups[i] EXCEPT !.config = file]
           o == [owed[h] EXCEPT !.config = {}]
<1>1. /\ pc[h] = "copy_config" /\ Goto(h, "copy_db")
      /\ backups' = [backups EXCEPT ![i] = d]
      /\ owed' = IF file.full THEN owed ELSE [owed EXCEPT ![h] = o]
      /\ UNCHANGED <<file, config, db, wal, second, made, overlaps,
                     clash, kept, logged, gone, good>>
  BY DEF CopyConfig, count, settings
<1>2. Moves(h, "copy_db") /\ req' = req
  BY <1>1, GotoMoves DEF Steps
<1>3. req[h] \in Request /\ req[h].op = "backup" /\ i \in 0 .. MaxSecond
  BY <1>1, InRequest, RequestFacts DEF TInv, Handling, NoRequest, Refresh, Closing
<1>4. d \in Directory /\ d.config = file /\ d.db = backups[i].db
  <2>1. backups[i] \in Directory /\ file \in ConfigFile \cup {NoFile}
    BY <1>3 DEF TInv, TypeOK
  <2>2. QED
    BY <2>1, DirectoryConfig
<1>5. /\ backups' \in [0 .. MaxSecond -> Directory] /\ backups'[i] = d
      /\ \A x \in 0 .. MaxSecond : x # i => backups'[x] = backups[x]
  BY <1>1, <1>3, <1>4 DEF TInv, TypeOK
<1>6. owed[h] \in Promise /\ {} \in SUBSET Setting
  BY DEF TInv, TypeOK
<1>7. o \in Promise /\ o.config = {} /\ o.rows = owed[h].rows /\ o.whole = owed[h].whole
  BY <1>6, PromiseConfig
<1>8. owed[h] = Nothing => o = Nothing
  BY <1>7, NothingFacts, NothingOnly
<1>9. owed' \in [Handler -> Promise]
  BY <1>1, <1>7 DEF TInv, TypeOK
<1>10. \A k \in Handler : owed'[k] = IF k = h /\ ~file.full THEN o ELSE owed[k]
  BY <1>1 DEF TInv, TypeOK
<1>11. \A k \in Handler :
         /\ owed'[k].config = IF k = h /\ ~file.full THEN {} ELSE owed[k].config
         /\ owed'[k].rows = owed[k].rows /\ owed'[k].whole = owed[k].whole
         /\ owed[k] = Nothing => owed'[k] = Nothing
  BY <1>7, <1>8, <1>10
<1>12. TypeOK'
  BY <1>1, <1>2, <1>5, <1>9 DEF TInv, TypeOK, Moves
<1>13. Handling' /\ Alone' /\ Locked' /\ Logging'
  BY <1>1, <1>2, <1>3, MovesHandling DEF Closing, Steps
<1>14. QED
  BY <1>1, <1>2, <1>3, <1>4, <1>5, <1>11, <1>12, <1>13 DEF TInv

LEMMA CopyDbStep ==
  ASSUME TInv, NEW h \in Handler, CopyDb(h)
  PROVE  /\ TInv'
         /\ pc[h] = "copy_db" /\ req[h].op = "backup" /\ req[h].id \in 0 .. MaxSecond
         /\ Moves(h, "copy_rest") /\ req' = req
         /\ backups'[req[h].id].config = backups[req[h].id].config
         /\ backups'[req[h].id].db = [head |-> db.head, rest |-> Missing]
         /\ \A x \in 0 .. MaxSecond : x # req[h].id => backups'[x] = backups[x]
         /\ \A k \in Handler :
              /\ owed'[k].config = owed[k].config /\ owed'[k].rows = owed[k].rows
              /\ owed'[k].whole = (owed[k].whole /\ (k = h => Whole(db)))
              /\ owed[k] = Nothing => owed'[k] = Nothing
         /\ UNCHANGED <<file, config, db, wal, second, made, overlaps,
                        clash, kept, logged, gone, good>>
<1> DEFINE i == req[h].id
           f == [head |-> db.head, rest |-> Missing]
           d == [backups[i] EXCEPT !.db = f]
           w == (owed[h].whole /\ Whole(db))
           o == [owed[h] EXCEPT !.whole = w]
<1>1. /\ pc[h] = "copy_db" /\ Goto(h, "copy_rest")
      /\ backups' = [backups EXCEPT ![i] = d]
      /\ owed' = [owed EXCEPT ![h] = o]
      /\ UNCHANGED <<file, config, db, wal, second, made, overlaps,
                     clash, kept, logged, gone, good>>
  BY DEF CopyDb, count, settings
<1>2. Moves(h, "copy_rest") /\ req' = req
  BY <1>1, GotoMoves DEF Steps
<1>3. req[h] \in Request /\ req[h].op = "backup" /\ i \in 0 .. MaxSecond
  BY <1>1, InRequest, RequestFacts DEF TInv, Handling, NoRequest, Refresh, Closing
<1>4. f \in DbFile
  BY DbFacts, DbTypes DEF TInv, TypeOK
<1>5. d \in Directory /\ d.db = f /\ d.config = backups[i].config
  <2> HIDE DEF f
  <2>1. backups[i] \in Directory
    BY <1>3 DEF TInv, TypeOK
  <2>2. QED
    BY <1>4, <2>1, DirectoryDb
<1>6. /\ backups' \in [0 .. MaxSecond -> Directory] /\ backups'[i] = d
      /\ \A x \in 0 .. MaxSecond : x # i => backups'[x] = backups[x]
  BY <1>1, <1>3, <1>5 DEF TInv, TypeOK
<1>7. owed[h] \in Promise /\ w \in BOOLEAN /\ \A k \in Handler : owed[k].whole \in BOOLEAN
  <2>1. \A k \in Handler : owed[k] \in Promise /\ owed[k].whole \in BOOLEAN
    BY DEF TInv, TypeOK, Promise
  <2>2. QED
    BY <2>1
<1>8. o \in Promise /\ o.config = owed[h].config /\ o.rows = owed[h].rows /\ o.whole = w
  <2> HIDE DEF w
  <2>1. QED
    BY <1>7, PromiseWhole
<1>9. owed[h] = Nothing => o = Nothing
  BY <1>8, NothingFacts, NothingOnly
<1>10. owed' \in [Handler -> Promise]
  BY <1>1, <1>8 DEF TInv, TypeOK
<1>11. \A k \in Handler : owed'[k] = IF k = h THEN o ELSE owed[k]
  BY <1>1 DEF TInv, TypeOK
<1>12. \A k \in Handler :
         /\ owed'[k].config = owed[k].config /\ owed'[k].rows = owed[k].rows
         /\ owed'[k].whole = (owed[k].whole /\ (k = h => Whole(db)))
         /\ owed[k] = Nothing => owed'[k] = Nothing
  BY <1>7, <1>8, <1>9, <1>11
<1>13. TypeOK'
  BY <1>1, <1>2, <1>6, <1>10 DEF TInv, TypeOK, Moves
<1>14. Handling' /\ Alone' /\ Locked' /\ Logging'
  BY <1>1, <1>2, <1>3, MovesHandling DEF Closing, Steps
<1>15. QED
  BY <1>1, <1>2, <1>3, <1>5, <1>6, <1>12, <1>13, <1>14 DEF TInv

LEMMA CopyRestStep ==
  ASSUME TInv, NEW h \in Handler, CopyRest(h)
  PROVE  /\ TInv'
         /\ pc[h] = "copy_rest" /\ req[h].op = "backup" /\ req[h].id \in 0 .. MaxSecond
         /\ Moves(h, "log") /\ req' = req
         /\ backups'[req[h].id].config = backups[req[h].id].config
         /\ backups'[req[h].id].db = [head |-> backups[req[h].id].db.head, rest |-> db.rest]
         /\ \A x \in 0 .. MaxSecond : x # req[h].id => backups'[x] = backups[x]
         /\ UNCHANGED <<file, config, db, wal, second, made, overlaps,
                        clash, kept, logged, gone, owed, good>>
<1> DEFINE i == req[h].id
           f == [backups[i].db EXCEPT !.rest = db.rest]
           d == [backups[i] EXCEPT !.db = f]
<1>1. /\ pc[h] = "copy_rest" /\ Goto(h, "log")
      /\ backups' = [backups EXCEPT ![i] = d]
      /\ UNCHANGED <<file, config, db, wal, second, made, overlaps,
                     clash, kept, logged, gone, owed, good>>
  BY DEF CopyRest, count, promises
<1>2. Moves(h, "log") /\ req' = req
  BY <1>1, GotoMoves DEF Steps
<1>3. req[h] \in Request /\ req[h].op = "backup" /\ i \in 0 .. MaxSecond
  BY <1>1, InRequest, RequestFacts DEF TInv, Handling, NoRequest, Refresh, Closing
<1>4. backups[i] \in Directory /\ backups[i].db \in DbFile
      /\ db.rest \in SUBSET (Row \cup Missing)
  BY <1>3, DirectoryTypes, DbFacts DEF TInv, TypeOK
<1>5. f \in DbFile /\ f = [head |-> backups[i].db.head, rest |-> db.rest]
  BY <1>4, DbFacts DEF DbFile
<1>6. d \in Directory /\ d.db = f /\ d.config = backups[i].config
  <2> HIDE DEF f
  <2>1. QED
    BY <1>4, <1>5, DirectoryDb
<1>7. /\ backups' \in [0 .. MaxSecond -> Directory] /\ backups'[i] = d
      /\ \A x \in 0 .. MaxSecond : x # i => backups'[x] = backups[x]
  BY <1>1, <1>3, <1>6 DEF TInv, TypeOK
<1>8. TypeOK'
  BY <1>1, <1>2, <1>7 DEF TInv, TypeOK, Moves
<1>9. Handling' /\ Alone' /\ Locked' /\ Logging'
  BY <1>1, <1>2, <1>3, MovesHandling DEF Closing, Steps
<1>10. QED
  BY <1>1, <1>2, <1>3, <1>5, <1>6, <1>7, <1>8, <1>9 DEF TInv

LEMMA FindStep ==
  ASSUME TInv, NEW h \in Handler, Find(h)
  PROVE  /\ TInv'
         /\ pc[h] = "find" /\ req[h].op = "restore" /\ req[h].id \in 0 .. MaxSecond
         /\ kept' = {} /\ logged' = {}
         /\ \/ backups[req[h].id].config = NoFile /\ Moves(h, "truncate_db")
            \/ backups[req[h].id].config # NoFile /\ Moves(h, "truncate")
               /\ req'[h].text = backups[req[h].id].config
         /\ UNCHANGED <<file, config, db, wal, backups, second, made, overlaps,
                        clash, gone, owed, good>>
<1> DEFINE b == backups[req[h].id]
<1>1. /\ pc[h] = "find" /\ kept' = {} /\ logged' = {}
      /\ IF b.config = NoFile THEN Goto(h, "truncate_db") ELSE Keep(h, b.config, "truncate")
      /\ UNCHANGED <<file, config, db, wal, backups, second, made, overlaps,
                     clash, gone, owed, good>>
  BY DEF Find, disk, count
<1>2. req[h] \in Request /\ req[h].op = "restore" /\ req[h].id \in 0 .. MaxSecond
  BY <1>1, InRequest, RequestFacts DEF TInv, Handling, NoRequest, Refresh, Closing
<1>3. b.config \in ConfigFile \cup {NoFile}
  BY <1>2, DirectoryTypes DEF TInv, TypeOK
<1>4. CASE b.config = NoFile
  <2>1. Moves(h, "truncate_db")
    BY <1>1, <1>4, GotoMoves DEF Steps
  <2>2. TypeOK'
    BY <1>1, <2>1 DEF TInv, TypeOK, Moves
  <2>3. Handling' /\ Alone' /\ Locked' /\ Logging'
    BY <1>1, <1>2, <2>1, MovesHandling DEF Closing, Steps
  <2>4. QED
    BY <1>1, <1>2, <1>4, <2>1, <2>2, <2>3 DEF TInv
<1>5. CASE b.config # NoFile
  <2>1. Moves(h, "truncate") /\ req'[h].text = b.config
    BY <1>1, <1>3, <1>5, KeepMoves DEF Steps
  <2>2. TypeOK'
    BY <1>1, <2>1 DEF TInv, TypeOK, Moves
  <2>3. Handling' /\ Alone' /\ Locked' /\ Logging'
    BY <1>1, <1>2, <2>1, MovesHandling DEF Closing, Steps
  <2>4. QED
    BY <1>1, <1>2, <1>5, <2>1, <2>2, <2>3 DEF TInv
<1>6. QED
  BY <1>4, <1>5

LEMMA TruncateDbStep ==
  ASSUME TInv, NEW h \in Handler, TruncateDb(h)
  PROVE  /\ TInv'
         /\ pc[h] = "truncate_db" /\ req[h].op = "restore" /\ req[h].id \in 0 .. MaxSecond
         /\ \/ /\ backups[req[h].id].db = NoDb /\ Moves(h, "load") /\ UNCHANGED <<db, gone>>
            \/ /\ backups[req[h].id].db # NoDb /\ Moves(h, "write_db") /\ db' = EmptyDb
               /\ gone' = IF Whole(backups[req[h].id].db)
                          THEN (gone \cup Live) \ backups[req[h].id].db.head ELSE {}
         /\ req' = req
         /\ UNCHANGED <<file, config, wal, backups, second, made, overlaps,
                        clash, kept, logged, owed, good>>
<1> DEFINE copy == backups[req[h].id].db
<1>1. /\ pc[h] = "truncate_db"
      /\ IF copy = NoDb THEN Goto(h, "load") /\ UNCHANGED <<db, gone>>
         ELSE /\ db' = EmptyDb
              /\ gone' = IF Whole(copy) THEN (gone \cup Live) \ copy.head ELSE {}
              /\ Goto(h, "write_db")
      /\ UNCHANGED <<file, config, wal, backups, second, made, overlaps,
                     clash, kept, logged, owed, good>>
  BY DEF TruncateDb, count, settings
<1>2. req[h] \in Request /\ req[h].op = "restore" /\ req[h].id \in 0 .. MaxSecond
  BY <1>1, InRequest, RequestFacts DEF TInv, Handling, NoRequest, Refresh, Closing
<1>3. backups[req[h].id] \in Directory /\ copy \in DbFile
  BY <1>2, DirectoryTypes DEF TInv, TypeOK
<1>4. CASE copy = NoDb
  <2>1. Moves(h, "load") /\ req' = req
    BY <1>1, <1>4, GotoMoves DEF Steps
  <2>2. TypeOK'
    BY <1>1, <1>4, <2>1 DEF TInv, TypeOK, Moves
  <2>3. Handling' /\ Alone' /\ Locked' /\ Logging'
    BY <1>1, <1>2, <2>1, MovesHandling DEF Closing, Steps, Refresh
  <2>4. QED
    BY <1>1, <1>2, <1>4, <2>1, <2>2, <2>3 DEF TInv
<1>5. CASE copy # NoDb
  <2>1. Moves(h, "write_db") /\ req' = req
    BY <1>1, <1>5, GotoMoves DEF Steps
  <2>2. db' \in DbFile /\ gone' \subseteq Row
    <3>1. gone \subseteq Row /\ Live \subseteq Row
      BY DbFacts DEF TInv, TypeOK, Live
    <3>2. db' = EmptyDb /\ gone' = IF Whole(copy) THEN (gone \cup Live) \ copy.head ELSE {}
      BY <1>1, <1>5
    <3>3. QED
      BY <3>1, <3>2, DbTypes
  <2>3. TypeOK'
    BY <1>1, <1>5, <2>1, <2>2 DEF TInv, TypeOK, Moves
  <2>4. Handling' /\ Alone' /\ Locked' /\ Logging'
    BY <1>1, <1>2, <2>1, MovesHandling DEF Closing, Steps
  <2>5. QED
    BY <1>1, <1>2, <1>5, <2>1, <2>2, <2>3, <2>4 DEF TInv
<1>6. QED
  BY <1>4, <1>5

LEMMA WriteDbStep ==
  ASSUME TInv, NEW h \in Handler, WriteDb(h)
  PROVE  /\ TInv'
         /\ pc[h] = "write_db" /\ req[h].op = "restore" /\ req[h].id \in 0 .. MaxSecond
         /\ Moves(h, "load") /\ req' = req /\ db' = backups[req[h].id].db
         /\ UNCHANGED <<file, config, wal, backups, second, made, overlaps,
                        clash, kept, logged, gone, owed, good>>
<1>1. /\ pc[h] = "write_db" /\ Goto(h, "load") /\ db' = backups[req[h].id].db
      /\ UNCHANGED <<file, config, wal, backups, second, made, overlaps,
                     clash, kept, logged, gone, owed, good>>
  BY DEF WriteDb, count, promises
<1>2. req[h] \in Request /\ req[h].op = "restore" /\ req[h].id \in 0 .. MaxSecond
  BY <1>1, InRequest, RequestFacts DEF TInv, Handling, NoRequest, Refresh, Closing
<1>3. Moves(h, "load") /\ req' = req
  BY <1>1, GotoMoves DEF Steps
<1>4. db' \in DbFile
  BY <1>1, <1>2, DirectoryTypes DEF TInv, TypeOK
<1>5. TypeOK'
  BY <1>1, <1>3, <1>4 DEF TInv, TypeOK, Moves
<1>6. Handling' /\ Alone' /\ Locked' /\ Logging'
  BY <1>1, <1>2, <1>3, MovesHandling DEF Closing, Steps, Refresh
<1>7. QED
  BY <1>1, <1>2, <1>3, <1>5, <1>6 DEF TInv

LEMMA StopStep ==
  ASSUME TInv, Stop
  PROVE  /\ TInv'
         /\ \A h \in Handler : pc'[h] = "idle" /\ req'[h] = NoRequest /\ owed'[h] = Nothing
         /\ file' = Text(file.set) /\ config' = file.set
         /\ db' = [head |-> db.head \cup wal, rest |-> db.rest \cup wal] /\ wal' = {}
         /\ clash' = FALSE
         /\ kept' = IF \E h \in Handler : pc[h] = "write" THEN {} ELSE kept
         /\ UNCHANGED <<backups, second, made, overlaps, logged, gone, good>>
<1>1. /\ \A h \in Handler : pc'[h] = "idle" /\ req'[h] = NoRequest /\ owed'[h] = Nothing
      /\ pc' \in [Handler -> Steps] /\ req' \in [Handler -> Request \cup {NoRequest}]
      /\ owed' \in [Handler -> Promise]
  BY NothingFacts DEF Stop, Steps
<1>2. /\ file' = Text(file.set) /\ config' = file.set
      /\ db' = [head |-> db.head \cup wal, rest |-> db.rest \cup wal] /\ wal' = {}
      /\ clash' = FALSE
      /\ kept' = IF \E h \in Handler : pc[h] = "write" THEN {} ELSE kept
      /\ UNCHANGED <<backups, second, made, overlaps, logged, gone, good>>
  BY DEF Stop, count
<1>3. file' \in ConfigFile /\ config' \subseteq Setting
  BY <1>2, FileTypes DEF TInv, TypeOK
<1>4. db' \in DbFile
  BY <1>2, DbFacts, DbTypes DEF TInv, TypeOK
<1>5. kept' \subseteq Setting
  BY <1>2 DEF TInv, TypeOK
<1>6. TypeOK'
  BY <1>1, <1>2, <1>3, <1>4, <1>5 DEF TInv, TypeOK
<1>7. Handling' /\ Alone' /\ Locked' /\ Logging'
  BY <1>1 DEF Handling, Alone, Locked, Logging, Closing
<1>8. QED
  BY <1>1, <1>2, <1>6, <1>7 DEF TInv

-----------------------------------------------------------------------------
(* Settings.  Once there was a clash nothing is promised of them. *)
Clashed == clash => kept = {} /\ \A h \in Handler : owed[h].config = {}

(* Until then a change meets neither another nor a refresh...              *)
Exclusive ==
  ~clash => \A h, k \in Handler : h # k /\ Changing(h) => ~Changing(k) /\ ~Refreshing(k)

(* ...so that the file says what the copy says unless a change or a        *)
(* restore is under way...                                                 *)
Settled ==
  \A h \in Handler : /\ ~Changing(h)
                     /\ req[h].op = "restore" => pc[h] \in {"find", "log"} \cup Closing
Quiet == ~clash /\ Settled => file = Text(config)

(* ...and a handler has read, or is about to write, just that.             *)
InStep ==
  ~clash => \A h \in Handler : req[h].op # "restore" =>
    /\ pc[h] \notin {"reset", "refill"}
    /\ pc[h] = "assign" => req[h].text = file
    /\ pc[h] \in {"truncate", "write"} => req[h].text = Text(config)
    /\ pc[h] = "write" => ~file.full

(* A restore promises nothing while it is under way, and brings the        *)
(* settings of its backup to the file and to the copy.                     *)
Restored(h) ==
  req[h].op = "restore" =>
    /\ pc[h] # "find" => kept = {} /\ logged = {}
    /\ pc[h] \in {"truncate", "write"} => good[req[h].id].config \subseteq req[h].text.set
    /\ pc[h] \notin {"find", "truncate", "write"} => good[req[h].id].config \subseteq file.set
    /\ pc[h] = "parse" => file.full
    /\ pc[h] \in {"reset", "refill"} => file.set = {}
    /\ pc[h] = "assign" => file.full /\ req[h].text = file
    /\ pc[h] \in {"log"} \cup Closing => file = Text(config)
Restoring == \A h \in Handler : Restored(h)

(* What is promised is in the copy and, unless it is just being rewritten, *)
(* in the file.  An enable that has yet to write promises what the copy    *)
(* has.                                                                    *)
Safe(S) == S \subseteq config /\ ((\A h \in Handler : pc[h] # "write") => S \subseteq file.set)
Kept == Safe(kept)
Due(h) ==
  /\ pc[h] \in {"idle", "change"} => owed[h].config = {}
  /\ req[h].op = "enable" => owed[h].config \subseteq config
  /\ req[h].op = "enable" /\ ~Changing(h) => Safe(owed[h].config)
  /\ pc[h] \in {"mkdir", "copy_config"} => Safe(owed[h].config)
Owed == \A h \in Handler : Due(h)

SInv == Clashed /\ Exclusive /\ Quiet /\ InStep /\ Restoring /\ Kept /\ Owed

-----------------------------------------------------------------------------
(* Backups.  Nobody promises anything of a directory that two write, nor   *)
(* of one that is being written.                                           *)
Writer(h) == req[h].op = "backup" /\ pc[h] # "mkdir"
Shared ==
  \A h, k \in Handler : h # k /\ Writer(h) /\ Writer(k) /\ req[h].id = req[k].id
                         => owed[h] = Nothing
Unfinished == \A h \in Handler : Writer(h) => good[req[h].id] = Nothing

(* A copy has the settings it is to promise, and so has a backup. *)
Holds(d, S) == S = {} \/ (d.config # NoFile /\ S \subseteq d.config.set)
Copied ==
  \A h \in Handler : Writer(h) /\ pc[h] # "copy_config"
                      => Holds(backups[req[h].id], owed[h].config)
Promised == \A s \in 0 .. MaxSecond : Holds(backups[s], good[s].config)

(* The same of rows.  Between its halves the copy has the half it has      *)
(* read, and the database file has not changed, or it promises nothing.    *)
Has(f, S) == Whole(f) /\ S \subseteq f.head
CopiedRows ==
  \A h \in Handler : req[h].op = "backup" /\ owed[h].whole =>
    /\ pc[h] \in {"mkdir", "copy_config", "copy_db"}
         => owed[h].rows \subseteq db.head \cap db.rest
    /\ pc[h] = "copy_rest" => /\ backups[req[h].id].db.head = db.head
                              /\ Has(db, owed[h].rows)
    /\ pc[h] \in {"log"} \cup Closing => Has(backups[req[h].id].db, owed[h].rows)
PromisedRows == \A s \in 0 .. MaxSecond : good[s].whole => Has(backups[s].db, good[s].rows)

BInv == Shared /\ Unfinished /\ Copied /\ Promised /\ CopiedRows /\ PromisedRows

-----------------------------------------------------------------------------
(* Rows.  The WAL file is empty unless a connection is being closed, and   *)
(* its rows are in the first half before they are in the second.           *)
Wal ==
  /\ (\A h \in Handler : pc[h] \notin Closing) => wal = {}
  /\ \A h \in Handler : pc[h] = "close_rest" => wal \subseteq db.head

(* What is promised is in both halves; the row of a request about devices  *)
(* that has not been answered yet is too, once it is committed; and so are *)
(* the rows a restore has brought back.                                    *)
Both == db.head \cap db.rest
Stored ==
  /\ logged \subseteq Both
  /\ \A h \in Handler :
       /\ req[h].op = "device" /\ pc[h] \in Refresh \cup {"log"} => Data(h) \in Both
       /\ req[h].op = "device" /\ pc[h] \in Closing => Data(h) \in Both \cup wal
       /\ req[h].op = "restore" /\ pc[h] \in Refresh \cup {"log"} \cup Closing
            => (good[req[h].id].whole => good[req[h].id].rows \subseteq Both)

(* Whatever has a row is younger than it.  The mark is older than all. *)
Old == {r \in Row \cup Missing : r[1] <= made}
Aged ==
  /\ gone \subseteq Old /\ wal \subseteq Old /\ db.head \subseteq Old
  /\ \A s \in 0 .. MaxSecond : backups[s].db.head \subseteq Old
  /\ \A h \in Handler : req[h] # NoRequest => req[h].number <= made

(* Rows that a restore took away are nowhere, and nobody is to commit one. *)
Gone ==
  /\ gone \cap Both = {} /\ gone \cap wal = {}
  /\ \A h \in Handler :
       /\ req[h] # NoRequest => Audit(h) \notin gone /\ Data(h) \notin gone
       /\ req[h].op = "restore" /\ pc[h] \in {"find", "truncate", "write", "truncate_db"}
            => Audit(h) \notin Both /\ Data(h) \notin Both
       /\ pc[h] = "write_db" => gone \cap backups[req[h].id].db.head = {}

DInv == Wal /\ Stored /\ Aged /\ Gone

IInv == TInv /\ SInv /\ BInv /\ DInv

-----------------------------------------------------------------------------
(* A restore has no others beside it. *)
LEMMA NoRestore ==
  ASSUME TInv, NEW h \in Handler, NEW k \in Handler, h # k, pc[k] # "idle"
  PROVE  req[h].op # "restore"
  BY DEF TInv, Alone

LEMMA IdleNone ==
  ASSUME TInv, NEW h \in Handler
  PROVE  (pc[h] = "idle") <=> (req[h] = NoRequest)
  BY InRequest, RequestFacts DEF TInv, Handling, NoRequest, Refresh, Closing

(* Steps that leave the database and the directories alone. *)
LEMMA DStill ==
  ASSUME TInv, DInv, NEW h \in Handler, NEW step \in Steps,
         UNCHANGED <<db, wal, backups, made, gone, good>>, logged' \subseteq logged,
         Moves(h, step) \/ (Ends(h) /\ step = "idle"),
         pc[h] \notin Closing, step \notin Closing, step # "write_db",
         step \in Refresh \cup {"log"} => pc[h] \in Refresh \cup {"log"} \/ req[h].op = "enable"
                                           \/ req[h].op = "backup",
         step \in {"find", "truncate", "write", "truncate_db"} =>
           pc[h] \in {"find", "truncate", "write", "truncate_db"} \/ req[h].op = "enable"
  PROVE  DInv'
<1>1. \A k \in Handler : k # h => pc'[k] = pc[k] /\ req'[k] = req[k]
  BY DEF Moves, Ends
<1>2. /\ pc'[h] = step
      /\ \/ req'[h] = NoRequest /\ step = "idle"
         \/ /\ req[h] # NoRequest /\ req'[h].op = req[h].op /\ req'[h].id = req[h].id
            /\ req'[h].number = req[h].number
  BY InRequest, RequestFacts DEF Moves, Ends, NoRequest
<1>3. Wal'
  BY <1>1, <1>2 DEF DInv, Wal, Closing
<1>4. Stored'
  BY <1>1, <1>2 DEF DInv, Stored, Both, Data, Closing, Refresh, NoRequest
<1>5. Aged'
  BY <1>1, <1>2 DEF DInv, Aged, Old
<1>6. Gone'
  BY <1>1, <1>2 DEF DInv, Gone, Both, Audit, Data, NoRequest
<1>7. QED
  BY <1>3, <1>4, <1>5, <1>6 DEF DInv

LEMMA DReceive ==
  ASSUME TInv, DInv, NEW h \in Handler, Receive(h)
  PROVE  DInv'
<1>1. /\ pc[h] = "idle" /\ made' = made + 1 /\ made \in Nat
      /\ UNCHANGED <<db, wal, backups, logged, gone, good>>
      /\ \A k \in Handler : k # h => pc'[k] = pc[k] /\ req'[k] = req[k]
      /\ req'[h].number = made + 1
      /\ pc'[h] \in {"change", "commit", "mkdir", "find"} /\ ~(pc'[h] \in Closing)
      /\ req'[h].op = "restore" <=> pc'[h] = "find"
  BY ReceiveStep DEF TInv, TypeOK, Closing
<1>2. Wal'
  BY <1>1 DEF DInv, Wal, Closing
<1>3. Stored'
  BY <1>1 DEF DInv, Stored, Both, Data, Closing, Refresh
<1>4. \A r \in Old : r[1] # made + 1
  BY <1>1 DEF Old
<1>5. Old \subseteq Old'
  BY <1>1 DEF Old, Row, Missing, Requests
<1>6. Aged'
  <2>1. \A k \in Handler : req[k] # NoRequest => req[k].number \in Nat
    BY RequestFacts DEF TInv, TypeOK, Requests
  <2>2. \A k \in Handler : req'[k] # NoRequest => req'[k].number <= made'
    BY <1>1, <2>1 DEF DInv, Aged
  <2>3. QED
    BY <1>1, <1>5, <2>2 DEF DInv, Aged
<1>7. Audit(h)' \notin Old /\ Data(h)' \notin Old
  BY <1>1, <1>4 DEF Audit, Data
<1>8. Gone'
  BY <1>1, <1>7 DEF DInv, Aged, Gone, Both, Audit, Data
<1>9. QED
  BY <1>2, <1>3, <1>6, <1>8 DEF DInv

LEMMA DCommit ==
  ASSUME TInv, DInv, NEW h \in Handler, Commit(h)
  PROVE  DInv'
<1>1. /\ pc[h] \in {"commit", "log"} /\ (pc[h] = "commit" => req[h].op = "device")
      /\ pc'[h] = "close" /\ req' = req /\ req[h] # NoRequest
      /\ \A k \in Handler : pc[k] \notin Closing
      /\ \A k \in Handler : k # h => pc'[k] = pc[k]
      /\ RowOf(h) = (IF pc[h] = "commit" THEN Data(h) ELSE Audit(h))
      /\ RowOf(h) \in Row /\ wal' = wal \cup {RowOf(h)}
      /\ UNCHANGED <<db, backups, made, logged, gone, good>>
  BY CommitStep, IdleNone DEF Moves, Data, Audit
<1>2. Wal'
  BY <1>1 DEF Wal, Closing
<1>3. Stored'
  BY <1>1 DEF DInv, Stored, Both, Data, Closing, Refresh
<1>4. req[h].number <= made /\ RowOf(h)[1] = req[h].number
  BY <1>1 DEF DInv, Aged, Data, Audit
<1>5. RowOf(h) \in Old
  BY <1>1, <1>4 DEF Old
<1>6. Aged'
  BY <1>1, <1>5 DEF DInv, Aged, Old
<1>7. Gone'
  BY <1>1 DEF DInv, Gone, Both, Audit, Data
<1>8. QED
  BY <1>2, <1>3, <1>6, <1>7 DEF DInv

LEMMA DCheckpoint ==
  ASSUME TInv, DInv, NEW h \in Handler, Checkpoint(h)
  PROVE  DInv'
<1>1. /\ pc[h] = "close" /\ pc'[h] = "close_rest" /\ req' = req
      /\ \A k \in Handler : k # h => pc'[k] = pc[k]
      /\ db'.head = db.head \cup wal /\ db'.rest = db.rest
      /\ UNCHANGED <<wal, backups, made, logged, gone, good>>
  BY CheckpointStep DEF Moves
<1>2. Wal'
  BY <1>1 DEF DInv, Wal, Closing
<1>3. Stored'
  BY <1>1 DEF DInv, Stored, Both, Data, Closing, Refresh
<1>4. Aged'
  BY <1>1 DEF DInv, Aged, Old
<1>5. \A k \in Handler : pc[k] \in {"find", "truncate", "write", "truncate_db"}
                          => req[k].op # "restore"
  BY <1>1, NoRestore DEF TInv
<1>6. Gone'
  BY <1>1, <1>5 DEF DInv, Gone, Both, Audit, Data
<1>7. QED
  BY <1>2, <1>3, <1>4, <1>6 DEF DInv

LEMMA DClose ==
  ASSUME TInv, DInv, BInv, NEW h \in Handler, Close(h)
  PROVE  DInv'
<1>1. /\ pc[h] = "close_rest" /\ wal' = {} /\ req[h] # NoRequest
      /\ db'.head = db.head /\ db'.rest = db.rest \cup wal
      /\ \A k \in Handler : k # h => pc'[k] = pc[k] /\ req'[k] = req[k]
      /\ UNCHANGED <<backups, made, gone>>
  BY CloseStep, IdleNone DEF Moves, Ends
<1>2. Both' = Both \cup wal
  BY <1>1 DEF DInv, Wal, Both
<1>3. \A k \in Handler : k # h => pc[k] \notin Closing
  BY <1>1 DEF TInv, Locked, Closing
<1>4. \A k \in Handler : k # h => req[k].op # "restore"
  BY <1>1, NoRestore
<1>5. Wal'
  BY <1>1, <1>3 DEF Wal, Closing, Moves
<1>6. Aged'
  <2>1. req'[h] = NoRequest \/ req'[h].number = req[h].number
    BY CloseStep DEF Ends
  <2>2. QED
    BY <1>1, <2>1 DEF DInv, Aged, Old
<1>7. Gone'
  <2>1. \/ req'[h] = NoRequest /\ pc'[h] = "idle"
        \/ req'[h] = req[h] /\ pc'[h] = "load"
    BY CloseStep DEF Ends, Moves
  <2>2. NoRequest.op # "restore"
    BY DEF NoRequest
  <2>3. QED
    BY <1>1, <1>2, <1>4, <2>1, <2>2 DEF DInv, Gone, Audit, Data
<1>8. CASE req[h].op = "device" /\ Audit(h) \notin wal
  <2>1. /\ req[h].op = "device" /\ pc'[h] = "load" /\ req' = req
        /\ UNCHANGED <<logged, good>>
    BY <1>8, CloseStep DEF Moves
  <2>2. Data(h) \in Both'
    BY <1>1, <1>2, <2>1 DEF DInv, Stored, Closing
  <2>3. Stored'
    BY <1>1, <1>2, <1>3, <1>4, <2>1, <2>2 DEF DInv, Stored, Data, Closing, Refresh
  <2>4. QED
    BY <1>5, <1>6, <1>7, <2>3 DEF DInv
<1>9. CASE Audit(h) \in wal
  <2>1. /\ Ends(h)
        /\ logged' = IF ~Whole(db') THEN {}
                     ELSE ({Audit(h)} \cup (IF req[h].op = "device" THEN {Data(h)} ELSE {}))
                          \cup (IF req[h].op # "restore" THEN logged
                                ELSE IF good[req[h].id].whole THEN good[req[h].id].rows
                                ELSE {})
    BY <1>9, CloseStep
  <2>2. logged' \subseteq Both'
    <3>1. Audit(h) \in Both'
      BY <1>2, <1>9
    <3>2. req[h].op = "device" => Data(h) \in Both'
      BY <1>1, <1>2 DEF DInv, Stored, Closing
    <3>3. logged \subseteq Both'
      BY <1>2 DEF DInv, Stored
    <3>4. req[h].op = "restore" /\ good[req[h].id].whole => good[req[h].id].rows \subseteq Both'
      BY <1>1, <1>2 DEF DInv, Stored, Closing
    <3>5. QED
      BY <2>1, <3>1, <3>2, <3>3, <3>4
  <2>3. pc'[h] = "idle"
    BY <2>1 DEF Ends
  <2>4. Stored'
    BY <1>1, <1>2, <1>3, <1>4, <2>2, <2>3 DEF DInv, Stored, Data, Closing, Refresh
  <2>5. QED
    BY <1>5, <1>6, <1>7, <2>4 DEF DInv
<1>10. QED
  BY <1>8, <1>9, CloseStep

(* Steps of a backup. *)
LEMMA DBackup ==
  ASSUME TInv, DInv, NEW h \in Handler,
         MakeDir(h) \/ CopyConfig(h) \/ CopyDb(h) \/ CopyRest(h)
  PROVE  DInv'
<1>1. /\ req[h].op = "backup" /\ req'[h].op = "backup" /\ req'[h].number = req[h].number
      /\ pc[h] \in {"mkdir", "copy_config", "copy_db", "copy_rest"}
      /\ pc'[h] \in {"copy_config", "copy_db", "copy_rest", "log"}
      /\ \A k \in Handler : k # h => pc'[k] = pc[k] /\ req'[k] = req[k]
      /\ UNCHANGED <<db, wal, made, logged, gone>>
  <2>1. CASE MakeDir(h)
    BY <2>1, MakeDirStep
  <2>2. CASE CopyConfig(h)
    BY <2>2, CopyConfigStep DEF Moves
  <2>3. CASE CopyDb(h)
    BY <2>3, CopyDbStep DEF Moves
  <2>4. CASE CopyRest(h)
    BY <2>4, CopyRestStep DEF Moves
  <2>5. QED
    BY <2>1, <2>2, <2>3, <2>4
<1>2. \A k \in Handler : req[k].op # "restore" /\ req'[k].op # "restore"
  BY <1>1, NoRestore
<1>3. req[h] # NoRequest
  BY <1>1 DEF NoRequest
<1>4. Wal'
  BY <1>1 DEF DInv, Wal, Closing
<1>5. Stored'
  BY <1>1, <1>2 DEF DInv, Stored, Both, Data, Closing, Refresh
<1>6. \A s \in 0 .. MaxSecond : backups'[s].db.head \subseteq Old
  <2>1. EmptyDir.db.head \subseteq Old
    BY DEF EmptyDir, NoDb, Old, Missing, TInv, TypeOK
  <2>2. CASE MakeDir(h)
    BY <2>1, <2>2, MakeDirStep DEF DInv, Aged
  <2>3. CASE CopyConfig(h)
    BY <2>3, CopyConfigStep DEF DInv, Aged
  <2>4. CASE CopyDb(h)
    BY <2>4, CopyDbStep DEF DInv, Aged
  <2>5. CASE CopyRest(h)
    <3>1. backups'[req[h].id].db = [head |-> backups[req[h].id].db.head, rest |-> db.rest]
      BY <2>5, CopyRestStep
    <3>2. \A s \in 0 .. MaxSecond : s # req[h].id => backups'[s] = backups[s]
      BY <2>5, CopyRestStep
    <3>3. backups'[req[h].id].db.head = backups[req[h].id].db.head
      BY <3>1
    <3>4. QED
      BY <3>2, <3>3 DEF DInv, Aged
  <2>6. QED
    BY <2>2, <2>3, <2>4, <2>5
<1>7. Aged'
  BY <1>1, <1>3, <1>6 DEF DInv, Aged, Old
<1>8. Gone'
  BY <1>1, <1>2, <1>3 DEF DInv, Gone, Both, Audit, Data, TInv, Handling, NoRequest, Refresh, Closing
<1>9. QED
  BY <1>4, <1>5, <1>7, <1>8 DEF DInv

(* A restore is alone, and no connection is being closed. *)
LEMMA DTruncateDb ==
  ASSUME TInv, SInv, DInv, BInv, NEW h \in Handler, TruncateDb(h)
  PROVE  DInv'
<1> DEFINE copy == backups[req[h].id].db
<1>1. /\ pc[h] = "truncate_db" /\ req[h].op = "restore" /\ req[h].id \in 0 .. MaxSecond
      /\ req' = req /\ UNCHANGED <<wal, backups, made, logged, good>>
      /\ \A k \in Handler : k # h => pc'[k] = pc[k]
  BY TruncateDbStep DEF Moves
<1>2. \A k \in Handler : k # h => pc[k] = "idle" /\ req[k] = NoRequest
  BY <1>1, IdleNone DEF TInv, Alone
<1>3. wal = {} /\ logged = {}
  BY <1>1, <1>2 DEF DInv, Wal, Closing, SInv, Restoring, Restored
<1>4. CASE copy = NoDb
  <2>1. pc'[h] = "load" /\ UNCHANGED <<db, gone>>
    BY <1>4, TruncateDbStep DEF Moves
  <2>2. ~good[req[h].id].whole
    BY <1>1, <1>4 DEF BInv, PromisedRows, Has, Whole
  <2>3. Wal'
    BY <1>1, <1>2, <1>3, <2>1 DEF Wal
  <2>4. Stored'
    BY <1>1, <1>2, <1>3, <2>1, <2>2 DEF DInv, Stored, Both, Data, Closing, Refresh
  <2>5. Aged'
    BY <1>1, <2>1 DEF DInv, Aged, Old
  <2>6. Gone'
    BY <1>1, <1>2, <2>1 DEF DInv, Gone, Both, Audit, Data
  <2>7. QED
    BY <2>3, <2>4, <2>5, <2>6 DEF DInv
<1>5. CASE copy # NoDb
  <2>1. /\ pc'[h] = "write_db" /\ db' = EmptyDb
        /\ gone' = IF Whole(copy) THEN (gone \cup Live) \ copy.head ELSE {}
    BY <1>5, TruncateDbStep DEF Moves
  <2>2. db'.head = {} /\ db'.rest = {} /\ Both' = {}
    BY <2>1 DEF EmptyDb, Both
  <2>3. Live \subseteq Both
    BY <1>3 DEF Live, Both
  <2>4. Wal'
    BY <1>1, <1>2, <1>3, <2>1 DEF Wal, Closing
  <2>5. Stored'
    BY <1>1, <1>2, <1>3, <2>1 DEF Stored, Closing, Refresh, NoRequest
  <2>6. Aged'
    BY <1>1, <2>1, <2>2, <2>3 DEF DInv, Aged, Old, Both
  <2>7. req[h] # NoRequest
    BY <1>1 DEF NoRequest
  <2>8. Audit(h) \notin gone' /\ Data(h) \notin gone'
    BY <1>1, <2>1, <2>3, <2>7 DEF DInv, Gone
  <2>9. gone' \cap copy.head = {}
    BY <2>1
  <2>10. Gone'
    BY <1>1, <1>2, <1>3, <2>1, <2>2, <2>8, <2>9 DEF DInv, Gone, Audit, Data
  <2>11. QED
    BY <2>4, <2>5, <2>6, <2>10 DEF DInv
<1>6. QED
  BY <1>4, <1>5

LEMMA DWriteDb ==
  ASSUME TInv, SInv, DInv, BInv, NEW h \in Handler, WriteDb(h)
  PROVE  DInv'
<1> DEFINE copy == backups[req[h].id].db
<1>1. /\ pc[h] = "write_db" /\ req[h].op = "restore" /\ req[h].id \in 0 .. MaxSecond
      /\ req' = req /\ UNCHANGED <<wal, backups, made, logged, gone, good>>
      /\ \A k \in Handler : k # h => pc'[k] = pc[k]
      /\ pc'[h] = "load" /\ db' = copy
  BY WriteDbStep DEF Moves
<1>2. \A k \in Handler : k # h => pc[k] = "idle" /\ req[k] = NoRequest
  BY <1>1, IdleNone DEF TInv, Alone
<1>3. wal = {} /\ logged = {}
  BY <1>1, <1>2 DEF DInv, Wal, Closing, SInv, Restoring, Restored
<1>4. Wal'
  BY <1>1, <1>2, <1>3 DEF Wal, Closing
<1>5. good[req[h].id].whole => good[req[h].id].rows \subseteq Both'
  BY <1>1 DEF BInv, PromisedRows, Has, Whole, Both
<1>6. Stored'
  BY <1>1, <1>2, <1>3, <1>5 DEF Stored, Closing, Refresh, NoRequest
<1>7. Aged'
  BY <1>1 DEF DInv, Aged, Old
<1>8. gone \cap copy.head = {}
  BY <1>1 DEF DInv, Gone
<1>9. Gone'
  BY <1>1, <1>2, <1>3, <1>8 DEF DInv, Gone, Both, Audit, Data
<1>10. QED
  BY <1>4, <1>6, <1>7, <1>9 DEF DInv

LEMMA DStop ==
  ASSUME TInv, DInv, Stop
  PROVE  DInv'
<1>1. /\ \A h \in Handler : pc'[h] = "idle" /\ req'[h] = NoRequest
      /\ db'.head = db.head \cup wal /\ db'.rest = db.rest \cup wal /\ wal' = {}
      /\ UNCHANGED <<backups, made, logged, gone, good>>
  BY StopStep
<1>2. Both' = Both \cup wal
  BY <1>1, StopStep DEF Both
<1>3. Wal'
  BY <1>1 DEF Wal, Closing
<1>4. Stored'
  BY <1>1, <1>2 DEF DInv, Stored, NoRequest
<1>5. Aged'
  BY <1>1 DEF DInv, Aged, Old
<1>6. Gone'
  BY <1>1, <1>2 DEF DInv, Gone, NoRequest
<1>7. QED
  BY <1>3, <1>4, <1>5, <1>6 DEF DInv

LEMMA DOther ==
  ASSUME TInv, SInv, DInv, NEW h \in Handler,
         \/ Enable(h) \/ AlreadyEnabled(h) \/ Save(h) \/ Truncate(h) \/ Write(h)
         \/ Load(h) \/ Parse(h) \/ ParseError(h) \/ Reset(h) \/ Refill(h) \/ Assign(h)
         \/ Fault(h) \/ Find(h) \/ NotFound(h)
  PROVE  DInv'
<1>1. CASE Enable(h)
  BY <1>1, EnableStep, DStill DEF Steps, Refresh, Closing
<1>2. CASE AlreadyEnabled(h)
  BY <1>2, AlreadyEnabledStep, DStill DEF Steps, Refresh, Closing
<1>3. CASE Save(h)
  BY <1>3, SaveStep, DStill DEF Steps, Refresh, Closing
<1>4. CASE Truncate(h)
  BY <1>4, TruncateStep, DStill DEF Steps, Refresh, Closing
<1>5. CASE Write(h)
  <2>1. CASE req[h].op = "restore"
    BY <1>5, <2>1, WriteStep, DStill DEF Steps, Refresh, Closing
  <2>2. CASE req[h].op # "restore"
    BY <1>5, <2>2, WriteStep, DStill DEF Steps, Refresh, Closing
  <2>3. QED
    BY <2>1, <2>2
<1>6. CASE Load(h)
  <2>1. CASE file.full
    BY <1>6, <2>1, LoadStep, DStill DEF Steps, Refresh, Closing
  <2>2. CASE ~file.full
    BY <1>6, <2>2, LoadStep, DStill DEF Steps, Refresh, Closing
  <2>3. QED
    BY <2>1, <2>2
<1>7. CASE Parse(h)
  BY <1>7, ParseStep, DStill DEF Steps, Refresh, Closing
<1>8. CASE Reset(h)
  BY <1>8, ResetStep, DStill DEF Steps, Refresh, Closing
<1>9. CASE Refill(h)
  BY <1>9, RefillStep, DStill DEF Steps, Refresh, Closing
<1>10. CASE Assign(h)
  BY <1>10, AssignStep, DStill DEF Steps, Refresh, Closing
<1>11. CASE ParseError(h) \/ Fault(h) \/ NotFound(h)
  BY <1>11, FailStep, DStill DEF Steps, Refresh, Closing
<1>12. CASE Find(h)
  <2>1. logged' \subseteq logged /\ pc[h] = "find"
        /\ UNCHANGED <<db, wal, backups, made, gone, good>>
    BY <1>12, FindStep
  <2>2. CASE Moves(h, "truncate_db")
    BY <2>1, <2>2, DStill DEF Steps, Refresh, Closing
  <2>3. CASE Moves(h, "truncate")
    BY <2>1, <2>3, DStill DEF Steps, Refresh, Closing
  <2>4. QED
    BY <1>12, <2>2, <2>3, FindStep
<1>13. QED
  BY <1>1, <1>2, <1>3, <1>4, <1>5, <1>6, <1>7, <1>8, <1>9, <1>10, <1>11, <1>12

-----------------------------------------------------------------------------
(* Steps of others that leave the directories and the database file alone, *)
(* and promise no more.                                                    *)
LEMMA BStill ==
  ASSUME TInv, TInv', BInv, NEW h \in Handler, NEW step \in Steps,
         UNCHANGED <<backups, good, db>>,
         Moves(h, step) \/ (Ends(h) /\ step = "idle"),
         \A k \in Handler : req[k].op = "backup" /\ req'[k].op = "backup" =>
           /\ owed'[k].config \subseteq owed[k].config
           /\ owed'[k].rows = owed[k].rows /\ owed'[k].whole = owed[k].whole,
         req[h].op = "backup" /\ step # "idle" =>
           pc[h] \in {"log"} \cup Closing /\ step \in {"log"} \cup Closing
  PROVE  BInv'
<1>1. /\ \A k \in Handler : k # h => pc'[k] = pc[k] /\ req'[k] = req[k]
      /\ pc'[h] = step
      /\ \/ req'[h] = NoRequest /\ step = "idle" /\ req'[h].op # "backup"
         \/ /\ step # "idle"
            /\ req'[h].op = req[h].op /\ req'[h].id = req[h].id
  <2>1. NoRequest.op # "backup"
    BY DEF NoRequest
  <2>2. CASE Ends(h) /\ step = "idle"
    BY <2>1, <2>2 DEF Ends
  <2>3. CASE Moves(h, step)
    BY <2>3 DEF Moves, TInv, Handling, Refresh, Closing
  <2>4. QED
    BY <2>2, <2>3
<1>2. \A k \in Handler : req'[k].op = "backup" =>
        /\ req[k].op = "backup" /\ req'[k].id = req[k].id
        /\ Writer(k) <=> Writer(k)'
        /\ pc[k] = "copy_config" <=> pc'[k] = "copy_config"
        /\ pc[k] \in {"mkdir", "copy_config", "copy_db"}
             <=> pc'[k] \in {"mkdir", "copy_config", "copy_db"}
        /\ pc[k] = "copy_rest" <=> pc'[k] = "copy_rest"
        /\ pc[k] \in {"log"} \cup Closing <=> pc'[k] \in {"log"} \cup Closing
        /\ owed'[k].config \subseteq owed[k].config
        /\ owed'[k].rows = owed[k].rows /\ owed'[k].whole = owed[k].whole
  BY <1>1 DEF Writer, Closing
<1>3. ASSUME NEW k \in Handler, req'[k].op = "backup", owed[k] = Nothing
      PROVE  owed'[k] = Nothing
  <2>1. owed'[k] \in Promise
    BY DEF TInv, TypeOK
  <2>2. QED
    BY <1>2, <1>3, <2>1, NothingFacts, NothingOnly
<1>4. Shared'
  BY <1>2, <1>3 DEF BInv, Shared, Writer
<1>5. Unfinished'
  BY <1>2 DEF BInv, Unfinished, Writer
<1>6. Copied'
  BY <1>2 DEF BInv, Copied, Writer, Holds
<1>7. Promised' /\ PromisedRows'
  BY DEF BInv, Promised, PromisedRows, Holds, Has
<1>8. CopiedRows'
  BY <1>2 DEF BInv, CopiedRows, Has, Whole
<1>9. QED
  BY <1>4, <1>5, <1>6, <1>7, <1>8 DEF BInv

LEMMA BOther ==
  ASSUME TInv, SInv, BInv, NEW h \in Handler,
         \/ Enable(h) \/ AlreadyEnabled(h) \/ Save(h) \/ Truncate(h) \/ Write(h)
         \/ Load(h) \/ Parse(h) \/ ParseError(h) \/ Reset(h) \/ Refill(h) \/ Assign(h)
         \/ Commit(h) \/ Fault(h) \/ Find(h) \/ NotFound(h)
  PROVE  BInv'
<1>1. CASE Enable(h)
  <2>1. \A k \in Handler : req[k].op = "backup" =>
          /\ owed'[k].config \subseteq owed[k].config
          /\ owed'[k].rows = owed[k].rows /\ owed'[k].whole = owed[k].whole
    BY <1>1, EnableStep
  <2>2. QED
    BY <1>1, <2>1, EnableStep, BStill DEF Steps
<1>2. CASE AlreadyEnabled(h)
  <2>1. \A k \in Handler : req'[k].op = "backup" => owed'[k] = owed[k]
    BY <1>2, AlreadyEnabledStep DEF Ends, NoRequest
  <2>2. QED
    BY <1>2, <2>1, AlreadyEnabledStep, BStill DEF Steps
<1>3. CASE Save(h)
  BY <1>3, SaveStep, BStill DEF Steps
<1>4. CASE Truncate(h)
  BY <1>4, TruncateStep, BStill DEF Steps
<1>5. CASE Write(h)
  <2>1. CASE req[h].op = "restore"
    BY <1>5, <2>1, WriteStep, BStill DEF Steps
  <2>2. CASE req[h].op # "restore"
    BY <1>5, <2>2, WriteStep, BStill DEF Steps
  <2>3. QED
    BY <2>1, <2>2
<1>6. CASE Load(h)
  <2>1. \A k \in Handler : /\ owed'[k].config \subseteq owed[k].config
                           /\ owed'[k].rows = owed[k].rows /\ owed'[k].whole = owed[k].whole
    BY <1>6, LoadStep
  <2>2. CASE file.full
    BY <1>6, <2>1, <2>2, LoadStep, BStill DEF Steps
  <2>3. CASE ~file.full
    BY <1>6, <2>1, <2>3, LoadStep, BStill DEF Steps
  <2>4. QED
    BY <2>2, <2>3
<1>7. CASE Parse(h) \/ Reset(h) \/ Refill(h) \/ Assign(h)
  <2>1. CASE Parse(h)
    BY <2>1, ParseStep, BStill DEF Steps, TInv, Handling, Refresh, Closing
  <2>2. CASE Reset(h)
    BY <2>2, ResetStep, BStill DEF Steps, TInv, Handling, Refresh, Closing
  <2>3. CASE Refill(h)
    BY <2>3, RefillStep, BStill DEF Steps, TInv, Handling, Refresh, Closing
  <2>4. CASE Assign(h)
    BY <2>4, AssignStep, BStill DEF Steps, TInv, Handling, Refresh, Closing
  <2>5. QED
    BY <1>7, <2>1, <2>2, <2>3, <2>4
<1>8. CASE Commit(h)
  BY <1>8, CommitStep, BStill DEF Steps, Closing, TInv, Handling, Refresh
<1>9. CASE ParseError(h) \/ Fault(h) \/ NotFound(h)
  <2>1. \A k \in Handler : req'[k].op = "backup" => owed'[k] = owed[k]
    BY <1>9, FailStep DEF Ends, NoRequest
  <2>2. QED
    BY <1>9, <2>1, FailStep, BStill DEF Steps
<1>10. CASE Find(h)
  <2>1. TInv' /\ req[h].op = "restore" /\ UNCHANGED <<backups, good, db, owed>>
    BY <1>10, FindStep
  <2>2. CASE Moves(h, "truncate_db")
    BY <2>1, <2>2, BStill DEF Steps
  <2>3. CASE Moves(h, "truncate")
    BY <2>1, <2>3, BStill DEF Steps
  <2>4. QED
    BY <1>10, <2>2, <2>3, FindStep
<1>11. QED
  BY <1>1, <1>2, <1>3, <1>4, <1>5, <1>6, <1>7, <1>8, <1>9, <1>10

LEMMA BReceive ==
  ASSUME TInv, SInv, BInv, DInv, NEW h \in Handler, Receive(h)
  PROVE  BInv'
<1>1. /\ UNCHANGED <<db, backups, good>>
      /\ \A k \in Handler : k # h => pc'[k] = pc[k] /\ req'[k] = req[k] /\ owed'[k] = owed[k]
      /\ req'[h].op = "backup" =>
           pc'[h] = "mkdir" /\ owed'[h] = [config |-> kept, rows |-> logged, whole |-> TRUE]
  BY ReceiveStep
<1>2. Shared' /\ Unfinished'
  BY <1>1 DEF BInv, Shared, Unfinished, Writer
<1>3. Copied' /\ Promised' /\ PromisedRows'
  BY <1>1 DEF BInv, Copied, Promised, PromisedRows, Writer, Holds, Has, Whole
<1>4. req'[h].op = "backup" => owed'[h].rows \subseteq db.head \cap db.rest
  BY <1>1 DEF DInv, Stored, Both
<1>5. CopiedRows'
  BY <1>1, <1>4 DEF BInv, CopiedRows, Has, Whole, Closing
<1>6. QED
  BY <1>2, <1>3, <1>5 DEF BInv

LEMMA BCheckpoint ==
  ASSUME TInv, BInv, NEW h \in Handler, Checkpoint(h)
  PROVE  BInv'
<1>1. /\ TInv' /\ pc[h] = "close" /\ pc'[h] = "close_rest" /\ req' = req
      /\ \A k \in Handler : k # h => pc'[k] = pc[k]
      /\ db'.head = db.head \cup wal /\ db'.rest = db.rest
      /\ \A k \in Handler :
           /\ owed'[k].config = owed[k].config /\ owed'[k].rows = owed[k].rows
           /\ owed'[k].whole = (owed[k].whole /\ pc[k] # "copy_rest")
      /\ UNCHANGED <<backups, good>>
  BY CheckpointStep DEF Moves
<1>2. ASSUME NEW k \in Handler, owed[k] = Nothing
      PROVE  owed'[k] = Nothing
  <2>1. owed'[k] \in Promise
    BY <1>1 DEF TInv, TypeOK
  <2>2. QED
    BY <1>1, <1>2, <2>1, NothingFacts, NothingOnly
<1>3. Shared' /\ Unfinished'
  BY <1>1, <1>2 DEF BInv, Shared, Unfinished, Writer
<1>4. Copied' /\ Promised' /\ PromisedRows'
  BY <1>1 DEF BInv, Copied, Promised, PromisedRows, Writer, Holds, Has, Whole
<1>5. CopiedRows'
  <2>1. ASSUME NEW k \in Handler, req'[k].op = "backup", owed'[k].whole
        PROVE  /\ req[k].op = "backup" /\ owed[k].whole /\ pc'[k] # "copy_rest"
               /\ pc'[k] \in {"mkdir", "copy_config", "copy_db"} => pc[k] = pc'[k]
               /\ pc'[k] \in {"log"} \cup Closing => pc[k] \in {"log"} \cup Closing
    BY <1>1, <2>1 DEF Closing
  <2>2. QED
    BY <1>1, <2>1 DEF BInv, CopiedRows, Has, Whole
<1>6. QED
  BY <1>3, <1>4, <1>5 DEF BInv

LEMMA BClose ==
  ASSUME TInv, BInv, DInv, NEW h \in Handler, Close(h)
  PROVE  BInv'
<1>1. /\ pc[h] = "close_rest"
      /\ db'.head = db.head /\ db'.rest = db.rest \cup wal
      /\ db' = [head |-> db.head, rest |-> db.rest \cup wal]
      /\ \A k \in Handler : k # h => pc'[k] = pc[k] /\ req'[k] = req[k] /\ owed'[k] = owed[k]
      /\ UNCHANGED backups
      /\ req'[h].op # "backup"
  <2>1. CASE Moves(h, "load") /\ req[h].op = "device" /\ UNCHANGED owed
    BY <2>1, CloseStep DEF Moves
  <2>2. CASE Ends(h)
    BY <2>2, CloseStep DEF Ends, NoRequest
  <2>3. QED
    BY <2>1, <2>2, CloseStep
<1>2. db.head = db.rest => db' = db
  <2>1. wal \subseteq db.head /\ db = [head |-> db.head, rest |-> db.rest]
    BY <1>1 DEF DInv, Wal, TInv, TypeOK, DbFile
  <2>2. db.head = db.rest => db.rest \cup wal = db.rest
    BY <2>1
  <2>3. QED
    BY <1>1, <2>1, <2>2
<1>3. Shared' /\ Copied'
  BY <1>1 DEF BInv, Shared, Copied, Writer, Holds
<1>4. CopiedRows'
  <2>1. SUFFICES ASSUME NEW k \in Handler, req'[k].op = "backup", owed'[k].whole
        PROVE  /\ pc'[k] \in {"mkdir", "copy_config", "copy_db"}
                    => owed'[k].rows \subseteq db'.head \cap db'.rest
               /\ pc'[k] = "copy_rest" => /\ backups'[req'[k].id].db.head = db'.head
                                          /\ Has(db, owed[k].rows)'
               /\ pc'[k] \in {"log"} \cup Closing
                    => Has(backups'[req'[k].id].db, owed'[k].rows)
    BY DEF CopiedRows, Has, Whole
  <2>2. /\ k # h /\ pc'[k] = pc[k] /\ req'[k] = req[k] /\ owed'[k] = owed[k]
        /\ backups' = backups
    BY <1>1, <2>1
  <2>3. /\ pc[k] \in {"mkdir", "copy_config", "copy_db"}
             => owed[k].rows \subseteq db.head \cap db.rest
        /\ pc[k] = "copy_rest" => /\ backups[req[k].id].db.head = db.head
                                  /\ Has(db, owed[k].rows)
        /\ pc[k] \in {"log"} \cup Closing => Has(backups[req[k].id].db, owed[k].rows)
    BY <2>1, <2>2 DEF BInv, CopiedRows
  <2>4. pc[k] \in {"mkdir", "copy_config", "copy_db"}
          => owed[k].rows \subseteq db'.head \cap db'.rest
    BY <1>1, <2>3
  <2>5. pc[k] = "copy_rest" => db' = db
    BY <1>2, <2>3 DEF Has, Whole
  <2>6. QED
    BY <2>2, <2>3, <2>4, <2>5 DEF Has, Whole
<1>5. CASE good' = good
  BY <1>1, <1>3, <1>4, <1>5 DEF BInv, Unfinished, Promised, PromisedRows, Writer, Has
<1>6. CASE req[h].op = "backup" /\ good' = [good EXCEPT ![req[h].id] = owed[h]]
  <2>1. req[h].id \in 0 .. MaxSecond
    BY <1>1, InRequest, RequestFacts
  <2>2. /\ good'[req[h].id] = owed[h]
        /\ \A s \in 0 .. MaxSecond : s # req[h].id => good'[s] = good[s]
    BY <1>6, <2>1 DEF TInv, TypeOK
  <2>3. Writer(h) /\ pc[h] # "copy_config"
    BY <1>1, <1>6 DEF Writer
  <2>4. ASSUME NEW k \in Handler, Writer(k)' PROVE good'[req'[k].id] = Nothing
    <3>1. k # h /\ Writer(k) /\ req'[k] = req[k]
      BY <1>1, <2>4 DEF Writer
    <3>2. req[k].id \in 0 .. MaxSecond
      BY <3>1, IdleNone, RequestFacts DEF TInv, TypeOK, Writer, NoRequest
    <3>3. CASE req[k].id = req[h].id
      BY <2>2, <2>3, <3>1, <3>3 DEF BInv, Shared
    <3>4. CASE req[k].id # req[h].id
      BY <2>2, <3>1, <3>2, <3>4 DEF BInv, Unfinished
    <3>5. QED
      BY <3>3, <3>4
  <2>5. Unfinished'
    BY <2>4 DEF Unfinished
  <2>6. Promised'
    BY <1>1, <2>2, <2>3 DEF BInv, Promised, Copied, Holds
  <2>7. PromisedRows'
    BY <1>1, <1>6, <2>2 DEF BInv, PromisedRows, CopiedRows, Has, Whole, Closing
  <2>8. QED
    BY <1>3, <1>4, <2>5, <2>6, <2>7 DEF BInv
<1>7. QED
  BY <1>5, <1>6, CloseStep

LEMMA BStop ==
  ASSUME TInv, BInv, Stop
  PROVE  BInv'
<1>1. /\ \A h \in Handler : req'[h].op # "backup"
      /\ UNCHANGED <<backups, good>>
  BY StopStep DEF NoRequest
<1>2. QED
  BY <1>1 DEF BInv, Shared, Unfinished, Copied, CopiedRows, Promised, PromisedRows, Writer,
              Holds, Has

LEMMA BRestoreDb ==
  ASSUME TInv, BInv, NEW h \in Handler, TruncateDb(h) \/ WriteDb(h)
  PROVE  BInv'
<1>1. /\ pc[h] # "idle" /\ req[h].op = "restore" /\ req' = req
      /\ UNCHANGED <<backups, good>>
  <2>1. CASE TruncateDb(h)
    BY <2>1, TruncateDbStep
  <2>2. CASE WriteDb(h)
    BY <2>2, WriteDbStep
  <2>3. QED
    BY <2>1, <2>2
<1>2. \A k \in Handler : req'[k].op # "backup"
  BY <1>1, IdleNone DEF TInv, Alone, NoRequest
<1>3. QED
  BY <1>1, <1>2 DEF BInv, Shared, Unfinished, Copied, CopiedRows, Promised, PromisedRows,
                    Writer, Holds, Has

LEMMA WriterFacts ==
  ASSUME TInv, NEW h \in Handler, Writer(h)
  PROVE  req[h].id \in 0 .. MaxSecond
  BY RequestFacts DEF TInv, TypeOK, Writer, NoRequest

LEMMA BMakeDir ==
  ASSUME TInv, BInv, NEW h \in Handler, MakeDir(h)
  PROVE  BInv'
<1>1. /\ pc[h] = "mkdir" /\ req[h].op = "backup" /\ UNCHANGED db
      /\ \A k \in Handler : k # h => pc'[k] = pc[k] /\ req'[k] = req[k]
      /\ pc'[h] = "copy_config" /\ req'[h].op = "backup"
  BY MakeDirStep
<1>2. PICK s \in 0 .. MaxSecond :
        /\ req'[h].id = s
        /\ \A x \in 0 .. MaxSecond : x # s => backups'[x] = backups[x] /\ good'[x] = good[x]
        /\ good'[s] = Nothing
        /\ \A k \in Handler :
             owed'[k] = IF Writers(s) # {} /\ k \in Writers(s) \cup {h} THEN Nothing ELSE owed[k]
  BY MakeDirStep
<1>3. /\ Writer(h)' /\ ~Writer(h)
      /\ \A k \in Handler : k # h => (Writer(k)' <=> Writer(k))
      /\ \A k \in Handler : Writer(k) /\ req[k].id = s <=> k \in Writers(s)
  BY <1>1 DEF Writer, Writers
<1>4. \A k \in Handler : Writer(k) => req[k].id \in 0 .. MaxSecond
  BY WriterFacts
<1>5. ASSUME NEW k \in Handler, Writer(k), req[k].id = s
      PROVE  owed'[k] = Nothing /\ owed'[h] = Nothing
  BY <1>2, <1>3, <1>5
<1>6. Shared'
  <2>1. ASSUME NEW j \in Handler, NEW k \in Handler, j # k, Writer(j)', Writer(k)',
               req'[j].id = req'[k].id
        PROVE  owed'[j] = Nothing
    <3>1. CASE req'[j].id = s
      BY <1>1, <1>3, <1>5, <2>1, <3>1
    <3>2. CASE req'[j].id # s
      <4>1. /\ j # h /\ k # h /\ Writer(j) /\ Writer(k) /\ req[j].id = req[k].id
        BY <1>1, <1>2, <1>3, <2>1, <3>2
      <4>2. owed[j] = Nothing
        BY <2>1, <4>1 DEF BInv, Shared
      <4>3. QED
        BY <1>2, <4>2
    <3>3. QED
      BY <3>1, <3>2
  <2>2. QED
    BY <2>1 DEF Shared
<1>7. Unfinished'
  BY <1>1, <1>2, <1>3, <1>4 DEF BInv, Unfinished
<1>8. Copied'
  <2>1. ASSUME NEW k \in Handler, Writer(k)', pc'[k] # "copy_config"
        PROVE  Holds(backups[req[k].id], owed[k].config)' 
    <3>1. k # h /\ Writer(k) /\ req'[k] = req[k] /\ pc[k] # "copy_config"
      BY <1>1, <1>3, <2>1
    <3>2. CASE req[k].id = s
      BY <1>5, <3>1, <3>2, NothingFacts DEF Holds
    <3>3. CASE req[k].id # s
      BY <1>2, <1>3, <1>4, <3>1, <3>3 DEF BInv, Copied, Holds
    <3>4. QED
      BY <3>2, <3>3
  <2>2. QED
    BY <2>1 DEF Copied
<1>9. Promised'
  BY <1>2, NothingFacts DEF BInv, Promised, Holds
<1>10. PromisedRows'
  BY <1>2, NothingFacts DEF BInv, PromisedRows, Has, Whole
<1>11. CopiedRows'
  <2>1. ASSUME NEW k \in Handler, req'[k].op = "backup", owed'[k].whole
        PROVE  owed'[k] = owed[k] /\ req[k].op = "backup"
               /\ (k # h /\ Writer(k) => req[k].id # s)
    BY <1>1, <1>2, <1>5, <2>1, NothingFacts
  <2>2. ASSUME NEW k \in Handler, req'[k].op = "backup", owed'[k].whole
        PROVE  /\ pc'[k] \in {"mkdir", "copy_config", "copy_db"}
                    => owed'[k].rows \subseteq db'.head \cap db'.rest
               /\ pc'[k] = "copy_rest" => /\ backups'[req'[k].id].db.head = db'.head
                                          /\ Has(db, owed[k].rows)'
               /\ pc'[k] \in {"log"} \cup Closing => Has(backups[req[k].id].db, owed[k].rows)'
    <3>1. CASE k = h
      BY <1>1, <2>1, <2>2, <3>1 DEF BInv, CopiedRows, Closing
    <3>2. CASE k # h /\ pc[k] = "mkdir"
      BY <1>1, <2>1, <2>2, <3>2 DEF BInv, CopiedRows, Closing
    <3>3. CASE k # h /\ Writer(k)
      <4>1. backups'[req[k].id] = backups[req[k].id] /\ owed'[k] = owed[k]
        BY <1>2, <1>4, <2>1, <2>2, <3>3
      <4>2. QED
        BY <1>1, <2>1, <2>2, <3>3, <4>1 DEF BInv, CopiedRows, Has, Whole
    <3>4. QED
      BY <2>1, <2>2, <3>1, <3>2, <3>3 DEF Writer
  <2>3. QED
    BY <2>2 DEF CopiedRows
<1>12. QED
  BY <1>6, <1>7, <1>8, <1>9, <1>10, <1>11 DEF BInv

(* Another copy into the same directory promises nothing, and neither does *)
(* the directory.                                                          *)
LEMMA BWriting ==
  ASSUME TInv, BInv, NEW h \in Handler, Writer(h), UNCHANGED <<db, good>>,
         Writer(h)', req'[h].id = req[h].id,
         \A k \in Handler : k # h => pc'[k] = pc[k] /\ req'[k] = req[k] /\ owed'[k] = owed[k],
         owed[h] = Nothing => owed'[h] = Nothing,
         \A x \in 0 .. MaxSecond : x # req[h].id => backups'[x] = backups[x],
         pc'[h] # "copy_config" => Holds(backups[req[h].id], owed[h].config)',
         owed'[h].whole =>
           /\ pc'[h] \in {"mkdir", "copy_config", "copy_db"}
                => owed'[h].rows \subseteq db'.head \cap db'.rest
           /\ pc'[h] = "copy_rest" => /\ backups'[req'[h].id].db.head = db'.head
                                      /\ Has(db, owed[h].rows)'
           /\ pc'[h] \in {"log"} \cup Closing => Has(backups[req[h].id].db, owed[h].rows)'
  PROVE  BInv'
<1>1. /\ \A k \in Handler : Writer(k)' <=> Writer(k)
      /\ \A k \in Handler : req'[k].id = req[k].id
      /\ \A k \in Handler : Writer(k) => req[k].id \in 0 .. MaxSecond
  BY WriterFacts DEF Writer
<1>2. good[req[h].id] = Nothing
  BY DEF BInv, Unfinished
<1>3. Shared' /\ Unfinished'
  BY <1>1 DEF BInv, Shared, Unfinished
<1>4. ASSUME NEW k \in Handler, k # h, Writer(k), owed[k] # Nothing
      PROVE  backups'[req[k].id] = backups[req[k].id]
  BY <1>1, <1>4 DEF BInv, Shared
<1>5. Copied'
  <2>1. ASSUME NEW k \in Handler, k # h, Writer(k)', pc'[k] # "copy_config"
        PROVE  Holds(backups[req[k].id], owed[k].config)'
    BY <1>1, <1>4, <2>1, NothingFacts DEF BInv, Copied, Holds
  <2>2. QED
    BY <2>1 DEF Copied
<1>6. Promised'
  BY <1>2, NothingFacts DEF BInv, Promised, Holds
<1>7. PromisedRows'
  BY <1>2, NothingFacts DEF BInv, PromisedRows, Has, Whole
<1>8. CopiedRows'
  <2>1. ASSUME NEW k \in Handler, k # h, req'[k].op = "backup", owed'[k].whole
        PROVE  /\ pc'[k] \in {"mkdir", "copy_config", "copy_db"}
                    => owed'[k].rows \subseteq db'.head \cap db'.rest
               /\ pc'[k] = "copy_rest" => /\ backups'[req'[k].id].db.head = db'.head
                                          /\ Has(db, owed[k].rows)'
               /\ pc'[k] \in {"log"} \cup Closing => Has(backups[req[k].id].db, owed[k].rows)'
    <3>1. /\ req[k].op = "backup" /\ owed[k].whole /\ owed[k] # Nothing
          /\ owed'[k] = owed[k] /\ pc'[k] = pc[k] /\ req'[k] = req[k]
      BY <2>1, NothingFacts
    <3>2. CASE pc[k] = "mkdir"
      BY <3>1, <3>2 DEF BInv, CopiedRows, Closing
    <3>3. CASE Writer(k)
      BY <1>4, <2>1, <3>1, <3>3 DEF BInv, CopiedRows, Has, Whole
    <3>4. QED
      BY <3>1, <3>2, <3>3 DEF Writer
  <2>2. QED
    BY <2>1 DEF CopiedRows
<1>9. QED
  BY <1>3, <1>5, <1>6, <1>7, <1>8 DEF BInv

LEMMA BCopyConfig ==
  ASSUME TInv, SInv, BInv, NEW h \in Handler, CopyConfig(h)
  PROVE  BInv'
<1>1. /\ pc[h] = "copy_config" /\ req[h].op = "backup" /\ pc'[h] = "copy_db" /\ req' = req
      /\ req[h].id \in 0 .. MaxSecond /\ UNCHANGED <<db, good>>
      /\ \A k \in Handler : k # h => pc'[k] = pc[k]
      /\ \A x \in 0 .. MaxSecond : x # req[h].id => backups'[x] = backups[x]
      /\ backups'[req[h].id].config = file
      /\ owed'[h].config = (IF ~file.full THEN {} ELSE owed[h].config)
      /\ owed'[h].rows = owed[h].rows /\ owed'[h].whole = owed[h].whole
      /\ owed[h] = Nothing => owed'[h] = Nothing
  BY CopyConfigStep DEF Moves
<1>2. \A k \in Handler : k # h => owed'[k] = owed[k]
  BY <1>1 DEF CopyConfig, TInv, TypeOK
<1>3. CASE owed'[h].config = {}
  BY <1>1, <1>2, <1>3, BWriting DEF Writer, Holds, BInv, CopiedRows, Closing
<1>4. CASE owed'[h].config # {}
  <2>1. file.full /\ ~clash
    BY <1>1, <1>4 DEF SInv, Clashed
  <2>2. \A k \in Handler : pc[k] # "write"
    BY <1>1, <2>1, NoRestore DEF SInv, InStep
  <2>3. owed[h].config \subseteq file.set
    BY <1>1, <2>2 DEF SInv, Owed, Due, Safe
  <2>4. file # NoFile
    BY <2>1 DEF NoFile
  <2>5. Holds(backups[req[h].id], owed[h].config)'
    BY <1>1, <2>1, <2>3, <2>4 DEF Holds
  <2>6. QED
    BY <1>1, <1>2, <2>5, BWriting DEF Writer, BInv, CopiedRows, Closing
<1>5. QED
  BY <1>3, <1>4

LEMMA BCopyDb ==
  ASSUME TInv, BInv, NEW h \in Handler, CopyDb(h)
  PROVE  BInv'
<1>1. /\ pc[h] = "copy_db" /\ req[h].op = "backup" /\ pc'[h] = "copy_rest" /\ req' = req
      /\ req[h].id \in 0 .. MaxSecond /\ UNCHANGED <<db, good>>
      /\ \A k \in Handler : k # h => pc'[k] = pc[k]
      /\ \A x \in 0 .. MaxSecond : x # req[h].id => backups'[x] = backups[x]
      /\ backups'[req[h].id].config = backups[req[h].id].config
      /\ backups'[req[h].id].db = [head |-> db.head, rest |-> Missing]
      /\ owed'[h].config = owed[h].config /\ owed'[h].rows = owed[h].rows
      /\ owed[h] = Nothing => owed'[h] = Nothing
  BY CopyDbStep DEF Moves
<1>2. \A k \in Handler : k # h => owed'[k] = owed[k]
  BY <1>1 DEF CopyDb, TInv, TypeOK
<1>3. owed'[h].whole => owed[h].whole /\ Whole(db)
  BY CopyDbStep
<1>4. Writer(h) /\ Writer(h)' /\ Holds(backups[req[h].id], owed[h].config)'
  BY <1>1 DEF BInv, Copied, Writer, Holds
<1>5. backups'[req[h].id].db.head = db.head
  BY <1>1
<1>6. owed'[h].whole => Has(db, owed[h].rows)'
  BY <1>1, <1>3 DEF BInv, CopiedRows, Has, Whole
<1>7. QED
  BY <1>1, <1>2, <1>4, <1>5, <1>6, BWriting DEF Closing

LEMMA BCopyRest ==
  ASSUME TInv, BInv, NEW h \in Handler, CopyRest(h)
  PROVE  BInv'
<1>1. /\ pc[h] = "copy_rest" /\ req[h].op = "backup" /\ pc'[h] = "log" /\ req' = req
      /\ req[h].id \in 0 .. MaxSecond /\ UNCHANGED <<db, good, owed>>
      /\ \A k \in Handler : k # h => pc'[k] = pc[k]
      /\ \A x \in 0 .. MaxSecond : x # req[h].id => backups'[x] = backups[x]
      /\ backups'[req[h].id].config = backups[req[h].id].config
      /\ backups'[req[h].id].db = [head |-> backups[req[h].id].db.head, rest |-> db.rest]
  BY CopyRestStep DEF Moves
<1>2. Writer(h) /\ Writer(h)' /\ Holds(backups[req[h].id], owed[h].config)'
  BY <1>1 DEF BInv, Copied, Writer, Holds
<1>3. ASSUME owed[h].whole
      PROVE  Has(backups[req[h].id].db, owed[h].rows)'
  <2>1. backups[req[h].id].db.head = db.head /\ Has(db, owed[h].rows)
    BY <1>1, <1>3 DEF BInv, CopiedRows
  <2>2. db = [head |-> db.head, rest |-> db.rest]
    BY DEF TInv, TypeOK, DbFile
  <2>3. backups'[req'[h].id].db = db
    BY <1>1, <2>1, <2>2
  <2>4. QED
    BY <1>1, <2>1, <2>3 DEF Has, Whole
<1>4. QED
  BY <1>1, <1>2, <1>3, BWriting DEF Closing

-----------------------------------------------------------------------------
(* Once there was a clash nothing else matters, unless a restore is under  *)
(* way.                                                                    *)
LEMMA SClash ==
  ASSUME clash', kept' = {}, \A k \in Handler : owed'[k].config = {},
         \A k \in Handler : req'[k].op # "restore"
  PROVE  SInv'
<1>1. Clashed' /\ Exclusive' /\ Quiet' /\ InStep'
  BY DEF Clashed, Exclusive, Quiet, InStep
<1>2. Restoring' /\ Kept' /\ Owed'
  BY DEF Restoring, Restored, Kept, Owed, Due, Safe
<1>3. QED
  BY <1>1, <1>2 DEF SInv

(* A step of a restore. *)
LEMMA SRestore ==
  ASSUME TInv, TInv', SInv, NEW h \in Handler, req[h].op = "restore",
         NEW step \in Steps, Moves(h, step), step # "find",
         kept' = {}, clash' => clash \/ \A k \in Handler : owed'[k].config = {},
         \A k \in Handler : owed'[k].config \subseteq owed[k].config,
         Restored(h)'
  PROVE  SInv'
<1>1. req[h] # NoRequest
  BY DEF NoRequest
<1>2. pc[h] # "idle" /\ pc'[h] = step /\ req'[h].op = "restore"
  BY <1>1, IdleNone DEF Moves
<1>3. \A k \in Handler : k # h => pc'[k] = "idle" /\ req'[k] = NoRequest
                                  /\ owed'[k].config = {}
  BY <1>1, IdleNone DEF TInv, Alone, Moves, SInv, Owed, Due
<1>4. \A k \in Handler : k # h => req'[k].op = "none"
  BY <1>3 DEF NoRequest
<1>5. step \notin {"idle", "change", "mkdir", "copy_config"}
  BY <1>2 DEF TInv, Handling, NoRequest, Refresh, Closing
<1>6. Clashed'
  BY DEF SInv, Clashed
<1>7. Exclusive'
  BY <1>3 DEF Exclusive, Changing, Refreshing
<1>8. Quiet'
  BY <1>2 DEF Quiet, Settled, Restored
<1>9. InStep'
  BY <1>2, <1>3 DEF InStep
<1>10. Restoring'
  BY <1>4 DEF Restoring, Restored
<1>11. Kept'
  BY DEF Kept, Safe
<1>12. Owed'
  BY <1>2, <1>3, <1>4, <1>5 DEF Owed, Due
<1>13. QED
  BY <1>6, <1>7, <1>8, <1>9, <1>10, <1>11, <1>12 DEF SInv

(* A step of another request, before any clash, that changes neither the   *)
(* file nor the copy.                                                      *)
LEMMA SStill ==
  ASSUME TInv, SInv, NEW h \in Handler, ~clash, ~clash',
         UNCHANGED <<file, config>>, Kept',
         \A k \in Handler : req'[k].op # "restore",
         \A k \in Handler : k # h => req[k].op # "restore" /\ pc'[k] = pc[k] /\ req'[k] = req[k]
                                     /\ owed'[k].config \subseteq owed[k].config,
         Changing(h)' => Changing(h),
         Refreshing(h)' => Refreshing(h) \/ \A k \in Handler : k # h => ~Changing(k),
         req[h].op = "restore" => pc[h] \in {"find", "log"} \cup Closing,
         pc[h] # "write", pc'[h] # "write",
         pc'[h] \notin {"reset", "refill"},
         pc'[h] = "assign" => req'[h].text = file,
         pc'[h] = "truncate" => req'[h].text = Text(config),
         Changing(h) => Changing(h)',
         Due(h)'
  PROVE  SInv'
<1>1. Clashed'
  BY DEF Clashed
<1>2. Exclusive'
  BY DEF SInv, Exclusive, Changing, Refreshing
<1>3. Quiet'
  BY DEF SInv, Quiet, Settled, Changing
<1>4. InStep'
  BY DEF SInv, InStep
<1>5. Restoring'
  BY DEF Restoring, Restored
<1>6. Owed'
  <2>1. ASSUME NEW k \in Handler, k # h PROVE Due(k)'
    BY <2>1 DEF SInv, Owed, Due, Safe, Changing
  <2>2. QED
    BY <2>1 DEF Owed
<1>7. QED
  BY <1>1, <1>2, <1>3, <1>4, <1>5, <1>6 DEF SInv

(* Before any clash a file that is being read has what the copy has. *)
LEMMA Agreed ==
  ASSUME TInv, SInv, ~clash, NEW h \in Handler, pc[h] # "idle", req[h].op # "restore",
         \A k \in Handler : ~Changing(k)
  PROVE  file = Text(config) /\ file.full /\ file.set = config
<1>1. \A k \in Handler : req[k].op # "restore"
  BY NoRestore
<1>2. file = Text(config)
  BY <1>1 DEF SInv, Quiet, Settled
<1>3. QED
  BY <1>2, FileTypes DEF TInv, TypeOK

LEMMA SReceive ==
  ASSUME TInv, SInv, NEW h \in Handler, Receive(h)
  PROVE  SInv'
<1>1. /\ TInv' /\ pc[h] = "idle" /\ UNCHANGED <<file, config, clash, kept>>
      /\ \A k \in Handler : k # h => pc'[k] = pc[k] /\ req'[k] = req[k] /\ owed'[k] = owed[k]
      /\ \A k \in Handler : req[k].op # "restore"
      /\ \/ req'[h].op = "enable" /\ pc'[h] = "change" /\ owed'[h] = owed[h]
         \/ req'[h].op = "device" /\ pc'[h] = "commit" /\ owed'[h] = owed[h]
         \/ req'[h].op = "backup" /\ pc'[h] = "mkdir" /\ owed'[h].config = kept
         \/ req'[h].op = "restore" /\ pc'[h] = "find" /\ Idle /\ owed'[h] = owed[h]
  BY ReceiveStep DEF Serving
<1>2. owed[h].config = {}
  BY <1>1 DEF SInv, Owed, Due
<1>3. Clashed'
  BY <1>1, <1>2 DEF SInv, Clashed
<1>4. Exclusive'
  BY <1>1 DEF SInv, Exclusive, Changing, Refreshing
<1>5. Quiet'
  BY <1>1 DEF SInv, Quiet, Settled, Changing
<1>6. InStep'
  BY <1>1 DEF SInv, InStep
<1>7. Restoring'
  BY <1>1 DEF SInv, Restoring, Restored, Closing
<1>8. Kept'
  BY <1>1 DEF SInv, Kept, Safe
<1>9. Owed'
  BY <1>1, <1>2 DEF SInv, Owed, Due, Kept, Safe, Changing
<1>10. QED
  BY <1>3, <1>4, <1>5, <1>6, <1>7, <1>8, <1>9 DEF SInv

LEMMA SEnable ==
  ASSUME TInv, SInv, NEW h \in Handler, Enable(h)
  PROVE  SInv'
<1> DEFINE off == Replaced(req[h].setting)
<1>1. /\ pc[h] = "change" /\ req[h].op = "enable" /\ pc'[h] = "save" /\ req' = req
      /\ \A k \in Handler : k # h => pc'[k] = pc[k]
      /\ config' = (config \ off) \cup {req[h].setting}
      /\ clash' = (clash \/ \E k \in Handler \ {h} : Changing(k) \/ Refreshing(k))
      /\ kept' = (IF clash' THEN {} ELSE kept \ off)
      /\ \A k \in Handler :
           owed'[k].config = IF clash' THEN {} ELSE IF k = h THEN {req[h].setting}
                             ELSE owed[k].config \ off
      /\ UNCHANGED file
  <2>1. /\ pc[h] = "change" /\ req[h].op = "enable" /\ Moves(h, "save") /\ req' = req
        /\ UNCHANGED file
    BY EnableStep
  <2>2. config' = (config \ off) \cup {req[h].setting}
    BY EnableStep DEF Chosen
  <2>3. /\ clash' = (clash \/ \E k \in Handler \ {h} : Changing(k) \/ Refreshing(k))
        /\ kept' = IF clash' THEN {} ELSE kept \ off
        /\ \A k \in Handler :
             owed'[k].config = IF clash' THEN {} ELSE IF k = h THEN {req[h].setting}
                               ELSE owed[k].config \ off
    BY EnableStep
  <2>4. QED
    BY <2>1, <2>2, <2>3 DEF Moves
<1>2. \A k \in Handler : req[k].op # "restore"
  BY <1>1, NoRestore
<1>3. CASE clash'
  BY <1>1, <1>2, <1>3, SClash
<1>4. CASE ~clash'
  <2> HIDE DEF off
  <2>1. ~clash /\ \A k \in Handler : k # h => ~Changing(k) /\ ~Refreshing(k)
    BY <1>1, <1>4
  <2>2. \A k \in Handler : pc[k] # "write"
    BY <1>1, <2>1 DEF Changing
  <2>3. Clashed'
    BY <1>4 DEF Clashed
  <2>4. Exclusive'
    BY <1>1, <2>1 DEF Exclusive, Changing, Refreshing
  <2>5. Quiet'
    BY <1>1 DEF Quiet, Settled, Changing
  <2>6. InStep'
    BY <1>1, <2>1 DEF SInv, InStep, Changing, Refreshing
  <2>7. Restoring'
    BY <1>1, <1>2 DEF Restoring, Restored
  <2>8. Kept'
    BY <1>1, <1>4, <2>2 DEF SInv, Kept, Safe
  <2>9. Due(h)'
    BY <1>1, <1>4 DEF Due, Changing
  <2>10. ASSUME NEW k \in Handler, k # h PROVE Due(k)'
    <3>1. owed'[k].config = owed[k].config \ off
      BY <1>1, <1>4, <2>10
    <3>2. owed[k].config \subseteq config => owed'[k].config \subseteq config'
      BY <1>1, <3>1
    <3>3. Safe(owed[k].config) => Safe(owed[k].config)'
      BY <1>1, <2>2, <3>1, <3>2 DEF Safe
    <3>4. QED
      BY <1>1, <2>10, <3>1, <3>2, <3>3 DEF SInv, Owed, Due, Changing
  <2>11. QED
    BY <2>3, <2>4, <2>5, <2>6, <2>7, <2>8, <2>9, <2>10 DEF SInv, Owed
<1>5. QED
  BY <1>3, <1>4

LEMMA SAlreadyEnabled ==
  ASSUME TInv, SInv, NEW h \in Handler, AlreadyEnabled(h)
  PROVE  SInv'
<1>1. /\ pc[h] = "change" /\ req[h].op = "enable" /\ req[h].setting \in config
      /\ kept' = IF clash \/ \E k \in Handler : Changing(k) THEN kept
                 ELSE kept \cup {req[h].setting}
      /\ UNCHANGED <<file, config, clash>>
      /\ pc'[h] = "idle" /\ req'[h] = NoRequest /\ owed'[h] = Nothing
      /\ \A k \in Handler : k # h => pc'[k] = pc[k] /\ req'[k] = req[k] /\ owed'[k] = owed[k]
  BY AlreadyEnabledStep DEF Ends
<1>2. \A k \in Handler : req[k].op # "restore" /\ req'[k].op # "restore"
  BY <1>1, NoRestore DEF NoRequest
<1>3. CASE clash
  BY <1>1, <1>2, <1>3, SClash, NothingFacts DEF SInv, Clashed
<1>4. CASE ~clash
  <2>1. Kept'
    <3>1. CASE \E k \in Handler : Changing(k)
      BY <1>1, <3>1 DEF SInv, Kept, Safe
    <3>2. CASE \A k \in Handler : ~Changing(k)
      <4>1. file.set = config
        BY <1>1, <1>4, <3>2, Agreed
      <4>2. QED
        BY <1>1, <1>4, <3>2, <4>1 DEF SInv, Kept, Safe
    <3>3. QED
      BY <3>1, <3>2
  <2>2. Due(h)'
    BY <1>1, NothingFacts DEF Due, NoRequest
  <2>3. QED
    BY <1>1, <1>2, <1>4, <2>1, <2>2, SStill DEF Changing, Refreshing
<1>5. QED
  BY <1>3, <1>4

LEMMA SSave ==
  ASSUME TInv, SInv, NEW h \in Handler, Save(h)
  PROVE  SInv'
<1>1. /\ pc[h] = "save" /\ req[h].op = "enable" /\ pc'[h] = "truncate"
      /\ req'[h].op = "enable" /\ req'[h].text = Text(config)
      /\ \A k \in Handler : k # h => pc'[k] = pc[k] /\ req'[k] = req[k]
      /\ UNCHANGED <<file, config, clash, kept, owed>>
  BY SaveStep DEF Moves
<1>2. \A k \in Handler : req[k].op # "restore" /\ req'[k].op # "restore"
  BY <1>1, NoRestore
<1>3. CASE clash
  BY <1>1, <1>2, <1>3, SClash DEF SInv, Clashed
<1>4. CASE ~clash
  <2>1. Kept'
    BY <1>1 DEF SInv, Kept, Safe
  <2>2. Due(h)'
    BY <1>1 DEF SInv, Owed, Due, Changing
  <2>3. QED
    BY <1>1, <1>2, <1>4, <2>1, <2>2, SStill DEF Changing, Refreshing
<1>5. QED
  BY <1>3, <1>4

LEMMA STruncate ==
  ASSUME TInv, SInv, NEW h \in Handler, Truncate(h)
  PROVE  SInv'
<1>1. /\ TInv' /\ pc[h] = "truncate" /\ req[h].op \in {"enable", "restore"}
      /\ Moves(h, "write") /\ req' = req /\ file' = Empty
      /\ UNCHANGED <<config, clash, kept, logged, owed, good>>
  BY TruncateStep
<1>2. CASE req[h].op = "restore"
  <2>1. Restored(h)' /\ kept = {}
    BY <1>1, <1>2 DEF SInv, Restoring, Restored, Moves, Closing
  <2>2. QED
    BY <1>1, <1>2, <2>1, SRestore DEF Steps, SInv, Clashed
<1>3. CASE req[h].op = "enable" /\ clash
  <2>1. \A k \in Handler : req'[k].op # "restore"
    BY <1>1, <1>3, NoRestore
  <2>2. QED
    BY <1>1, <1>3, <2>1, SClash DEF SInv, Clashed
<1>4. CASE req[h].op = "enable" /\ ~clash
  <2>1. /\ pc'[h] = "write" /\ \A k \in Handler : k # h => pc'[k] = pc[k]
    BY <1>1 DEF Moves
  <2>2. \A k \in Handler : k # h => ~Changing(k) /\ ~Refreshing(k)
    BY <1>1, <1>4 DEF SInv, Exclusive, Changing
  <2>3. \A k \in Handler : req'[k].op # "restore"
    BY <1>1, <1>4, NoRestore
  <2>4. Clashed'
    BY <1>1, <1>4 DEF Clashed
  <2>5. Exclusive'
    BY <1>1, <2>1, <2>2 DEF Exclusive, Changing, Refreshing
  <2>6. Quiet'
    BY <2>1 DEF Quiet, Settled, Changing
  <2>7. InStep'
    BY <1>1, <1>4, <2>1, <2>2, FileTypes DEF SInv, InStep, Changing, Refreshing
  <2>8. Restoring'
    BY <2>3 DEF Restoring, Restored
  <2>9. Kept'
    BY <1>1, <2>1 DEF SInv, Kept, Safe
  <2>10. Owed'
    BY <1>1, <2>1 DEF SInv, Owed, Due, Safe, Changing
  <2>11. QED
    BY <2>4, <2>5, <2>6, <2>7, <2>8, <2>9, <2>10 DEF SInv
<1>5. QED
  BY <1>1, <1>2, <1>3, <1>4

LEMMA SWrite ==
  ASSUME TInv, SInv, NEW h \in Handler, Write(h)
  PROVE  SInv'
<1>1. /\ TInv' /\ pc[h] = "write" /\ req[h].op \in {"enable", "restore"}
      /\ file' = req[h].text
      /\ Moves(h, IF req[h].op = "restore" THEN "truncate_db" ELSE "load")
      /\ UNCHANGED <<config, clash, kept, logged, owed, good>>
  BY WriteStep
<1>2. CASE req[h].op = "restore"
  <2>1. Moves(h, "truncate_db")
    BY <1>1, <1>2
  <2>2. Restored(h)' /\ kept = {}
    BY <1>1, <1>2, <2>1 DEF SInv, Restoring, Restored, Moves, Closing
  <2>3. QED
    BY <1>1, <1>2, <2>1, <2>2, SRestore DEF Steps, SInv, Clashed
<1>3. ASSUME req[h].op = "enable"
      PROVE  /\ pc'[h] = "load" /\ req'[h].op = "enable"
             /\ \A k \in Handler : k # h => pc'[k] = pc[k] /\ req'[k] = req[k]
             /\ \A k \in Handler : req'[k].op # "restore"
  BY <1>1, <1>3, NoRestore DEF Moves
<1>4. CASE req[h].op = "enable" /\ clash
  BY <1>1, <1>3, <1>4, SClash DEF SInv, Clashed
<1>5. CASE req[h].op = "enable" /\ ~clash
  <2>1. file' = Text(config) /\ file'.set = config
    BY <1>1, <1>5, FileTypes DEF SInv, InStep, TInv, TypeOK
  <2>2. \A k \in Handler : k # h => ~Changing(k) /\ ~Refreshing(k)
    BY <1>1, <1>5 DEF SInv, Exclusive, Changing
  <2>3. Clashed'
    BY <1>1, <1>5 DEF Clashed
  <2>4. Exclusive'
    BY <1>3, <1>5, <2>2 DEF Exclusive, Changing, Refreshing
  <2>5. Quiet'
    BY <1>1, <2>1 DEF Quiet
  <2>6. InStep'
    BY <1>3, <1>5, <2>2 DEF InStep, Changing, Refreshing
  <2>7. Restoring'
    BY <1>3, <1>5 DEF Restoring, Restored
  <2>8. Kept'
    BY <1>1, <2>1 DEF SInv, Kept, Safe
  <2>9. Owed'
    BY <1>1, <1>3, <1>5, <2>1, <2>2 DEF SInv, Owed, Due, Safe, Changing
  <2>10. QED
    BY <2>3, <2>4, <2>5, <2>6, <2>7, <2>8, <2>9 DEF SInv
<1>6. QED
  BY <1>1, <1>2, <1>4, <1>5

(* A step that has nothing to do with settings. *)
LEMMA SAside ==
  ASSUME TInv, SInv, NEW h \in Handler, req[h].op # "restore", pc[h] # "idle",
         UNCHANGED <<file, config, clash, kept>>,
         ~Changing(h), ~Changing(h)', ~Refreshing(h)',
         pc'[h] \in {"mkdir", "copy_config"} => pc[h] \in {"mkdir", "copy_config"},
         \A k \in Handler : k # h => pc'[k] = pc[k] /\ req'[k] = req[k],
         \A k \in Handler : owed'[k].config \subseteq owed[k].config,
         \/ req'[h].op = req[h].op /\ pc'[h] \notin {"idle", "change"}
         \/ req'[h] = NoRequest /\ pc'[h] = "idle" /\ owed'[h] = Nothing
  PROVE  SInv'
<1>1. \A k \in Handler : req[k].op # "restore" /\ req'[k].op # "restore"
  BY NoRestore DEF NoRequest
<1>2. CASE clash
  BY <1>1, <1>2, SClash DEF SInv, Clashed
<1>3. CASE ~clash
  <2>1. Kept'
    BY DEF SInv, Kept, Safe, Changing
  <2>2. Due(h)'
    <3>1. CASE req'[h].op = req[h].op /\ pc'[h] \notin {"idle", "change"}
      BY <3>1 DEF SInv, Owed, Due, Safe, Changing
    <3>2. CASE req'[h] = NoRequest /\ pc'[h] = "idle" /\ owed'[h] = Nothing
      BY <3>2, NothingFacts DEF Due, NoRequest
    <3>3. QED
      BY <3>1, <3>2
  <2>3. QED
    BY <1>1, <1>3, <2>1, <2>2, SStill DEF Changing, Refreshing
<1>4. QED
  BY <1>2, <1>3

LEMMA SLoad ==
  ASSUME TInv, SInv, NEW h \in Handler, Load(h)
  PROVE  SInv'
<1>1. /\ TInv' /\ pc[h] = "load" /\ req[h].op \in {"enable", "device", "restore"}
      /\ Moves(h, IF file.full THEN "parse" ELSE "reset") /\ req' = req
      /\ clash' = (clash \/ \E k \in Handler \ {h} : Changing(k))
      /\ kept' = IF clash' THEN {} ELSE kept
      /\ \A k \in Handler : owed'[k].config = IF clash' THEN {} ELSE owed[k].config
      /\ UNCHANGED <<file, config, logged, good>>
  BY LoadStep
<1>2. CASE req[h].op = "restore"
  <2>1. kept = {} /\ kept' = {}
    BY <1>1, <1>2 DEF SInv, Restoring, Restored
  <2>2. ~file.full => file.set = {}
    BY FileTypes DEF TInv, TypeOK
  <2>3. pc'[h] = IF file.full THEN "parse" ELSE "reset"
    BY <1>1 DEF Moves
  <2>4. Restored(h)'
    BY <1>1, <1>2, <2>1, <2>2, <2>3 DEF SInv, Restoring, Restored, Closing
  <2>5. CASE file.full
    BY <1>1, <1>2, <2>1, <2>4, <2>5, SRestore DEF Steps
  <2>6. CASE ~file.full
    BY <1>1, <1>2, <2>1, <2>4, <2>6, SRestore DEF Steps
  <2>7. QED
    BY <2>5, <2>6
<1>3. ASSUME req[h].op # "restore"
      PROVE  \A k \in Handler : req[k].op # "restore"
  BY <1>1, <1>3, NoRestore
<1>4. CASE req[h].op # "restore" /\ clash'
  BY <1>1, <1>3, <1>4, SClash
<1>5. CASE req[h].op # "restore" /\ ~clash'
  <2>1. ~clash /\ \A k \in Handler : ~Changing(k)
    BY <1>1, <1>5 DEF Changing
  <2>2. file.full
    BY <1>1, <1>5, <2>1, Agreed
  <2>3. pc'[h] = "parse" /\ \A k \in Handler : k # h => pc'[k] = pc[k]
    BY <1>1, <2>2 DEF Moves
  <2>4. Kept'
    BY <1>1, <1>5, <2>3 DEF SInv, Kept, Safe
  <2>5. Due(h)'
    BY <1>1, <1>5, <2>1, <2>3 DEF SInv, Owed, Due, Safe, Changing
  <2>6. QED
    BY <1>1, <1>3, <1>5, <2>1, <2>3, <2>4, <2>5, SStill DEF Changing, Refreshing
<1>6. QED
  BY <1>1, <1>2, <1>4, <1>5

LEMMA SParse ==
  ASSUME TInv, SInv, NEW h \in Handler, Parse(h)
  PROVE  SInv'
<1>1. /\ TInv' /\ pc[h] = "parse" /\ file.full /\ Moves(h, "assign") /\ req'[h].text = file
      /\ UNCHANGED <<file, config, clash, kept, logged, owed, good>>
  BY ParseStep
<1>2. pc'[h] = "assign" /\ req'[h].op = req[h].op /\ req'[h].id = req[h].id
      /\ \A k \in Handler : k # h => pc'[k] = pc[k] /\ req'[k] = req[k]
  BY <1>1 DEF Moves
<1>3. CASE req[h].op = "restore"
  <2>1. kept = {} /\ Restored(h)'
    BY <1>1, <1>2, <1>3 DEF SInv, Restoring, Restored, Closing
  <2>2. QED
    BY <1>1, <1>3, <2>1, SRestore DEF Steps
<1>4. ASSUME req[h].op # "restore"
      PROVE  \A k \in Handler : req[k].op # "restore" /\ req'[k].op # "restore"
  BY <1>1, <1>2, <1>4, NoRestore
<1>5. CASE req[h].op # "restore" /\ clash
  BY <1>1, <1>4, <1>5, SClash DEF SInv, Clashed
<1>6. CASE req[h].op # "restore" /\ ~clash
  <2>1. Kept'
    BY <1>1, <1>2 DEF SInv, Kept, Safe
  <2>2. Due(h)'
    BY <1>1, <1>2 DEF SInv, Owed, Due, Safe, Changing
  <2>3. QED
    BY <1>1, <1>2, <1>4, <1>6, <2>1, <2>2, SStill DEF Changing, Refreshing
<1>7. QED
  BY <1>3, <1>5, <1>6

(* Only a restore, or a request after a clash, finds config.json empty. *)
LEMMA SReset ==
  ASSUME TInv, SInv, NEW h \in Handler, Reset(h) \/ Refill(h)
  PROVE  SInv'
<1>1. /\ TInv' /\ pc[h] \in {"reset", "refill"}
      /\ \/ Moves(h, "refill") /\ file' = Empty
         \/ Moves(h, "assign") /\ file' = Text({}) /\ req'[h].text = Text({})
      /\ UNCHANGED <<config, clash, kept, logged, owed, good>>
  <2>1. CASE Reset(h)
    BY <2>1, ResetStep
  <2>2. CASE Refill(h)
    BY <2>2, RefillStep
  <2>3. QED
    BY <2>1, <2>2
<1>2. CASE req[h].op = "restore"
  <2>1. kept = {} /\ good[req[h].id].config = {}
    BY <1>1, <1>2 DEF SInv, Restoring, Restored
  <2>2. Restored(h)'
    <3>1. CASE Moves(h, "refill") /\ file' = Empty
      BY <1>1, <1>2, <2>1, <3>1, FileTypes DEF SInv, Restoring, Restored, Closing, Moves
    <3>2. CASE Moves(h, "assign") /\ file' = Text({}) /\ req'[h].text = Text({})
      <4>1. file'.full /\ pc'[h] = "assign" /\ req'[h].id = req[h].id
        BY <3>2, FileTypes DEF Moves
      <4>2. QED
        BY <1>1, <1>2, <2>1, <3>2, <4>1 DEF SInv, Restoring, Restored, Closing
    <3>3. QED
      BY <1>1, <3>1, <3>2
  <2>3. CASE Moves(h, "refill")
    BY <1>1, <1>2, <2>1, <2>2, <2>3, SRestore DEF Steps
  <2>4. CASE Moves(h, "assign")
    BY <1>1, <1>2, <2>1, <2>2, <2>4, SRestore DEF Steps
  <2>5. QED
    BY <1>1, <2>3, <2>4
<1>3. CASE req[h].op # "restore"
  <2>1. clash
    BY <1>1, <1>3 DEF SInv, InStep
  <2>2. \A k \in Handler : req'[k].op # "restore"
    BY <1>1, <1>3, NoRestore DEF Moves
  <2>3. QED
    BY <1>1, <2>1, <2>2, SClash DEF SInv, Clashed
<1>4. QED
  BY <1>2, <1>3

LEMMA SAssign ==
  ASSUME TInv, SInv, NEW h \in Handler, Assign(h)
  PROVE  SInv'
<1>1. /\ TInv' /\ pc[h] = "assign" /\ Moves(h, "log") /\ config' = req[h].text.set
      /\ UNCHANGED <<file, clash, kept, logged, owed, good>>
  BY AssignStep
<1>2. pc'[h] = "log" /\ req'[h].op = req[h].op /\ req'[h].id = req[h].id
      /\ \A k \in Handler : k # h => pc'[k] = pc[k] /\ req'[k] = req[k]
  BY <1>1 DEF Moves
<1>3. CASE req[h].op = "restore"
  <2>1. kept = {} /\ file.full /\ req[h].text = file
    BY <1>1, <1>3 DEF SInv, Restoring, Restored
  <2>2. file' = Text(config')
    BY <1>1, <2>1, FileTypes DEF TInv, TypeOK
  <2>3. Restored(h)'
    BY <1>1, <1>2, <1>3, <2>2 DEF SInv, Restoring, Restored
  <2>4. QED
    BY <1>1, <1>3, <2>1, <2>3, SRestore DEF Steps
<1>4. ASSUME req[h].op # "restore"
      PROVE  \A k \in Handler : req[k].op # "restore" /\ req'[k].op # "restore"
  BY <1>1, <1>2, <1>4, NoRestore
<1>5. CASE req[h].op # "restore" /\ clash
  BY <1>1, <1>4, <1>5, SClash DEF SInv, Clashed
<1>6. CASE req[h].op # "restore" /\ ~clash
  <2>1. \A k \in Handler : ~Changing(k)
    BY <1>1, <1>6 DEF SInv, Exclusive, Changing, Refreshing
  <2>2. config' = config
    BY <1>1, <1>6, <2>1, Agreed DEF SInv, InStep
  <2>3. QED
    BY <1>1, <1>2, <1>6, <2>2, SAside DEF Changing, Refreshing
<1>7. QED
  BY <1>3, <1>5, <1>6

LEMMA SFail ==
  ASSUME TInv, SInv, NEW h \in Handler, ParseError(h) \/ Fault(h) \/ NotFound(h)
  PROVE  SInv'
<1>1. /\ pc[h] \in {"commit", "log", "find"} \/ (pc[h] = "parse" /\ ~file.full)
      /\ UNCHANGED <<file, config, clash, kept, good>>
      /\ pc'[h] = "idle" /\ req'[h] = NoRequest /\ owed'[h] = Nothing
      /\ \A k \in Handler : k # h => pc'[k] = pc[k] /\ req'[k] = req[k] /\ owed'[k] = owed[k]
  BY FailStep DEF Ends
<1>2. \A k \in Handler : owed'[k].config \subseteq owed[k].config
  BY <1>1, NothingFacts
<1>3. CASE req[h].op # "restore"
  BY <1>1, <1>2, <1>3, SAside DEF Changing, Refreshing
<1>4. CASE req[h].op = "restore"
  <2>1. pc[h] \in {"log", "find"}
    BY <1>1, <1>4 DEF SInv, Restoring, Restored, TInv, Handling, Refresh, Closing, NoRequest
  <2>2. \A k \in Handler : pc'[k] = "idle" /\ req'[k] = NoRequest
    BY <1>1, <1>4, IdleNone DEF TInv, Alone
  <2>3. \A k \in Handler : k # h => pc[k] = "idle" /\ req[k].op = "none"
    BY <1>1, <2>2 DEF NoRequest
  <2>4. Settled
    BY <1>1, <2>1, <2>3 DEF Settled, Changing
  <2>5. Clashed'
    BY <1>1, <1>2 DEF SInv, Clashed
  <2>6. Exclusive' /\ InStep' /\ Restoring'
    BY <2>2 DEF Exclusive, InStep, Restoring, Restored, Changing, NoRequest
  <2>7. Quiet'
    BY <1>1, <2>4 DEF SInv, Quiet
  <2>8. Kept'
    BY <1>1, <2>1 DEF SInv, Kept, Safe
  <2>9. Owed'
    BY <1>1, <2>2, <2>3, NothingFacts DEF SInv, Owed, Due, NoRequest
  <2>10. QED
    BY <2>5, <2>6, <2>7, <2>8, <2>9 DEF SInv
<1>5. QED
  BY <1>3, <1>4

LEMMA SCommit ==
  ASSUME TInv, SInv, NEW h \in Handler, Commit(h) \/ Checkpoint(h)
  PROVE  SInv'
<1> DEFINE step == IF pc[h] = "close" THEN "close_rest" ELSE "close"
<1>1. /\ TInv' /\ pc[h] \in {"commit", "log", "close"}
      /\ Moves(h, step) /\ req' = req
      /\ \A k \in Handler : owed'[k].config = owed[k].config
      /\ UNCHANGED <<file, config, clash, kept, logged, good>>
  <2>1. CASE Commit(h)
    BY <2>1, CommitStep
  <2>2. CASE Checkpoint(h)
    BY <2>2, CheckpointStep
  <2>3. QED
    BY <2>1, <2>2
<1>2. step \in Closing /\ step \in Steps
  BY DEF Closing, Steps
<1>3. pc'[h] = step /\ \A k \in Handler : k # h => pc'[k] = pc[k]
  BY <1>1 DEF Moves
<1>4. CASE req[h].op = "restore"
  <2>1. pc[h] \in {"log", "close"}
    BY <1>1, <1>4 DEF TInv, Handling, Refresh, Closing, NoRequest
  <2>2. kept = {} /\ Restored(h)'
    BY <1>1, <1>3, <1>4, <2>1 DEF SInv, Restoring, Restored, Closing
  <2>3. CASE pc[h] = "close"
    BY <1>1, <1>4, <2>2, <2>3, SRestore DEF Steps
  <2>4. CASE pc[h] # "close"
    BY <1>1, <1>4, <2>2, <2>4, SRestore DEF Steps
  <2>5. QED
    BY <2>3, <2>4
<1>5. CASE req[h].op # "restore"
  <2>1. pc'[h] \in {"close", "close_rest"}
    BY <1>3
  <2>2. QED
    BY <1>1, <1>3, <1>5, <2>1, SAside DEF Changing, Refreshing
<1>6. QED
  BY <1>4, <1>5

LEMMA SBackup ==
  ASSUME TInv, SInv, NEW h \in Handler,
         MakeDir(h) \/ CopyConfig(h) \/ CopyDb(h) \/ CopyRest(h)
  PROVE  SInv'
<1>1. /\ req[h].op = "backup" /\ req'[h].op = "backup"
      /\ pc[h] \in {"mkdir", "copy_config", "copy_db", "copy_rest"}
      /\ pc'[h] \in {"copy_config", "copy_db", "copy_rest", "log"}
      /\ pc'[h] = "copy_config" => pc[h] = "mkdir"
      /\ \A k \in Handler : k # h => pc'[k] = pc[k] /\ req'[k] = req[k]
      /\ \A k \in Handler : owed'[k].config \subseteq owed[k].config
      /\ UNCHANGED <<file, config, clash, kept>>
  <2>1. CASE MakeDir(h)
    BY <2>1, MakeDirStep, NothingFacts
  <2>2. CASE CopyConfig(h)
    <3>1. Moves(h, "copy_db") /\ pc[h] = "copy_config" /\ req[h].op = "backup"
          /\ UNCHANGED <<file, config, clash, kept>>
      BY <2>2, CopyConfigStep
    <3>2. \A k \in Handler : owed'[k].config \subseteq owed[k].config
      BY <2>2, CopyConfigStep
    <3>3. QED
      BY <3>1, <3>2 DEF Moves
  <2>3. CASE CopyDb(h)
    <3>1. Moves(h, "copy_rest") /\ pc[h] = "copy_db" /\ req[h].op = "backup"
          /\ UNCHANGED <<file, config, clash, kept>>
      BY <2>3, CopyDbStep
    <3>2. \A k \in Handler : owed'[k].config \subseteq owed[k].config
      BY <2>3, CopyDbStep
    <3>3. QED
      BY <3>1, <3>2 DEF Moves
  <2>4. CASE CopyRest(h)
    <3>1. Moves(h, "log") /\ pc[h] = "copy_rest" /\ req[h].op = "backup"
          /\ UNCHANGED <<file, config, clash, kept, owed>>
      BY <2>4, CopyRestStep
    <3>2. QED
      BY <3>1 DEF Moves
  <2>5. QED
    BY <2>1, <2>2, <2>3, <2>4
<1>2. QED
  BY <1>1, SAside DEF Changing, Refreshing

LEMMA SRestoreDb ==
  ASSUME TInv, SInv, NEW h \in Handler, TruncateDb(h) \/ WriteDb(h)
  PROVE  SInv'
<1>1. /\ TInv' /\ pc[h] \in {"truncate_db", "write_db"} /\ req[h].op = "restore"
      /\ Moves(h, "load") \/ Moves(h, "write_db")
      /\ UNCHANGED <<file, config, clash, kept, logged, owed, good>>
  <2>1. CASE TruncateDb(h)
    BY <2>1, TruncateDbStep
  <2>2. CASE WriteDb(h)
    BY <2>2, WriteDbStep
  <2>3. QED
    BY <2>1, <2>2
<1>2. pc'[h] \in {"load", "write_db"} /\ req'[h].id = req[h].id
  BY <1>1 DEF Moves
<1>3. kept = {} /\ Restored(h)'
  BY <1>1, <1>2 DEF SInv, Restoring, Restored, Closing
<1>4. CASE Moves(h, "load")
  BY <1>1, <1>3, <1>4, SRestore DEF Steps
<1>5. CASE Moves(h, "write_db")
  BY <1>1, <1>3, <1>5, SRestore DEF Steps
<1>6. QED
  BY <1>1, <1>4, <1>5

LEMMA SFind ==
  ASSUME TInv, SInv, BInv, NEW h \in Handler, Find(h)
  PROVE  SInv'
<1>1. /\ TInv' /\ pc[h] = "find" /\ req[h].op = "restore" /\ req[h].id \in 0 .. MaxSecond
      /\ kept' = {} /\ logged' = {}
      /\ \/ backups[req[h].id].config = NoFile /\ Moves(h, "truncate_db")
         \/ backups[req[h].id].config # NoFile /\ Moves(h, "truncate")
            /\ req'[h].text = backups[req[h].id].config
      /\ UNCHANGED <<file, config, clash, owed, good>>
  BY FindStep
<1>2. Holds(backups[req[h].id], good[req[h].id].config)
  BY <1>1 DEF BInv, Promised
<1>3. CASE backups[req[h].id].config = NoFile
  <2>1. Moves(h, "truncate_db") /\ good[req[h].id].config = {}
    BY <1>1, <1>2, <1>3 DEF Holds
  <2>2. Restored(h)'
    BY <1>1, <2>1 DEF Restored, Moves, Closing
  <2>3. QED
    BY <1>1, <2>1, <2>2, SRestore DEF Steps
<1>4. CASE backups[req[h].id].config # NoFile
  <2>1. Moves(h, "truncate") /\ good[req[h].id].config \subseteq req'[h].text.set
    BY <1>1, <1>2, <1>4 DEF Holds
  <2>2. Restored(h)'
    BY <1>1, <2>1 DEF Restored, Moves, Closing
  <2>3. QED
    BY <1>1, <2>1, <2>2, SRestore DEF Steps
<1>5. QED
  BY <1>3, <1>4

LEMMA SClose ==
  ASSUME TInv, SInv, NEW h \in Handler, Close(h)
  PROVE  SInv'
<1>1. pc[h] = "close_rest" /\ UNCHANGED <<file, config>>
  BY CloseStep
<1>2. CASE req[h].op = "device" /\ Audit(h) \notin wal
  <2>1. Moves(h, "load") /\ UNCHANGED <<clash, kept, owed>>
    BY <1>2, CloseStep
  <2>2. /\ pc'[h] = "load" /\ req'[h].op = req[h].op
        /\ \A k \in Handler : k # h => pc'[k] = pc[k] /\ req'[k] = req[k]
    BY <2>1 DEF Moves
  <2>3. QED
    BY <1>1, <1>2, <2>1, <2>2, SAside DEF Changing, Refreshing
<1>3. CASE Audit(h) \in wal
  <2>1. /\ Ends(h)
        /\ clash' = (clash /\ req[h].op # "restore")
        /\ kept' = CASE req[h].op = "enable" -> kept \cup owed[h].config
                     [] req[h].op = "restore" -> good[req[h].id].config
                     [] OTHER -> kept
    BY <1>3, CloseStep
  <2>2. /\ req[h].op = "enable" => kept' = kept \cup owed[h].config
        /\ req[h].op = "restore" => kept' = good[req[h].id].config
        /\ req[h].op \notin {"enable", "restore"} => kept' = kept
    BY <2>1
  <2>3. /\ pc'[h] = "idle" /\ req'[h] = NoRequest /\ owed'[h] = Nothing
        /\ \A k \in Handler : k # h => pc'[k] = pc[k] /\ req'[k] = req[k] /\ owed'[k] = owed[k]
    BY <2>1 DEF Ends
  <2>4. \A k \in Handler : owed'[k].config \subseteq owed[k].config
    BY <2>3, NothingFacts
  <2>5. CASE req[h].op = "restore"
    <3>1. \A k \in Handler : pc'[k] = "idle" /\ req'[k] = NoRequest
      BY <1>1, <2>3, <2>5, IdleNone DEF TInv, Alone
    <3>2. file = Text(config) /\ good[req[h].id].config \subseteq file.set
      BY <1>1, <2>5 DEF SInv, Restoring, Restored, Closing
    <3>3. file.set = config
      BY <3>2, FileTypes DEF TInv, TypeOK
    <3>4. Clashed' /\ Exclusive' /\ InStep' /\ Restoring'
      <4>1. ~clash'
        BY <2>1, <2>5
      <4>2. QED
        BY <3>1, <4>1 DEF Clashed, Exclusive, InStep, Restoring, Restored, Changing, NoRequest
    <3>5. Quiet'
      BY <1>1, <3>2 DEF Quiet
    <3>6. Kept'
      BY <1>1, <2>2, <2>5, <3>2, <3>3 DEF Kept, Safe
    <3>7. Owed'
      <4>1. \A k \in Handler : k # h => pc[k] = "idle" /\ owed'[k] = owed[k]
        BY <2>3, <2>5 DEF TInv, Alone
      <4>2. \A k \in Handler : owed'[k].config = {}
        BY <2>3, <4>1, NothingFacts DEF SInv, Owed, Due
      <4>3. QED
        BY <3>1, <4>2 DEF Owed, Due, NoRequest
    <3>8. QED
      BY <3>4, <3>5, <3>6, <3>7 DEF SInv
  <2>6. CASE req[h].op # "restore"
    <3>1. \A k \in Handler : req[k].op # "restore" /\ req'[k].op # "restore"
      BY <1>1, <2>3, <2>6, NoRestore DEF NoRequest
    <3>2. CASE clash
      <4>1. clash' /\ kept' = {} /\ \A k \in Handler : owed'[k].config = {}
        BY <2>1, <2>2, <2>4, <2>6, <3>2 DEF SInv, Clashed
      <4>2. QED
        BY <3>1, <4>1, SClash
    <3>3. CASE ~clash
      <4>1. Kept'
        <5>1. Safe(kept) /\ (req[h].op = "enable" => Safe(owed[h].config))
          BY <1>1 DEF SInv, Kept, Owed, Due, Changing
        <5>2. \A k \in Handler : pc'[k] = "write" <=> pc[k] = "write"
          BY <1>1, <2>3
        <5>3. QED
          BY <1>1, <2>2, <2>6, <5>1, <5>2 DEF Kept, Safe
      <4>2. Due(h)'
        BY <2>3, NothingFacts DEF Due, NoRequest
      <4>3. ~clash'
        BY <2>1, <3>3
      <4>4. QED
        BY <1>1, <2>3, <2>4, <3>1, <3>3, <4>1, <4>2, <4>3, SStill DEF Changing, Refreshing
    <3>4. QED
      BY <3>2, <3>3
  <2>7. QED
    BY <2>5, <2>6
<1>4. QED
  BY <1>2, <1>3, CloseStep

LEMMA SStop ==
  ASSUME TInv, SInv, Stop
  PROVE  SInv'
<1>1. /\ \A h \in Handler : pc'[h] = "idle" /\ req'[h] = NoRequest /\ owed'[h] = Nothing
      /\ file' = Text(file.set) /\ config' = file.set /\ clash' = FALSE
      /\ kept' = IF \E h \in Handler : pc[h] = "write" THEN {} ELSE kept
  BY StopStep
<1>2. file'.set = config'
  BY <1>1, FileTypes DEF TInv, TypeOK
<1>3. Clashed' /\ Exclusive' /\ Quiet' /\ InStep' /\ Restoring'
  BY <1>1 DEF Clashed, Exclusive, Quiet, InStep, Restoring, Restored, Changing, NoRequest
<1>4. Kept'
  BY <1>1, <1>2 DEF SInv, Kept, Safe
<1>5. Owed'
  BY <1>1, NothingFacts DEF Owed, Due, NoRequest
<1>6. QED
  BY <1>3, <1>4, <1>5 DEF SInv

-----------------------------------------------------------------------------
(* All of it holds at first, and every step keeps it. *)
LEMMA InitHolds == Init => IInv
<1> SUFFICES ASSUME Init PROVE IInv
  OBVIOUS
<1>1. /\ file = Text({}) /\ config = {} /\ db = EmptyDb /\ wal = {}
      /\ backups = [s \in 0 .. MaxSecond |-> Absent]
      /\ second = 0 /\ made = 0 /\ overlaps = 0
      /\ pc = [h \in Handler |-> "idle"] /\ req = [h \in Handler |-> NoRequest]
      /\ clash = FALSE /\ kept = {} /\ logged = {} /\ gone = {}
      /\ owed = [h \in Handler |-> Nothing] /\ good = [s \in 0 .. MaxSecond |-> Nothing]
  BY DEF Init
<1>2. \A h \in Handler : pc[h] = "idle" /\ req[h] = NoRequest /\ owed[h] = Nothing
  BY <1>1
<1>3. \A s \in 0 .. MaxSecond : backups[s] = Absent /\ good[s] = Nothing
  BY <1>1
<1>4. db.head = {} /\ db.rest = {}
  BY <1>1 DEF EmptyDb
<1>5. TypeOK
  <2>1. Text({}) \in ConfigFile /\ EmptyDb \in DbFile /\ Absent \in Directory
        /\ Nothing \in Promise
    BY FileTypes, DbTypes, DirectoryTypes, NothingFacts
  <2>2. 0 \in 0 .. MaxSecond /\ 0 \in 0 .. MaxRequests /\ 0 \in 0 .. MaxOverlaps
    BY ConstantsAssumption
  <2>3. file \in ConfigFile /\ config \subseteq Setting /\ db \in DbFile /\ wal \subseteq Row
        /\ backups \in [0 .. MaxSecond -> Directory] /\ good \in [0 .. MaxSecond -> Promise]
    BY <1>1, <2>1
  <2>4. /\ second \in 0 .. MaxSecond /\ made \in 0 .. MaxRequests /\ overlaps \in 0 .. MaxOverlaps
        /\ clash \in BOOLEAN /\ kept \subseteq Setting /\ logged \subseteq Row /\ gone \subseteq Row
    BY <1>1, <2>2
  <2>5. /\ pc \in [Handler -> Steps] /\ req \in [Handler -> Request \cup {NoRequest}]
        /\ owed \in [Handler -> Promise]
    BY <1>1, <2>1 DEF Steps
  <2>6. QED
    BY <2>3, <2>4, <2>5 DEF TypeOK
<1>6. TInv
  BY <1>2, <1>5 DEF TInv, Handling, Alone, Locked, Logging, Closing
<1>7. SInv
  <2>1. Clashed /\ Exclusive /\ Quiet /\ InStep /\ Restoring
    BY <1>1, <1>2 DEF Clashed, Exclusive, Quiet, InStep, Restoring, Restored, Changing, NoRequest
  <2>2. Kept /\ Owed
    BY <1>1, <1>2, NothingFacts DEF Kept, Owed, Due, Safe, NoRequest
  <2>3. QED
    BY <2>1, <2>2 DEF SInv
<1>8. BInv
  BY <1>2, <1>3, NothingFacts DEF BInv, Shared, Unfinished, Copied, Promised, CopiedRows,
                                  PromisedRows, Writer, Holds, NoRequest
<1>9. DInv
  <2>1. Wal /\ Stored /\ Gone
    BY <1>1, <1>2, <1>4 DEF Wal, Stored, Gone, Both, NoRequest
  <2>2. Absent.db.head \subseteq Old
    BY <1>1 DEF Absent, NoDb, Missing, Old
  <2>3. Aged
    BY <1>1, <1>2, <1>3, <1>4, <2>2 DEF Aged
  <2>4. QED
    BY <2>1, <2>3 DEF DInv
<1>10. QED
  BY <1>6, <1>7, <1>8, <1>9 DEF IInv

LEMMA NextHolds == IInv /\ [Next]_vars => IInv'
<1> SUFFICES ASSUME IInv, [Next]_vars PROVE IInv'
  OBVIOUS
<1>1. TInv /\ SInv /\ BInv /\ DInv
  BY DEF IInv
<1>2. ASSUME NEW h \in Handler, Receive(h) PROVE IInv'
  BY <1>1, <1>2, ReceiveStep, SReceive, BReceive, DReceive DEF IInv
<1>3. ASSUME NEW h \in Handler,
             Enable(h) \/ AlreadyEnabled(h) \/ Save(h) \/ Truncate(h) \/ Write(h)
      PROVE  IInv'
  <2>1. TInv'
    BY <1>1, <1>3, EnableStep, AlreadyEnabledStep, SaveStep, TruncateStep, WriteStep
  <2>2. SInv'
    BY <1>1, <1>3, SEnable, SAlreadyEnabled, SSave, STruncate, SWrite
  <2>3. QED
    BY <1>1, <1>3, <2>1, <2>2, BOther, DOther DEF IInv
<1>4. ASSUME NEW h \in Handler,
             Load(h) \/ Parse(h) \/ ParseError(h) \/ Reset(h) \/ Refill(h) \/ Assign(h)
      PROVE  IInv'
  <2>1. TInv'
    BY <1>1, <1>4, LoadStep, ParseStep, FailStep, ResetStep, RefillStep, AssignStep
  <2>2. SInv'
    BY <1>1, <1>4, SLoad, SParse, SFail, SReset, SAssign
  <2>3. QED
    BY <1>1, <1>4, <2>1, <2>2, BOther, DOther DEF IInv
<1>5. ASSUME NEW h \in Handler, Commit(h) \/ Checkpoint(h) \/ Close(h) \/ Fault(h)
      PROVE  IInv'
  <2>1. TInv'
    BY <1>1, <1>5, CommitStep, CheckpointStep, CloseStep, FailStep
  <2>2. SInv'
    BY <1>1, <1>5, SCommit, SClose, SFail
  <2>3. BInv'
    BY <1>1, <1>5, BOther, BCheckpoint, BClose
  <2>4. DInv'
    BY <1>1, <1>5, DCommit, DCheckpoint, DClose, DOther
  <2>5. QED
    BY <2>1, <2>2, <2>3, <2>4 DEF IInv
<1>6. ASSUME NEW h \in Handler,
             MakeDir(h) \/ CopyConfig(h) \/ CopyDb(h) \/ CopyRest(h)
      PROVE  IInv'
  <2>1. TInv'
    BY <1>1, <1>6, MakeDirStep, CopyConfigStep, CopyDbStep, CopyRestStep
  <2>2. BInv'
    BY <1>1, <1>6, BMakeDir, BCopyConfig, BCopyDb, BCopyRest
  <2>3. QED
    BY <1>1, <1>6, <2>1, <2>2, SBackup, DBackup DEF IInv
<1>7. ASSUME NEW h \in Handler, Find(h) \/ NotFound(h)
      PROVE  IInv'
  <2>1. TInv'
    BY <1>1, <1>7, FindStep, FailStep
  <2>2. SInv'
    BY <1>1, <1>7, SFind, SFail
  <2>3. QED
    BY <1>1, <1>7, <2>1, <2>2, BOther, DOther DEF IInv
<1>8. ASSUME NEW h \in Handler, TruncateDb(h) \/ WriteDb(h)
      PROVE  IInv'
  <2>1. TInv'
    BY <1>1, <1>8, TruncateDbStep, WriteDbStep
  <2>2. DInv'
    BY <1>1, <1>8, DTruncateDb, DWriteDb
  <2>3. QED
    BY <1>1, <1>8, <2>1, <2>2, SRestoreDb, BRestoreDb DEF IInv
<1>9. CASE Stop
  BY <1>1, <1>9, StopStep, SStop, BStop, DStop DEF IInv
<1>10. CASE UNCHANGED vars
  <2>1. TInv'
    BY <1>1, <1>10 DEF vars, TInv, TypeOK, Handling, Alone, Locked, Logging
  <2>2. SInv'
    BY <1>1, <1>10 DEF vars, SInv, Clashed, Exclusive, Quiet, Settled, InStep, Restoring,
                       Restored, Kept, Owed, Due, Safe, Changing, Refreshing
  <2>3. BInv'
    BY <1>1, <1>10 DEF vars, BInv, Shared, Unfinished, Copied, Promised, CopiedRows,
                       PromisedRows, Writer, Holds, Has, Whole
  <2>4. DInv'
    BY <1>1, <1>10 DEF vars, DInv, Wal, Stored, Aged, Gone, Both, Old, Audit, Data
  <2>5. QED
    BY <2>1, <2>2, <2>3, <2>4 DEF IInv
<1>11. QED
  BY <1>2, <1>3, <1>4, <1>5, <1>6, <1>7, <1>8, <1>9, <1>10 DEF Next

(* The files, the copy, the backups and what was promised of them stand to *)
(* each other as the next step of every handler needs, however refreshes,  *)
(* checkpoints and copies fall between each other's steps.                 *)
THEOREM Invariant == Spec => []IInv
<1>1. Init => IInv
  BY InitHolds
<1>2. IInv /\ [Next]_vars => IInv'
  BY NextHolds
<1>3. QED
  BY <1>1, <1>2, PTL DEF Spec

(* The variables keep their types: no file ever holds anything else than   *)
(* settings, or rows of requests that were made.                           *)
THEOREM TypeCorrect == Spec => []TypeOK
<1>1. IInv => TypeOK
  BY DEF IInv, TInv
<1>2. QED
  BY <1>1, Invariant, PTL

(* A setting that was answered is in config.json whenever the file is not  *)
(* just being rewritten, although every request reads the file back into   *)
(* the copy, until a change meets a refresh or another change.             *)
THEOREM SettingHolds == Spec => []SettingStays
<1>1. IInv => SettingStays
  BY DEF IInv, SInv, Kept, Safe, SettingStays
<1>2. QED
  BY <1>1, Invariant, PTL

(* When no request is served, _config is what config.json says, unless a   *)
(* change has met a refresh or another change.                             *)
THEOREM CopyHolds == Spec => []CopyIsFile
<1>1. IInv => CopyIsFile
  <2>1. SUFFICES ASSUME IInv, Idle, ~clash PROVE file = Text(config)
    BY DEF CopyIsFile
  <2>2. \A h \in Handler : pc[h] = "idle" /\ req[h] = NoRequest
    BY <2>1, IdleNone DEF Idle, IInv
  <2>3. NoRequest.op # "restore"
    BY DEF NoRequest
  <2>4. Settled
    BY <2>2, <2>3 DEF Settled, Changing
  <2>5. QED
    BY <2>1, <2>4 DEF IInv, SInv, Quiet
<1>2. QED
  BY <1>1, Invariant, PTL

(* A backup that was answered has what it promises, although it copies     *)
(* config.json while others rewrite it and the database file, half after   *)
(* half, while others checkpoint into it.                                  *)
THEOREM BackupHolds == Spec => []BackupIsComplete
<1>1. IInv => BackupIsComplete
  BY DEF IInv, BInv, Promised, PromisedRows, Holds, Has, BackupIsComplete
<1>2. QED
  BY <1>1, Invariant, PTL

(* A restore brings back the rows its backup promises and takes away those *)
(* the backup has not, and neither comes undone later.                     *)
THEOREM RestoreHolds == Spec => []RestoreIsExact
<1>1. IInv => RestoreIsExact
  <2>1. SUFFICES ASSUME IInv PROVE logged \subseteq Live /\ gone \cap Live = {}
    BY DEF RestoreIsExact
  <2>2. logged \subseteq Both /\ logged \subseteq Row /\ gone \cap Both = {} /\ gone \cap wal = {}
    BY <2>1 DEF IInv, DInv, Stored, Gone, TInv, TypeOK
  <2>3. Row \cap Missing = {}
    BY DEF Row, Missing, Requests
  <2>4. Live = (Both \cup wal) \ Missing
    BY DEF Live, Both
  <2>5. QED
    BY <2>2, <2>3, <2>4
<1>2. QED
  BY <1>1, Invariant, PTL
=============================================================================
