---------------------------- MODULE DatabaseSources ----------------------------
(***************************************************************************)
(* How the adapters whose source is read as a whole find what has changed  *)
(* (internal/adapters/{opencode,hermes,zcode,copilot,antigravity}, cache.go*)
(* and sqlite.go): the signature of the file is taken, the snapshot cache  *)
(* is asked, a connection is opened or taken from the handle cache, one or *)
(* two queries read the rows, the result is stored under the signature and *)
(* the events are uploaded. The tool writes between any two of these.      *)
(*                                                                         *)
(* A row is a session or a model of one (opencode, hermes, zcode, copilot) *)
(* or a generation (antigravity, written once); its value is its tokens.   *)
(* A signature is a counter that every write moves. What a failed upload   *)
(* does under a constant cursor is the subject of AgentPass.               *)
(***************************************************************************)
EXTENDS Integers, Sequences, FiniteSets, FiniteSetsExt

CONSTANTS
  Tools,       \* of the five above
  MaxRow,      \* rows of a source
  MaxWrites,   \* bound on what the tool writes
  DbFaults,    \* bound on failing opens, lost uploads and restarts
  NoEntry, NoPoll

Rows == 1..MaxRow
Residual == 0
NoRows == [r \in Rows |-> 0]

\* An entry of the snapshot cache, and a poll with what it has read so far.
Entries == [stamp : Nat, failed : BOOLEAN, request : Nat, result : Nat]
Places == {"stat", "open", "wal", "copied", "session", "rows", "store", "upload"}
Polls == [at : Places, stamp : Nat, id : Nat, db : Nat, session : Nat,
          copy : [Rows -> Nat], read : Nat, result : Nat,
          events : UNION {[R -> Nat] : R \in SUBSET (Rows \cup {Residual})}]

ASSUME DatabaseAssumption ==
  /\ Tools \subseteq {"opencode", "hermes", "zcode", "copilot", "antigravity"}
  /\ MaxRow \in Nat \ {0} /\ MaxWrites \in Nat /\ DbFaults \in Nat
  /\ NoEntry \notin Entries /\ NoPoll \notin Polls

VARIABLES
  tool,      \* whose source this is
  content,   \* by inode: rows, what of them is checkpointed, session tokens
             \* of no row yet, complete lines
  tail,      \* copilot: rows of a record without its newline, or NoRows
  stamp,     \* the signature of the file at the path, the last of content
  handle,    \* the cached connection: the inode it is filed under and reads
  entry,     \* the snapshot cache
  poll,      \* a poll in progress
  dbCursor,  \* the committed cursor, 0 when there is none
  dbHub,     \* tokens on the hub by row
  hidden,    \* ghost: was antigravity's entry signed after a write it lacks?
  late,      \* ghost: generations written after a later one
  writes, dbFaults

dbVars == <<tool, content, tail, stamp, handle, entry, poll, dbCursor, dbHub, hidden, late,
            writes, dbFaults>>

Current == content[Len(content)]
NoHandle == [id |-> 0, db |-> 0]
SumRows(rows) == FoldSet(LAMBDA r, acc : rows[r] + acc, 0, Rows)

(***************************************************************************)
(* The tool                                                                *)
(***************************************************************************)

Tool == UNCHANGED <<tool, handle, entry, poll, dbCursor, dbHub, hidden, dbFaults>>

WriteTo(c) ==
  /\ writes < MaxWrites /\ writes' = writes + 1
  /\ content' = [content EXCEPT ![Len(content)] = c]
  /\ stamp' = stamp + 1
  /\ Tool

\* Tokens of a row that changes in place (opencode, zcode).
Add(r) ==
  /\ tool \in {"opencode", "zcode"}
  /\ WriteTo([Current EXCEPT !.rows[r] = @ + 1])
  /\ UNCHANGED <<tail, late>>

\* zcode: the write-ahead log is moved into the database.
Checkpoint ==
  /\ tool = "zcode" /\ Current.main # Current.rows
  /\ WriteTo([Current EXCEPT !.main = Current.rows])
  /\ UNCHANGED <<tail, late>>

\* hermes: the session has used a token; its model's row has it later.
Spend ==
  /\ tool = "hermes"
  /\ WriteTo([Current EXCEPT !.open = @ + 1])
  /\ UNCHANGED <<tail, late>>

Attribute(r) ==
  /\ tool = "hermes" /\ Current.open > 0
  /\ WriteTo([Current EXCEPT !.rows[r] = @ + Current.open, !.open = 0])
  /\ UNCHANGED <<tail, late>>

\* copilot: a shutdown record is written, without and then with its newline.
BeginRecord(r) ==
  /\ tool = "copilot" /\ tail = NoRows
  /\ tail' = [Current.rows EXCEPT ![r] = @ + 1]
  /\ WriteTo(Current)
  /\ UNCHANGED late

EndRecord ==
  /\ tail # NoRows
  /\ tail' = NoRows
  /\ WriteTo([Current EXCEPT !.rows = tail, !.lines = @ + 1])
  /\ UNCHANGED late

\* antigravity: the data of a generation is there.
Generate(r) ==
  /\ tool = "antigravity" /\ Current.rows[r] = 0
  /\ WriteTo([Current EXCEPT !.rows[r] = 1])
  /\ late' = IF \E s \in Rows : s > r /\ Current.rows[s] > 0 THEN late \cup {r} ELSE late
  /\ UNCHANGED tail

\* Another file with the same content is put at the path.
ReplaceFile ==
  /\ writes < MaxWrites /\ writes' = writes + 1
  /\ Len(content) = 1
  /\ content' = Append(content, Current)
  /\ stamp' = stamp + 1
  /\ Tool /\ UNCHANGED <<tail, late>>

(***************************************************************************)
(* A poll                                                                  *)
(***************************************************************************)

Source == UNCHANGED <<tool, content, tail, stamp, late, writes>>

\* SnapshotCache.Lookup; antigravity has the same rule in its Parse.
Hit ==
  /\ entry # NoEntry /\ entry.stamp = stamp
  /\ (IF entry.failed THEN entry.request ELSE entry.result) = dbCursor

\* Signature and Lookup.
Sign ==
  /\ poll = NoPoll /\ ~Hit
  /\ poll' = [at |-> "stat", stamp |-> stamp, id |-> 0, db |-> 0, session |-> 0,
              copy |-> NoRows, read |-> 0, events |-> <<>>, result |-> 0]
  /\ Source /\ UNCHANGED <<handle, entry, dbCursor, dbHub, hidden, dbFaults>>

Cached == tool \in {"hermes", "zcode"}

\* SQLiteHandles.Get looks at the file; the other adapters just open it.
Stat ==
  /\ poll # NoPoll /\ poll.at = "stat"
  /\ poll' = [poll EXCEPT !.at = "open", !.id = Len(content)]
  /\ Source /\ UNCHANGED <<handle, entry, dbCursor, dbHub, hidden, dbFaults>>

\* A cached connection serves the file it is filed under.
Usable == handle # NoHandle /\ handle.id = poll.id

\* The cached connection, or a new one filed under the inode of the stat.
OpenSource ==
  /\ poll # NoPoll /\ poll.at = "open"
  /\ LET reuse == Cached /\ Usable
         db    == IF reuse THEN handle.db ELSE Len(content)
     IN  /\ poll' = [poll EXCEPT !.at = IF tool = "hermes" THEN "session" ELSE "rows",
                                 !.db = db]
         /\ handle' = IF Cached THEN [id |-> poll.id, db |-> db] ELSE handle
  /\ Source /\ UNCHANGED <<entry, dbCursor, dbHub, hidden, dbFaults>>

DbFault == dbFaults < DbFaults /\ dbFaults' = dbFaults + 1

\* The connection has gone bad, or another path takes its place: removeLocked.
DropHandle ==
  /\ DbFault /\ handle # NoHandle /\ (poll # NoPoll => poll.at = "open")
  /\ handle' = NoHandle
  /\ Source /\ UNCHANGED <<entry, poll, dbCursor, dbHub, hidden>>

\* The source cannot be opened: the error is stored under the signature.
OpenFails ==
  /\ poll # NoPoll /\ poll.at = "open" /\ DbFault
  /\ entry' = [stamp |-> poll.stamp, failed |-> TRUE, request |-> dbCursor, result |-> 0]
  /\ poll' = NoPoll /\ handle' = NoHandle
  /\ Source /\ UNCHANGED <<dbCursor, dbHub, hidden>>

\* zcode: the open fails; the database is copied, and then its log.
CopyMain ==
  /\ poll # NoPoll /\ poll.at = "open" /\ tool = "zcode" /\ DbFault
  /\ handle' = NoHandle
  /\ poll' = [poll EXCEPT !.at = "wal", !.copy = Current.main]
  /\ Source /\ UNCHANGED <<entry, dbCursor, dbHub, hidden>>

CopyWAL ==
  /\ poll # NoPoll /\ poll.at = "wal"
  /\ poll' = [poll EXCEPT !.at = "copied", !.copy =
       [r \in Rows |-> IF Current.rows[r] # Current.main[r] THEN Current.rows[r] ELSE @[r]]]
  /\ Source /\ UNCHANGED <<handle, entry, dbCursor, dbHub, hidden, dbFaults>>

\* hermes: readSessions comes first, in a query of its own.
ReadSessions ==
  /\ poll # NoPoll /\ poll.at = "session"
  /\ LET db == content[poll.db] IN
     poll' = [poll EXCEPT !.at = "rows", !.session = db.open + SumRows(db.rows)]
  /\ Source /\ UNCHANGED <<handle, entry, dbCursor, dbHub, hidden, dbFaults>>

\* The rows a query selects: those with tokens; antigravity, from its cursor.
Selected(rows) ==
  {r \in Rows : rows[r] > 0 /\ (tool = "antigravity" => r >= dbCursor)}

\* Where antigravity goes on; where copilot stops: before an unfinished line.
NextCursor(db) ==
  IF tool = "antigravity" THEN Max({dbCursor, 1} \cup {r + 1 : r \in Selected(db.rows)})
  ELSE IF tool = "copilot" THEN db.lines + 1
  ELSE 1

\* subtract: what the model rows do not account for.
Unattributed(session, rows) == Max({0, session - SumRows(rows)})

\* One event per row; hermes adds the residual when there is one.
EventsOf(rows) ==
  LET rest == IF tool = "hermes" THEN Unattributed(poll.session, rows) ELSE 0
  IN  [r \in Selected(rows) \cup (IF rest > 0 THEN {Residual} ELSE {}) |->
         IF r = Residual THEN rest ELSE rows[r]]

ReadRows ==
  /\ poll # NoPoll /\ poll.at \in {"rows", "copied"}
  /\ LET db   == IF poll.at = "copied" THEN Current ELSE content[poll.db]
         rows == IF poll.at = "copied" THEN poll.copy ELSE db.rows
     IN  poll' = [poll EXCEPT !.at = "store", !.events = EventsOf(rows),
                              !.result = NextCursor(db),
                              !.read = IF poll.db = Len(content) THEN stamp ELSE 0]
  /\ Source /\ UNCHANGED <<handle, entry, dbCursor, dbHub, hidden, dbFaults>>

\* Faulty variant: every adapter signs its entry after the read.
SignedLater == stamp

\* antigravity signs again after it has read.
SignedAs == IF tool = "antigravity" THEN stamp ELSE poll.stamp

\* SnapshotCache.Store, on a result.
StoreEntry ==
  /\ poll # NoPoll /\ poll.at = "store"
  /\ entry' = [stamp |-> SignedAs, failed |-> FALSE, request |-> dbCursor,
               result |-> poll.result]
  /\ hidden' = (tool = "antigravity" /\ poll.read # stamp)
  /\ poll' = [poll EXCEPT !.at = "upload"]
  /\ Source /\ UNCHANGED <<handle, dbCursor, dbHub, dbFaults>>

Delivered(events) == [r \in Rows \cup {Residual} |->
                        IF r \in DOMAIN events THEN events[r] ELSE dbHub[r]]

Upload ==
  /\ poll # NoPoll /\ poll.at = "upload"
  /\ dbHub' = Delivered(poll.events)
  /\ dbCursor' = poll.result
  /\ poll' = NoPoll
  /\ Source /\ UNCHANGED <<handle, entry, hidden, dbFaults>>

\* The upload fails in part, where the cursor tells.
UploadFails ==
  /\ poll # NoPoll /\ poll.at = "upload" /\ DbFault
  /\ dbCursor # poll.result
  /\ \E arrived \in SUBSET DOMAIN poll.events :
       dbHub' = Delivered([r \in arrived |-> poll.events[r]])
  /\ poll' = NoPoll
  /\ Source /\ UNCHANGED <<handle, entry, dbCursor, hidden>>

\* The agent restarts, or the source was away for a while: Prune and drop.
Restart ==
  /\ DbFault
  /\ entry' = NoEntry /\ handle' = NoHandle /\ poll' = NoPoll
  /\ Source /\ UNCHANGED <<dbCursor, dbHub, hidden>>

DbInit ==
  /\ tool \in Tools
  /\ content = <<[rows |-> NoRows, main |-> NoRows, open |-> 0, lines |-> 0]>>
  /\ tail = NoRows /\ stamp = 1
  /\ handle = NoHandle /\ entry = NoEntry /\ poll = NoPoll
  /\ dbCursor = 0 /\ dbHub = [r \in Rows \cup {Residual} |-> 0]
  /\ hidden = FALSE /\ late = {} /\ writes = 0 /\ dbFaults = 0

DbNext ==
  \/ \E r \in Rows : Add(r) \/ Attribute(r) \/ BeginRecord(r) \/ Generate(r)
  \/ Checkpoint \/ Spend \/ EndRecord \/ ReplaceFile
  \/ Sign \/ Stat \/ OpenSource \/ DropHandle \/ OpenFails \/ CopyMain \/ CopyWAL
  \/ ReadSessions \/ ReadRows \/ StoreEntry \/ Upload \/ UploadFails \/ Restart

DbSpec == DbInit /\ [][DbNext]_dbVars

-----------------------------------------------------------------------------

DbTypeOK ==
  /\ tool \in Tools /\ Len(content) \in 1..2 /\ stamp \in 1..(MaxWrites + 1)
  /\ \A i \in 1..Len(content) :
       content[i] \in [rows : [Rows -> 0..MaxWrites], main : [Rows -> 0..MaxWrites],
                       open : 0..MaxWrites, lines : 0..MaxWrites]
  /\ tail \in [Rows -> 0..MaxWrites]
  /\ handle \in [id : 0..2, db : 0..2]
  /\ entry # NoEntry => entry.stamp \in 1..stamp /\ entry.failed \in BOOLEAN
  /\ poll # NoPoll => /\ poll.stamp \in 1..stamp /\ poll.id \in 0..2 /\ poll.db \in 0..2
                      /\ poll.at \in Places
  /\ dbCursor \in 0..(MaxWrites + MaxRow + 1)
  /\ dbHub \in [Rows \cup {Residual} -> 0..MaxWrites]
  /\ late \subseteq Rows /\ writes \in 0..MaxWrites /\ dbFaults \in 0..DbFaults

(***************************************************************************)
(* Of a source the agent takes for unchanged, the hub shows every row and, *)
(* for hermes, the tokens no model row accounts for yet. So a write in the *)
(* middle of a read, a torn copy ("which the snapshot cache signature      *)
(* invalidates on the next poll", zcode.go, 319-321), a connection to a    *)
(* file that was replaced ("so the caller never reads a stale inode",      *)
(* sqlite.go, 92-95) or an unfinished record is always read again.         *)
(* Excepted are a write antigravity has hidden by signing after its read,  *)
(* a generation written after a later one, and what hermes has sent of a   *)
(* session before its model rows accounted for all of it: a residual that  *)
(* comes down to nothing is skipped (hermes.go, 203-206), so its last      *)
(* event stays on the hub beside the rows that replaced it, and the        *)
(* session is counted twice.                                               *)
(***************************************************************************)
HubShowsSource ==
  Hit /\ ~entry.failed /\ ~hidden /\ (poll = NoPoll) =>
    /\ \A r \in Rows \ late : Current.rows[r] > 0 => dbHub[r] = Current.rows[r]
    /\ tool = "hermes" /\ Current.open > 0 => dbHub[Residual] = Current.open

=============================================================================
