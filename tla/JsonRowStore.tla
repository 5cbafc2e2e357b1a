---------------------------- MODULE JsonRowStore ----------------------------
(***************************************************************************)
(* The file layer under positions.json and fund_and_action_sessions.json:  *)
(* lib/position_storage.py and lib/session_storage.py hold the same code.  *)
(*                                                                         *)
(* upsert takes a module-level threading.Lock, re-reads the whole file,    *)
(* changes one row, writes the result to a sibling .tmp file and renames   *)
(* it over the file.  Every CLI command is a process of its own, so the    *)
(* lock orders the threads of one process only; ProcessOf says which       *)
(* threads share one.  A process may die between any two steps.            *)
(*                                                                         *)
(* An open file handle follows the file through a rename: a thread that    *)
(* opened .tmp before another process renamed it writes into the renamed   *)
(* file (handle "main"), and once that one is replaced in turn, into a     *)
(* file with no name ("unlinked").                                         *)
(***************************************************************************)
EXTENDS Naturals, FiniteSets

CONSTANTS
  Threads, Keys, Vals, Absent, NoCall,
  Processes,   \* CLI processes that share the storage directory
  ProcessOf,   \* thread -> process
  NoFile,      \* the path does not exist
  Blank,       \* opened for writing and truncated, nothing readable in it yet
  Torn         \* text that json.loads rejects, left by overlapping writes

Rows == [Keys -> Vals \cup {Absent}]
NoRows == [k \in Keys |-> Absent]
Calls == [key : Keys, val : Vals]

ASSUME ConstantsAssumption ==
  /\ ProcessOf \in [Threads -> Processes]
  /\ Absent \notin Vals
  /\ NoCall \notin Calls
  /\ {NoFile, Blank, Torn} \cap Rows = {}
  /\ NoFile \notin {Blank, Torn} /\ Blank # Torn

VARIABLES
  main,     \* content of the .json file
  tmp,      \* content of the .tmp file
  lock,     \* per process: is _storage_lock / _session_storage_lock held
  pc,       \* per thread: next step of upsert
  call,     \* per thread: the record passed to upsert
  rows,     \* per thread: the list upsert works on
  handle    \* per thread: what its open file handle points at

vars == <<main, tmp, lock, pc, call, rows, handle>>

Steps == {"idle", "acquire", "read", "open", "write", "rename"}
Content == Rows \cup {Blank, Torn}

TypeOK ==
  /\ main \in Content \cup {NoFile}
  /\ tmp \in Content \cup {NoFile}
  /\ lock \in [Processes -> BOOLEAN]
  /\ pc \in [Threads -> Steps]
  /\ call \in [Threads -> Calls \cup {NoCall}]
  /\ rows \in [Threads -> Rows]
  /\ handle \in [Threads -> {"closed", "tmp", "main", "unlinked"}]

Init ==
  /\ main = NoFile
  /\ tmp = NoFile
  /\ lock = [p \in Processes |-> FALSE]
  /\ pc = [t \in Threads |-> "idle"]
  /\ call = [t \in Threads |-> NoCall]
  /\ rows = [t \in Threads |-> NoRows]
  /\ handle = [t \in Threads |-> "closed"]

-----------------------------------------------------------------------------
(* _read_payload: no file and unparsable text both read as the empty list. *)
Parse(content) == IF content \in Rows THEN content ELSE NoRows

(* The list with the record put in, as upsert computes it.                 *)
WithRow(content, c) == [Parse(content) EXCEPT ![c.key] = c.val]

(* Text written from offset 0 over what the file holds: on a file that     *)
(* another handle has filled since, a longer text leaves its tail behind.  *)
Overlay(content, text) == IF content = Blank THEN {text} ELSE {text, Torn}

Unlocked(t) == [lock EXCEPT ![ProcessOf[t]] = FALSE]

(* upsert(record) is called. *)
CallUpsert(t) ==
  /\ pc[t] = "idle"
  /\ \E c \in Calls : call' = [call EXCEPT ![t] = c]
  /\ pc' = [pc EXCEPT ![t] = "acquire"]
  /\ UNCHANGED <<main, tmp, lock, rows, handle>>

(* `with _storage_lock` *)
AcquireUnguarded(t) ==
  /\ pc[t] = "acquire"
  /\ lock' = [lock EXCEPT ![ProcessOf[t]] = TRUE]
  /\ pc' = [pc EXCEPT ![t] = "read"]
  /\ UNCHANGED <<main, tmp, call, rows, handle>>

Acquire(t) ==
  /\ pc[t] = "acquire"
  /\ ~lock[ProcessOf[t]]
  /\ lock' = [lock EXCEPT ![ProcessOf[t]] = TRUE]
  /\ pc' = [pc EXCEPT ![t] = "read"]
  /\ UNCHANGED <<main, tmp, call, rows, handle>>

(* list_positions() / list_sessions(), then the row is replaced or added.  *)
ReadUnparsed(t) ==
  /\ pc[t] = "read"
  /\ rows' = [rows EXCEPT ![t] = main]
  /\ pc' = [pc EXCEPT ![t] = "open"]
  /\ UNCHANGED <<main, tmp, lock, call, handle>>

ReadRows(t) ==
  /\ pc[t] = "read"
  /\ rows' = [rows EXCEPT ![t] = WithRow(main, call[t])]
  /\ pc' = [pc EXCEPT ![t] = "open"]
  /\ UNCHANGED <<main, tmp, lock, call, handle>>

(* temp_path.write_text, first half: open("w") creates or truncates .tmp.  *)
OpenInPlace(t) ==
  /\ pc[t] = "open"
  /\ main' = Blank
  /\ tmp' = Blank
  /\ handle' = [handle EXCEPT ![t] = "tmp"]
  /\ pc' = [pc EXCEPT ![t] = "write"]
  /\ UNCHANGED <<lock, call, rows>>

OpenTmp(t) ==
  /\ pc[t] = "open"
  /\ tmp' = Blank
  /\ handle' = [handle EXCEPT ![t] = "tmp"]
  /\ pc' = [pc EXCEPT ![t] = "write"]
  /\ UNCHANGED <<main, lock, call, rows>>

(* temp_path.write_text, second half: the text reaches the open file,      *)
(* whatever its name is by now, and the handle is closed.                  *)
WriteText(t) ==
  /\ pc[t] = "write"
  /\ \/ /\ handle[t] = "tmp"
        /\ tmp' \in Overlay(tmp, rows[t])
        /\ UNCHANGED main
     \/ /\ handle[t] = "main"
        /\ main' \in Overlay(main, rows[t])
        /\ UNCHANGED tmp
     \/ /\ handle[t] = "unlinked"
        /\ UNCHANGED <<main, tmp>>
  /\ handle' = [handle EXCEPT ![t] = "closed"]
  /\ pc' = [pc EXCEPT ![t] = "rename"]
  /\ UNCHANGED <<lock, call, rows>>

(* Handles on .tmp follow it to its new name; handles on the file it       *)
(* replaces are left with a nameless file.                                 *)
Renamed(h) ==
  CASE h = "tmp" -> "main" [] h = "main" -> "unlinked" [] OTHER -> h

(* temp_path.replace(self.path), and upsert returns: the lock is released. *)
Rename(t) ==
  /\ pc[t] = "rename"
  /\ tmp # NoFile
  /\ main' = tmp
  /\ tmp' = NoFile
  /\ handle' = [u \in Threads |-> Renamed(handle[u])]
  /\ pc' = [pc EXCEPT ![t] = "idle"]
  /\ call' = [call EXCEPT ![t] = NoCall]
  /\ rows' = [rows EXCEPT ![t] = NoRows]
  /\ lock' = Unlocked(t)

(* Another process has renamed the .tmp file away: replace raises          *)
(* FileNotFoundError, and the with statement releases the lock.            *)
RenameRaisesLocked(t) ==
  /\ pc[t] = "rename"
  /\ tmp = NoFile
  /\ pc' = [pc EXCEPT ![t] = "idle"]
  /\ call' = [call EXCEPT ![t] = NoCall]
  /\ rows' = [rows EXCEPT ![t] = NoRows]
  /\ UNCHANGED <<main, tmp, lock, handle>>

RenameRaises(t) ==
  /\ pc[t] = "rename"
  /\ tmp = NoFile
  /\ pc' = [pc EXCEPT ![t] = "idle"]
  /\ call' = [call EXCEPT ![t] = NoCall]
  /\ rows' = [rows EXCEPT ![t] = NoRows]
  /\ lock' = Unlocked(t)
  /\ UNCHANGED <<main, tmp, handle>>

(* A CLI process is killed or crashes: its threads, its lock and its file  *)
(* handles go with it; the two files stay as they are.                     *)
Kill(p) ==
  LET dead == {t \in Threads : ProcessOf[t] = p}
      Reset(f, v) == [t \in Threads |-> IF t \in dead THEN v ELSE f[t]]
  IN /\ \E t \in dead : pc[t] # "idle"
     /\ pc' = Reset(pc, "idle")
     /\ call' = Reset(call, NoCall)
     /\ rows' = Reset(rows, NoRows)
     /\ handle' = Reset(handle, "closed")
     /\ lock' = [lock EXCEPT ![p] = FALSE]
     /\ UNCHANGED <<main, tmp>>

UpsertStep(t) ==
  ReadRows(t) \/ OpenTmp(t) \/ WriteText(t) \/ Rename(t) \/ RenameRaises(t)

Next ==
  \/ \E t \in Threads : CallUpsert(t) \/ Acquire(t) \/ UpsertStep(t)
  \/ \E p \in Processes : Kill(p)

Spec == Init /\ [][Next]_vars

(* A thread that holds the lock is running: it takes its next step.        *)
FairSpec == Spec /\ \A t \in Threads : WF_vars(UpsertStep(t))

-----------------------------------------------------------------------------
(* The steps between taking the lock and releasing it.                     *)
Locked == {"read", "open", "write", "rename"}

(* A thread has a record to store exactly while it is inside upsert.       *)
Called == \A t \in Threads : pc[t] # "idle" <=> call[t] \in Calls

(* Why the file always parses when every thread is of one process: at most *)
(* one thread is between the lock's acquisition and its release, what it   *)
(* works on is what the file still holds, and .tmp is its own.             *)
LockedAlone ==
  /\ \A t \in Threads : pc[t] \in Locked => lock[ProcessOf[t]]
  /\ \A s, t \in Threads : pc[s] \in Locked /\ pc[t] \in Locked => s = t

WorkIsCurrent ==
  \A t \in Threads :
    /\ pc[t] \in {"open", "write", "rename"} => rows[t] = WithRow(main, call[t])
    /\ pc[t] = "write" => tmp = Blank /\ handle[t] = "tmp"
    /\ pc[t] = "rename" => tmp = rows[t]

-----------------------------------------------------------------------------
(* A reader (list_positions, get_active_session) takes no lock and may     *)
(* open the file at any moment.  It never meets text it cannot parse,      *)
(* which it would take for an empty journal, and which the next upsert     *)
(* would then replace by a journal of one row.                             *)
FileAlwaysParses == main # NoFile => main \in Rows

OneProcessInv == TypeOK /\ Called /\ LockedAlone /\ WorkIsCurrent /\ FileAlwaysParses

(* The file is exactly the table RowStore describes: each upsert changes   *)
(* one row, in one instant, and a killed one changes nothing or all of it. *)
Table == INSTANCE RowStore WITH store <- Parse(main), call <- call
IsRowStore == Table!StoreSpec

(* The lock of a process is held exactly while one of its threads is       *)
(* inside, and by that one alone, however upsert is left: by the rename,   *)
(* by the exception another process causes, or by the process's death.     *)
LockMeansOneInside ==
  \A p \in Processes :
    LET Inside == {t \in Threads : ProcessOf[t] = p /\ pc[t] \in Locked}
    IN /\ lock[p] <=> Inside # {}
       /\ \A s, t \in Inside : s = t

(* The lock of a process is never leaked: not by the exception path, not   *)
(* by a thread stopping half way.                                          *)
LockIsReleased == \A p \in Processes : lock[p] ~> ~lock[p]
=============================================================================
