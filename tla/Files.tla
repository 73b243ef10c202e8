------------------------------- MODULE Files -------------------------------
(***************************************************************************)
(* Uploaded files (core/file_manager.py, api/routes/file.py,               *)
(* Scheduler.delete_old_files): a row of the File table and a file on disk *)
(* for each upload, made and removed in separate steps by uploads,         *)
(* deletions, the cleaner and the deletion of the user, none of which      *)
(* locks anything.                                                         *)
(*                                                                         *)
(* The uploads modelled are those of one user that carry one file name:    *)
(* path 0 is that name, path k the one with "_(k)" after its stem.         *)
(***************************************************************************)
EXTENDS Integers, FiniteSets, FiniteSetsExt

CONSTANTS Uploads,     \* POST /file invocations; each may make the row of its name
          Deletions,   \* DELETE /file/{id} invocations
          Cleaner,     \* the scheduler's job
          UserDelete,  \* DELETE /user/{id}
          MaxFaults    \* bound on exceptions, restarts included

ASSUME FileAssumption ==
    /\ IsFiniteSet(Uploads) /\ IsFiniteSet(Deletions)
    /\ Uploads \cap Deletions = {} /\ Cleaner # UserDelete
    /\ {Cleaner, UserDelete} \cap (Uploads \cup Deletions) = {}
    /\ MaxFaults \in Nat

VARIABLES user,     \* the User row is there
          files,    \* File rows, named by the upload that made them
          old,      \* rows uploaded more than a day ago
          disk,     \* content of the existing paths: its writers, and whether it is whole
          path,     \* the path each upload chose
          pc,       \* how far each process has come
          target,   \* the row each deletion is about
          list, first, expired,  \* cleaner: rows left, the one in hand, "a commit since"
          met,      \* history: paths that two processes were at work on at a time
          cut,      \* history: paths that a process was at work on when it failed
          faults

fileVars == <<user, files, old, disk, path, pc, target, list, first, expired, met, cut, faults>>

Paths     == 0 .. Cardinality(Uploads)
Processes == Uploads \cup Deletions \cup {Cleaner, UserDelete}
NoRow     == Cleaner
NoPath    == -1
Ended     == {"done", "refused", "dead"}
Exists(p) == p \in DOMAIN disk

\* The paths a process is at work on.
Holds(x) ==
    IF pc[x] \in {"idle"} \cup Ended THEN {}
    ELSE CASE x \in Uploads   -> {path[x]}
           [] x \in Deletions -> {path[target[x]]}
           [] x = Cleaner     -> {path[f] : f \in list \cup ({first} \ {NoRow})}
           [] x = UserDelete  -> Paths

HeldBut(x) == UNION {Holds(y) : y \in Processes \ {x}}
Meet(x, ps) == met' = met \cup (ps \cap HeldBut(x))

\* x is cut short at what it was at work on.
CutShort(x)  == cut' = cut \cup Holds(x)
Goto(x, to)  == pc' = [pc EXCEPT ![x] = to]
Fault        == faults < MaxFaults /\ faults' = faults + 1
Unlinked(ps) == [p \in DOMAIN disk \ ps |-> disk[p]]
Written(p, content) == [q \in DOMAIN disk \cup {p} |-> IF q = p THEN content ELSE disk[q]]

cleaning == <<list, first, expired>>

FileInit ==
    /\ user = TRUE /\ files = {} /\ old = {}
    /\ disk = [p \in {} |-> [by |-> {}, whole |-> FALSE]]
    /\ path = [u \in Uploads |-> NoPath]
    /\ pc = [x \in Processes |-> "idle"]
    /\ target = [d \in Deletions |-> NoRow]
    /\ list = {} /\ first = NoRow /\ expired = FALSE
    /\ met = {} /\ cut = {} /\ faults = 0

-----------------------------------------------------------------------------
(* upload_file.                                                              *)

\* Mutant: the name of the upload is taken as it is.
ChooseNamed(u) ==
    /\ pc[u] = "idle"
    /\ path' = [path EXCEPT ![u] = 0]
    /\ Meet(u, {0}) /\ Goto(u, "open")
    /\ UNCHANGED <<user, files, old, disk, target, cleaning, cut, faults>>

\* generate_file_path: the first path that does not exist.  A token is taken as it
\* is: that of a deleted user writes a file too, and fails at the row.
ChoosePath(u) ==
    LET p == Min({q \in Paths : ~Exists(q)})
    IN  /\ pc[u] = "idle"
        /\ path' = [path EXCEPT ![u] = p]
        /\ Meet(u, {p}) /\ Goto(u, "open")
        /\ UNCHANGED <<user, files, old, disk, target, cleaning, cut, faults>>

\* open(path, "wb") makes the file, or empties it.
Open(u) ==
    /\ pc[u] = "open"
    /\ disk' = Written(path[u], [by |-> {u}, whole |-> FALSE])
    /\ Goto(u, "write")
    /\ UNCHANGED <<user, files, old, path, target, cleaning, met, cut, faults>>

\* The chunks, and the decryption.  A file that was unlinked meanwhile stays so, and
\* one that another upload opened gets both, unless a decrypted copy is moved there.
Write(u) ==
    LET p == path[u]
    IN  /\ pc[u] = "write"
        /\ \/ Exists(p) /\ disk' = [disk EXCEPT ![p] = [by |-> @.by \cup {u}, whole |-> TRUE]]
           \/ ~Exists(p) /\ UNCHANGED disk
           \/ disk' = Written(p, [by |-> {u}, whole |-> TRUE])
        /\ Goto(u, "insert")
        /\ UNCHANGED <<user, files, old, path, target, cleaning, met, cut, faults>>

\* Mutant: what was written of a file that is too large is left there.
TooLargeLeft(u) ==
    /\ pc[u] = "write" /\ Goto(u, "refused")
    /\ UNCHANGED <<user, files, old, disk, path, target, cleaning, met, cut, faults>>

\* 413.
TooLarge(u) ==
    /\ pc[u] = "write"
    /\ disk' = Unlinked({path[u]})
    /\ Goto(u, "refused")
    /\ UNCHANGED <<user, files, old, path, target, cleaning, met, cut, faults>>

\* get_total_pages and create_file.
InsertRow(u) ==
    /\ pc[u] = "insert" /\ user
    /\ files' = files \cup {u}
    /\ Goto(u, "done")
    /\ UNCHANGED <<user, old, disk, path, target, cleaning, met, cut, faults>>

\* The pages cannot be counted or the row is refused: the file stays.
UploadFails(u) ==
    /\ \/ pc[u] \in {"open", "write", "insert"} /\ Fault
       \/ pc[u] = "insert" /\ ~user /\ UNCHANGED faults
    /\ Goto(u, "dead") /\ CutShort(u)
    /\ UNCHANGED <<user, files, old, disk, path, target, cleaning, met>>

-----------------------------------------------------------------------------
(* delete_file.                                                              *)

DeleteFile(d, f) ==
    /\ pc[d] = "idle" /\ f \in files
    /\ target' = [target EXCEPT ![d] = f]
    /\ Meet(d, {path[f]}) /\ Goto(d, "row")
    /\ UNCHANGED <<user, files, old, disk, path, cleaning, cut, faults>>

\* The row first.  One that is gone is a 404, or a warning when it had been read:
\* then the path is removed all the same.
DeleteRow(d) ==
    /\ pc[d] = "row"
    /\ files' = files \ {target[d]} /\ old' = old \ {target[d]}
    /\ \/ Goto(d, "unlink")
       \/ target[d] \notin files /\ Goto(d, "refused")
    /\ UNCHANGED <<user, disk, path, target, cleaning, met, cut, faults>>

Unlink(d) ==
    /\ pc[d] = "unlink"
    /\ disk' = Unlinked({path[target[d]]})
    /\ Goto(d, "done")
    /\ UNCHANGED <<user, files, old, path, target, cleaning, met, cut, faults>>

DeletionFails(d) ==
    /\ pc[d] \in {"row", "unlink"} /\ Fault /\ Goto(d, "dead") /\ CutShort(d)
    /\ UNCHANGED <<user, files, old, disk, path, target, cleaning, met>>

-----------------------------------------------------------------------------
(* Scheduler.delete_old_files_sync.                                          *)

\* Mutant: the comparison of the times is the other way round.
CleanYoung ==
    /\ pc[Cleaner] = "idle" /\ files \ old # {}
    /\ list' = files \ old /\ expired' = FALSE
    /\ Meet(Cleaner, {path[f] : f \in files \ old}) /\ Goto(Cleaner, "next")
    /\ UNCHANGED <<user, files, old, disk, path, target, first, cut, faults>>

Clean ==
    /\ pc[Cleaner] = "idle" /\ old # {}
    /\ list' = old /\ expired' = FALSE
    /\ Meet(Cleaner, {path[f] : f \in old}) /\ Goto(Cleaner, "next")
    /\ UNCHANGED <<user, files, old, disk, path, target, first, cut, faults>>

\* file.id, read again after a commit: that raises for a row that is gone, which
\* ends the pass.
CleanNext(f) ==
    /\ pc[Cleaner] = "next" /\ f \in list
    /\ \/ (expired => f \in files) /\ Goto(Cleaner, "row")
          /\ list' = list \ {f} /\ first' = f /\ UNCHANGED expired
       \/ expired /\ f \notin files /\ Goto(Cleaner, "idle")
          /\ list' = {} /\ expired' = FALSE /\ UNCHANGED first
    /\ UNCHANGED <<user, files, old, disk, path, target, met, cut, faults>>

\* FileService.delete_file commits, unless the row is gone.
CleanRow ==
    /\ pc[Cleaner] = "row"
    /\ files' = files \ {first} /\ old' = old \ {first}
    /\ expired' = (expired \/ first \in files)
    /\ Goto(Cleaner, "unlink")
    /\ UNCHANGED <<user, disk, path, target, list, first, met, cut, faults>>

\* The path goes in any case.
CleanPath ==
    /\ pc[Cleaner] = "unlink"
    /\ disk' = Unlinked({path[first]})
    /\ first' = NoRow
    /\ Goto(Cleaner, "next")
    /\ UNCHANGED <<user, files, old, path, target, list, expired, met, cut, faults>>

CleanEnd ==
    /\ pc[Cleaner] = "next" /\ list = {} /\ Goto(Cleaner, "idle") /\ expired' = FALSE
    /\ UNCHANGED <<user, files, old, disk, path, target, list, first, met, cut, faults>>

\* A path whose row is deleted stays on disk.
CleanFails ==
    /\ pc[Cleaner] # "idle" /\ Fault /\ Goto(Cleaner, "idle") /\ CutShort(Cleaner)
    /\ list' = {} /\ first' = NoRow /\ expired' = FALSE
    /\ UNCHANGED <<user, files, old, disk, path, target, met>>

-----------------------------------------------------------------------------
(* routes/user.py delete_user, and the time.                                 *)

\* The rows go with the user's.
DeleteUser ==
    /\ user /\ user' = FALSE /\ files' = {} /\ old' = {}
    /\ Meet(UserDelete, Paths) /\ Goto(UserDelete, "rmtree")
    /\ UNCHANGED <<disk, path, target, cleaning, cut, faults>>

DeleteDirectory ==
    /\ pc[UserDelete] = "rmtree"
    /\ disk' = Unlinked(Paths)
    /\ Goto(UserDelete, "done")
    /\ UNCHANGED <<user, files, old, path, target, cleaning, met, cut, faults>>

DayPasses(f) ==
    /\ f \in files \ old /\ old' = old \cup {f}
    /\ UNCHANGED <<user, files, disk, path, pc, target, cleaning, met, cut, faults>>

CleanPass == Clean \/ (\E f \in Uploads : CleanNext(f)) \/ CleanRow \/ CleanPath \/ CleanEnd

FileNext ==
    \/ \E u \in Uploads :
          \/ ChoosePath(u) \/ Open(u) \/ Write(u) \/ TooLarge(u) \/ InsertRow(u) \/ UploadFails(u)
          \/ DayPasses(u)
    \/ \E d \in Deletions :
          (\E f \in Uploads : DeleteFile(d, f)) \/ DeleteRow(d) \/ Unlink(d) \/ DeletionFails(d)
    \/ CleanPass \/ CleanFails
    \/ DeleteUser \/ DeleteDirectory

\* The job runs every two hours, and a pass goes on.
FileSpec == FileInit /\ [][FileNext]_fileVars /\ WF_fileVars(CleanPass)

-----------------------------------------------------------------------------
\* A row of the table has its own file, whole, at every moment, unless two
\* processes were at work on its path at a time.
RowHasItsFile ==
    \A f \in files : path[f] \notin met =>
       /\ Exists(path[f])
       /\ disk[path[f]] = [by |-> {f}, whole |-> TRUE]

\* A path with no row is one that a process is at work on, or was left by one
\* that was cut short: nothing else stays on disk for ever.
OrphansWereCutShort ==
    \A p \in DOMAIN disk \ (met \cup cut) :
       (\E f \in files : path[f] = p) \/ (\E x \in Processes : p \in Holds(x))

\* A row that is a day old goes, whatever is deleted around the cleaner.
OldRowsGo == \A f \in Uploads : f \in old ~> f \notin files
=============================================================================
