------------------------------ MODULE Printers ------------------------------
(***************************************************************************)
(* The printer table and what mirrors CUPS in it (core/scheduler.py,       *)
(* core/cups_manager.py, db/crud/printer.py, api/routes/printer.py).       *)
(*                                                                         *)
(* The scheduler's job reads all printers from CUPS and compares them with *)
(* the picture it keeps in memory.  A new picture replaces the old one at  *)
(* once; then every printer of it is written in a commit of its own.  An   *)
(* exception ends the pass.  Administrators add and delete rows meanwhile, *)
(* and the toner levels of printers are read and merged with the marker    *)
(* cache, which a deletion empties.                                        *)
(***************************************************************************)
EXTENDS Markers, FiniteSets

CONSTANTS Names,          \* printer names
          Conditions,     \* what CUPS says of a printer: [status, reasons]
          Odd,            \* a printer with no location, or in a state the enum lacks
          Absent,         \* not a printer of CUPS
          MarkerPrinter,  \* the printer whose marker cache is modelled
          Readers,        \* toner requests and alert passes that read its markers
          MaxEvents       \* bound on what the environment does

ASSUME PrinterAssumption ==
    /\ \A c \in Conditions : c = [status |-> c.status, reasons |-> c.reasons]
    /\ Odd \notin Conditions /\ Absent \notin Conditions /\ Odd # Absent
    /\ MarkerPrinter \in Names
    /\ MaxEvents \in Nat

VARIABLES cups,      \* what CUPS would answer, for every name
          picture,   \* Scheduler.printers_data
          rows,      \* the Printer table: names are not unique in it
          syncStep, syncTodo, cur, \* the pass: its step, the printers left, the one in hand
          failed,    \* history: the last pass that wrote was cut short
          removed,   \* history: printers an administrator deleted since the picture
          fresh,     \* history: printers inserted by the pass of this picture
          reader,    \* how far each reader has come, and the raw reading it holds
          cache,     \* marker_cache_v2 rows of MarkerPrinter
          known,     \* history: markers whose level was read since the cache was emptied
          shown,     \* the last reading returned since then
          clearing,  \* DELETE handlers between the row and the cache
          events

job         == <<picture, syncStep, syncTodo, cur, failed, fresh>>
markers     == <<reader, cache, known, shown, clearing>>
printerVars == <<cups, rows, job, removed, markers, events>>

Ids           == 1 .. (Cardinality(Names) + MaxEvents)
Statuses      == {c.status : c \in Conditions}
NoReasons     == {}
NoPicture     == [n \in Names |-> Absent]
Present(p)    == {n \in Names : p[n] # Absent}
RowsOf(n)     == {r \in rows : r.name = n}
\* Ids are never given twice: not that of a row there is, nor of the one in hand.
Unused        == {i \in Ids \ {cur.row} : \A r \in rows : r.id # i}
NewId         == CHOOSE i \in Unused : TRUE
Done          == [at |-> "done", raw |-> NoMarkers]
Nothing       == [name |-> "none", row |-> 0]

Event == events < MaxEvents /\ events' = events + 1

PrinterInit ==
    /\ cups \in [Names -> Conditions \cup {Absent}] /\ picture = NoPicture /\ rows = {}
    /\ syncStep = "idle" /\ syncTodo = {} /\ cur = Nothing /\ failed = FALSE
    /\ removed = {} /\ fresh = {}
    /\ reader = [r \in Readers |-> [at |-> "idle", raw |-> NoMarkers]]
    /\ cache = NoMarkers /\ known = {} /\ shown = NoMarkers /\ clearing = 0
    /\ events = 0

-----------------------------------------------------------------------------
(* Scheduler.update_printers_sync.                                           *)

\* Mutant: the picture is only replaced by a shorter or longer one.
SeeCount(got) ==
    /\ syncStep = "idle"
    /\ picture = NoPicture \/ Cardinality(Present(got)) # Cardinality(Present(picture))
    /\ picture' = got /\ syncTodo' = Present(got) /\ syncStep' = "next"
    /\ failed' = FALSE /\ removed' = {} /\ fresh' = {}
    /\ UNCHANGED <<cups, rows, cur, markers>>

\* get_printers and check_printer_changes: anything is new to an empty picture.
See(got) ==
    /\ syncStep = "idle" /\ (picture = NoPicture \/ got # picture)
    /\ picture' = got /\ syncTodo' = Present(got) /\ syncStep' = "next"
    /\ failed' = FALSE /\ removed' = {} /\ fresh' = {}
    /\ UNCHANGED <<cups, rows, cur, markers>>

Poll == See(cups) /\ UNCHANGED events

\* An IPPError is answered with no printers at all.
PollUnanswered == Event /\ picture # NoPicture /\ See(NoPicture)

Abort ==
    /\ syncStep' = "idle" /\ syncTodo' = {} /\ cur' = Nothing /\ failed' = TRUE
    /\ UNCHANGED <<cups, picture, rows, removed, fresh, markers>>

\* PrinterCUPSUpdate(**data) raises: the printers after this one wait, too.
Invalid(n) == syncStep = "next" /\ n \in syncTodo /\ picture[n] = Odd /\ Abort /\ UNCHANGED events

\* update_printer_CUPS: any row of that name.
Find(n) ==
    /\ syncStep = "next" /\ n \in syncTodo /\ picture[n] # Odd
    /\ \/ \E r \in RowsOf(n) : cur' = [name |-> n, row |-> r.id]
       \/ RowsOf(n) = {} /\ cur' = [name |-> n, row |-> 0]
    /\ syncStep' = "write" /\ syncTodo' = syncTodo \ {n}
    /\ UNCHANGED <<cups, picture, rows, failed, removed, fresh, markers, events>>

Updated(r) == [r EXCEPT !.status  = picture[cur.name].status,
                        !.reasons = picture[cur.name].reasons]

\* Mutant: the reasons of a printer that is known are left as they are.
UpdateStatus ==
    /\ syncStep = "write" /\ cur.row # 0 /\ \E r \in rows : r.id = cur.row
    /\ rows' = {IF r.id = cur.row THEN [r EXCEPT !.status = picture[cur.name].status] ELSE r
                : r \in rows}
    /\ syncStep' = "next" /\ cur' = Nothing
    /\ UNCHANGED <<cups, picture, syncTodo, failed, removed, fresh, markers, events>>

Update ==
    /\ syncStep = "write" /\ cur.row # 0 /\ \E r \in rows : r.id = cur.row
    /\ rows' = {IF r.id = cur.row THEN Updated(r) ELSE r : r \in rows}
    /\ syncStep' = "next" /\ cur' = Nothing
    /\ UNCHANGED <<cups, picture, syncTodo, failed, removed, fresh, markers, events>>

\* The row was deleted under the pass: the commit raises.
UpdateGone ==
    /\ syncStep = "write" /\ cur.row # 0 /\ \A r \in rows : r.id # cur.row
    /\ Abort /\ UNCHANGED events

\* PrinterCreate has no state_reasons: the ones CUPS gave are dropped.
Insert ==
    /\ syncStep = "write" /\ cur.row = 0 /\ Unused # {}
    /\ rows' = rows \cup {[id |-> NewId, name |-> cur.name,
                           status |-> picture[cur.name].status, reasons |-> NoReasons]}
    /\ fresh' = fresh \cup {cur.name}
    /\ syncStep' = "next" /\ cur' = Nothing
    /\ UNCHANGED <<cups, picture, syncTodo, failed, removed, markers, events>>

Finish ==
    /\ syncStep = "next" /\ syncTodo = {} /\ syncStep' = "idle"
    /\ UNCHANGED <<cups, picture, rows, syncTodo, cur, failed, removed, fresh, markers, events>>

\* A database error; run_in_executor logs it.
PassFails == syncStep # "idle" /\ Event /\ Abort

\* The picture is lost with the process, and so are handlers and readers.
Restart ==
    /\ Event
    /\ picture' = NoPicture /\ syncStep' = "idle" /\ syncTodo' = {} /\ cur' = Nothing
    /\ failed' = FALSE /\ fresh' = {} /\ clearing' = 0
    /\ reader' = [r \in Readers |-> IF reader[r].at = "raw" THEN Done ELSE reader[r]]
    /\ UNCHANGED <<cups, rows, removed, cache, known, shown>>

-----------------------------------------------------------------------------
(* api/routes/printer.py.                                                    *)

\* POST /printer: no check that the name is free.
Create(n, s) ==
    /\ Event /\ Unused # {}
    /\ rows' = rows \cup {[id |-> NewId, name |-> n, status |-> s, reasons |-> NoReasons]}
    /\ UNCHANGED <<cups, job, removed, markers>>

\* DELETE /printer/{name}: the row first.
Delete(r) ==
    /\ r \in rows /\ Event
    /\ rows' = rows \ {r} /\ removed' = removed \cup {r.name}
    /\ clearing' = IF r.name = MarkerPrinter THEN clearing + 1 ELSE clearing
    /\ UNCHANGED <<cups, job, reader, cache, known, shown>>

\* Then the markers.
ClearMarkers ==
    /\ clearing > 0 /\ clearing' = clearing - 1
    /\ cache' = NoMarkers /\ known' = {} /\ shown' = NoMarkers
    /\ UNCHANGED <<cups, rows, job, removed, reader, events>>

-----------------------------------------------------------------------------
(* CUPSManager.get_toner_levels.                                             *)

\* A reader that found the row reads CUPS.  With no names, or with no answer,
\* the cache is not asked.
ReadLevels(r, raw) ==
    /\ reader[r].at = "idle" /\ RowsOf(MarkerPrinter) # {} /\ Event
    /\ reader' = [reader EXCEPT ![r] = [at |-> "raw", raw |-> raw]]
    /\ UNCHANGED <<cups, rows, job, removed, cache, known, shown, clearing>>

\* _merge_with_cache, under the lock.
Merge(r) ==
    LET raw == reader[r].raw
    IN  /\ reader[r].at = "raw"
        /\ cache' = Persist(cache, raw)
        /\ shown' = Merged(cache, raw)
        /\ known' = known \cup Known(raw)
        /\ reader' = [reader EXCEPT ![r] = Done]
        /\ UNCHANGED <<cups, rows, job, removed, clearing, events>>

-----------------------------------------------------------------------------
\* CUPS: a printer comes, goes or changes.
CupsChanges(n, c) ==
    /\ c # cups[n] /\ Event
    /\ cups' = [cups EXCEPT ![n] = c]
    /\ UNCHANGED <<rows, job, removed, markers>>

SyncPass == Poll \/ Update \/ UpdateGone \/ Insert \/ Finish
            \/ \E n \in Names : Invalid(n) \/ Find(n)

PrinterNext ==
    \/ SyncPass \/ PollUnanswered \/ PassFails \/ Restart \/ ClearMarkers
    \/ \E n \in Names, s \in Statuses : Create(n, s)
    \/ \E r \in rows : Delete(r)
    \/ \E r \in Readers : (\E raw \in Readings : ReadLevels(r, raw)) \/ Merge(r)
    \/ \E n \in Names, c \in Conditions \cup {Odd, Absent} : CupsChanges(n, c)

\* The job runs again and again, and a pass that has begun goes on.
PrinterSpec == PrinterInit /\ [][PrinterNext]_printerVars /\ WF_printerVars(SyncPass)

-----------------------------------------------------------------------------
\* A row shows what the picture says of its printer; a row that was inserted
\* from this picture shows no reasons yet.
Shows(r, n) ==
    /\ r.name = n /\ picture[n] # Odd /\ r.status = picture[n].status
    /\ n \in fresh \/ r.reasons = picture[n].reasons

\* Between passes the picture in memory is never ahead of the table, so that an
\* unchanged answer of CUPS may be skipped, unless the last pass was cut short
\* or an administrator deleted the row since: the cases in which the table stays
\* wrong until CUPS changes again.
PictureIsStored ==
    syncStep = "idle" /\ ~failed =>
       \A n \in Present(picture) \ removed : \E r \in rows : Shows(r, n)

\* A marker whose level was read once is shown with a level from then on, also
\* when CUPS stops giving it or leaves it out, and readings overlap, until the
\* printer is deleted.
MarkersKept ==
    \A i \in known : shown # NoMarkers => i \in Known(shown)

\* However printers come, go and change, reads fail and the process restarts:
\* once that stops, the table shows what CUPS says, or the last pass was cut short.
Synchronised ==
    <>[](failed \/ (picture = cups /\
                    \A n \in Present(cups) \ removed : \E r \in rows : Shows(r, n)))
=============================================================================
