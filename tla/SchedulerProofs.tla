--------------------------- MODULE SchedulerProofs ---------------------------
(***************************************************************************)
(* Theorems about the jobs of core/scheduler.py and what they share their  *)
(* data with: Alerts, Printers and Files.                                  *)
(*                                                                         *)
(* AlertsAreSpaced is about mails, of which the program knows only its     *)
(* stamps.  AlertInv relates the two: a stamp is never older than the      *)
(* alert it stands for, and is missing only where an episode has ended.    *)
(* A pass keeps that while the clock ticks between its reads, the saving   *)
(* of the state and the mail.                                              *)
(*                                                                         *)
(* PictureIsStored speaks of the moments between two passes.  TableInv     *)
(* says what a pass has written so far: whatever is neither left to do nor *)
(* in hand is in the table.  The row in hand was looked up in a step of    *)
(* its own; that it is still a row of that printer, if there is one,       *)
(* rests on ids being unique.                                              *)
(*                                                                         *)
(* RowHasItsFile speaks of rows, but a row is as good as the upload that   *)
(* made it, and lasts until a removal.  FileInv says of an upload under    *)
(* way what is on its path so far, of a removal whether the row is still   *)
(* there or no row is left, and that processes which have not met are      *)
(* apart.                                                                  *)
(***************************************************************************)
EXTENDS Alerts, Printers, Files, FiniteSetTheorems, WellFoundedInduction, TLAPS

-----------------------------------------------------------------------------
(* Alerts.                                                                   *)

AlertType ==
    /\ kind \in {"toner", "stock"} /\ interval \in Intervals
    /\ saved \in [Subjects -> Ages] /\ mailed \in [Subjects -> Ages] /\ started \in Ages
    /\ step \in {"idle", "check", "save", "send"}
    /\ todo \subseteq Subjects /\ seen \subseteq Subjects

\* An alert of an episode that goes on has a stamp, which is no older.
StampsStand ==
    \A s \in Subjects \ dropped : mailed[s] # Never => saved[s] # Never /\ saved[s] <= mailed[s]

\* A pass began after every alert that has been sent, and its own stamps, once they are
\* saved, bear the time of its beginning.
PassIsLast ==
    step # "idle" => /\ started # Never
                     /\ \A s \in Subjects : mailed[s] # Never => started <= mailed[s]
StampsOfPass == step = "send" => \A s \in seen \cap due : saved[s] = started

\* What a pass takes for due is due.
DueIsSpaced == step # "idle" => due \subseteq spaced

\* What the last pass did not find has no stamp, so that a pass takes it for due.
NoStampUnseen == \A s \in Subjects \ prev : saved[s] = Never
NewIsDue      == step \in {"check", "save"} => Subjects \ prev \subseteq due

AlertInv ==
    /\ AlertType /\ StampsStand /\ PassIsLast /\ StampsOfPass
    /\ DueIsSpaced /\ NoStampUnseen /\ NewIsDue

\* The interval is a number of hours that the ages can tell from others.
LEMMA SpacingType == ASSUME AlertType PROVE Spacing \in Nat
BY AlertAssumption DEF AlertType, Spacing

LEMMA AlertInvInit == AlertInit => AlertInv
BY AlertAssumption
   DEF AlertInit, AlertInv, AlertType, StampsStand, PassIsLast, StampsOfPass, DueIsSpaced,
       NoStampUnseen, NewIsDue, Ages, Never

\* A pass begins: a stamp that is missing or old means an episode that has ended, or
\* an alert at least as old.
LEMMA StartKeeps == ASSUME AlertInv, Start PROVE AlertInv'
<1> USE DEF AlertInv, Start
<1>1. AlertType'
  BY AlertAssumption DEF AlertType, Ages, Low, ages, config
<1>2. Due(saved) \subseteq Due(mailed) \cup dropped
  BY SpacingType DEF AlertType, StampsStand, Due, Ages, Never
<1>3. StampsStand' /\ NoStampUnseen'
  BY DEF StampsStand, NoStampUnseen
<1>4. PassIsLast'
  BY DEF AlertType, PassIsLast, Ages, Never
<1>5. StampsOfPass' /\ DueIsSpaced'
  BY <1>2 DEF StampsOfPass, DueIsSpaced
<1>6. NewIsDue'
  BY DEF NewIsDue, NoStampUnseen, Due
<1> QED
  BY <1>1, <1>3, <1>4, <1>5, <1>6

\* Printers are read: nothing but the pass changes.
LEMMA CheckKeeps == ASSUME AlertInv, NEW s \in Subjects, Check(s) PROVE AlertInv'
<1> USE DEF AlertInv, Check, ages, config
<1>1. AlertType'
  BY DEF AlertType
<1>2. StampsStand' /\ PassIsLast' /\ StampsOfPass'
  BY DEF StampsStand, PassIsLast, StampsOfPass
<1>3. DueIsSpaced' /\ NoStampUnseen' /\ NewIsDue'
  BY DEF DueIsSpaced, NoStampUnseen, NewIsDue
<1> QED
  BY <1>1, <1>2, <1>3

\* The state is saved: a stamp goes only with its episode.
LEMMA SaveKeeps == ASSUME AlertInv, Save PROVE AlertInv'
<1> USE DEF AlertInv, Save, Announce, config
<1>1. AlertType'
  BY DEF AlertType, End, Ages, Never
<1>2. StampsStand'
  BY DEF AlertType, StampsStand, PassIsLast
<1>3. PassIsLast' /\ StampsOfPass' /\ DueIsSpaced'
  BY DEF PassIsLast, StampsOfPass, DueIsSpaced, AlertType, End
<1>4. NoStampUnseen' /\ NewIsDue'
  BY DEF NoStampUnseen, NewIsDue, AlertType, End
<1> QED
  BY <1>1, <1>2, <1>3, <1>4

\* The alerts are sent: they are as old as the pass, and so are their stamps.
LEMMA SendKeeps == ASSUME AlertInv, Send PROVE AlertInv'
<1> USE DEF AlertInv, Send, End, config
<1>1. AlertType'
  BY DEF AlertType, Ages, Never
<1>2. StampsStand'
  <2> SUFFICES ASSUME NEW s \in Subjects, s \notin dropped', mailed'[s] # Never
               PROVE  saved[s] # Never /\ saved[s] <= mailed'[s]
    BY DEF StampsStand
  <2>1. CASE s \in seen \cap due
    BY <2>1 DEF AlertType, StampsOfPass, PassIsLast, Ages, Never
  <2>2. CASE s \notin seen \cap due
    BY <2>2 DEF AlertType, StampsStand
  <2> QED
    BY <2>1, <2>2
<1>3. PassIsLast' /\ StampsOfPass' /\ DueIsSpaced' /\ NoStampUnseen' /\ NewIsDue'
  BY DEF PassIsLast, StampsOfPass, DueIsSpaced, NoStampUnseen, NewIsDue
<1> QED
  BY <1>1, <1>2, <1>3

\* An age that is no greater is none an hour later.
LEMMA OlderKeeps ==
    ASSUME NEW a \in Ages, NEW b \in Ages
    PROVE  /\ Older(a) \in Ages /\ (Older(a) = Never <=> a = Never)
           /\ a # Never /\ a <= b => Older(a) <= Older(b)
BY AlertAssumption DEF Older, Ages, Never

\* An hour passes for all ages alike.
LEMMA TickKeeps == ASSUME AlertInv, Tick PROVE AlertInv'
<1> USE DEF AlertInv, Tick, pass, config
<1>1. AlertType'
  BY OlderKeeps DEF AlertType
<1>2. StampsStand'
  BY OlderKeeps DEF AlertType, StampsStand
<1>3. PassIsLast'
  BY OlderKeeps DEF AlertType, PassIsLast
<1>4. StampsOfPass' /\ DueIsSpaced' /\ NoStampUnseen' /\ NewIsDue'
  BY OlderKeeps DEF AlertType, StampsOfPass, DueIsSpaced, NoStampUnseen, NewIsDue
<1> QED
  BY <1>1, <1>2, <1>3, <1>4

\* A pass that is cut short leaves stamps and alerts as they are.
LEMMA CutKeeps == ASSUME AlertInv, PassCutShort PROVE AlertInv'
<1> USE DEF AlertInv, PassCutShort, End, config
<1>1. AlertType'
  BY DEF AlertType, Ages
<1>2. StampsStand' /\ PassIsLast' /\ StampsOfPass' /\ DueIsSpaced' /\ NoStampUnseen' /\ NewIsDue'
  BY DEF StampsStand, PassIsLast, StampsOfPass, DueIsSpaced, NoStampUnseen, NewIsDue
<1> QED
  BY <1>1, <1>2

\* Changes around the job: neither stamps nor the pass change.
LEMMA SettingsKeep ==
    ASSUME AlertInv, UNCHANGED <<kind, pass, ages, prev, dropped>>, interval' \in Intervals
    PROVE  AlertInv'
BY DEF AlertInv, AlertType, StampsStand, PassIsLast, StampsOfPass, DueIsSpaced,
       NoStampUnseen, NewIsDue, pass, ages

LEMMA AlertInvStep == AlertInv /\ [AlertNext]_alertVars => AlertInv'
<1> SUFFICES ASSUME AlertInv, [AlertNext]_alertVars PROVE AlertInv'
  OBVIOUS
<1>0. interval \in Intervals
  BY DEF AlertInv, AlertType
<1>1. CASE Start
  BY <1>1, StartKeeps
<1>2. ASSUME NEW s \in Subjects, Check(s) PROVE AlertInv'
  BY <1>2, CheckKeeps
<1>3. CASE Save
  BY <1>3, SaveKeeps
<1>4. CASE Send
  BY <1>4, SendKeeps
<1>5. CASE PassCutShort
  BY <1>5, CutKeeps
<1>6. CASE Tick
  BY <1>6, TickKeeps
<1>7. ASSUME NEW enabled \in BOOLEAN, NEW hours \in Intervals, Configure(enabled, hours)
      PROVE  AlertInv'
  BY <1>7, SettingsKeep DEF Configure
<1>8. CASE RecipientsChange
  BY <1>0, <1>8, SettingsKeep DEF RecipientsChange
<1>9. ASSUME NEW s \in Subjects, LevelChanges(s) PROVE AlertInv'
  BY <1>0, <1>9, SettingsKeep DEF LevelChanges, config
<1>10. CASE UNCHANGED alertVars
  BY <1>0, <1>10, SettingsKeep DEF alertVars, config
<1> QED
  BY <1>1, <1>2, <1>3, <1>4, <1>5, <1>6, <1>7, <1>8, <1>9, <1>10 DEF AlertNext, Pass

LEMMA AlertInvariant == AlertSpec => []AlertInv
BY AlertInvInit, AlertInvStep, PTL DEF AlertSpec

\* Two alerts about a subject are at least the interval apart unless its episode ended
\* between them, for any printers, items, intervals and number of lost mails.
THEOREM AlwaysSpaced == AlertSpec => []AlertsAreSpaced
<1>1. AlertInv => AlertsAreSpaced
  BY DEF AlertInv, DueIsSpaced, AlertsAreSpaced
<1> QED
  BY <1>1, AlertInvariant, PTL

\* A new episode is told of by the pass that notices it.
THEOREM AlwaysAnnounced == AlertSpec => EpisodeAnnounced
<1>1. AlertInv /\ [AlertNext]_alertVars
        => [\A s \in prev' \ prev : step' = "send" /\ s \in seen' \cap due']_alertVars
  <2> SUFFICES ASSUME AlertInv, AlertNext, NEW s \in prev', s \notin prev
               PROVE  step' = "send" /\ s \in seen' \cap due'
    OBVIOUS
  <2>1. CASE Save
    BY <2>1 DEF AlertInv, AlertType, NewIsDue, Save, Announce
  <2>2. CASE ~Save
    <3>1. prev' = prev
      BY <2>2 DEF AlertNext, Pass, Start, Check, Send, PassCutShort, Tick, Configure, RecipientsChange,
                  LevelChanges
    <3> QED
      BY <3>1
  <2> QED
    BY <2>1, <2>2
<1> QED
  BY <1>1, AlertInvariant, PTL DEF AlertSpec, EpisodeAnnounced

-----------------------------------------------------------------------------
(* Printers.                                                                 *)

Stored(n) == \E r \in rows : Shows(r, n)

Reasons  == {c.reasons : c \in Conditions} \cup {NoReasons}
RowType  == rows \subseteq [id : Ids, name : Names, status : Statuses, reasons : Reasons]
Pictures == [Names -> Conditions \cup {Odd, Absent}]
PassType ==
    /\ cups \in Pictures /\ picture \in Pictures /\ syncTodo \subseteq Present(picture)
    /\ syncStep \in {"idle", "next", "write"}
    /\ syncStep = "write" => cur.name \in Names /\ picture[cur.name] \in Conditions

IdsUnique == \A r, q \in rows : r.id = q.id => r.name = q.name

\* The row in hand is one of the printer in hand, unless it was deleted.
InHand ==
    syncStep = "write" /\ cur.row # 0 => \A r \in rows : r.id = cur.row => r.name = cur.name

\* How far the pass has come.
StoredSoFar ==
    /\ syncStep = "idle" /\ ~failed => \A n \in Present(picture) \ removed : Stored(n)
    /\ syncStep = "next" => \A n \in Present(picture) \ (removed \cup syncTodo) : Stored(n)
    /\ syncStep = "write" => \A n \in Present(picture) \ (removed \cup syncTodo \cup {cur.name}) : Stored(n)

TableInv == RowType /\ PassType /\ IdsUnique /\ InHand /\ StoredSoFar

LEMMA TableInit == PrinterInit => TableInv
BY DEF PrinterInit, TableInv, RowType, PassType, IdsUnique, InHand, StoredSoFar, Pictures, NoPicture, Present

\* A new id is that of no row, nor of the row in hand.
LEMMA NewIdIsUnused ==
    ASSUME Unused # {} PROVE NewId \in Ids \ {cur.row} /\ \A r \in rows : r.id # NewId
<1>1. NewId \in Unused
  BY DEF NewId
<1> QED
  BY <1>1 DEF Unused

\* A new picture: everything is left to do.
LEMMA SeeKeeps == ASSUME TableInv, NEW got \in Pictures, See(got) PROVE TableInv'
BY DEF TableInv, RowType, PassType, IdsUnique, InHand, StoredSoFar, See, Present

\* A pass that is cut short says so.
LEMMA AbortKeeps == ASSUME TableInv, Abort PROVE TableInv'
BY DEF TableInv, RowType, PassType, IdsUnique, InHand, StoredSoFar, Abort

LEMMA FindKeeps == ASSUME TableInv, NEW n \in Names, Find(n) PROVE TableInv'
<1> USE DEF TableInv, Find
<1>1. syncStep' = "write" /\ cur'.name = n /\ picture[n] \in Conditions
  BY DEF PassType, Pictures, Present
<1>2. RowType' /\ IdsUnique'
  BY DEF RowType, IdsUnique
<1>3. PassType'
  BY <1>1 DEF PassType, Present
<1>4. InHand'
  BY DEF InHand, RowsOf, IdsUnique
<1>5. \A k : Stored(k) => Stored(k)'
  BY DEF Stored, Shows
<1>6. StoredSoFar'
  BY <1>1, <1>5 DEF StoredSoFar, Present
<1> QED
  BY <1>2, <1>3, <1>4, <1>6

\* The row in hand gets what the picture says; others stay.
LEMMA UpdateKeeps == ASSUME TableInv, Update PROVE TableInv'
<1> USE DEF TableInv, Update
<1> DEFINE now == picture[cur.name]
<1>0. now \in Conditions /\ cur.name \in Names /\ now.status \in Statuses /\ now.reasons \in Reasons
  BY DEF PassType, Statuses, Reasons
<1>1. ASSUME NEW r \in rows
      PROVE  /\ Updated(r) \in [id : Ids, name : Names, status : Statuses, reasons : Reasons]
             /\ Updated(r).id = r.id /\ Updated(r).name = r.name
             /\ Updated(r).status = now.status /\ Updated(r).reasons = now.reasons
  BY <1>0, <1>1 DEF RowType, Updated
<1>2. RowType' /\ IdsUnique'
  BY <1>1 DEF RowType, IdsUnique
<1>3. PassType' /\ InHand'
  BY DEF PassType, InHand, Present
<1>4. ASSUME NEW n, n = cur.name PROVE Stored(n)'
  <2>1. PICK r \in rows : r.id = cur.row
    OBVIOUS
  <2>2. PICK q : q = Updated(r)
    OBVIOUS
  <2>3. q \in rows'
    BY <2>1, <2>2
  <2>4. Shows(q, n)'
    BY <1>0, <1>1, <1>4, <2>1, <2>2, PrinterAssumption DEF Shows, InHand
  <2> QED
    BY <2>3, <2>4 DEF Stored
<1>5. ASSUME NEW n, n # cur.name, Stored(n) PROVE Stored(n)'
  <2>1. PICK r \in rows : Shows(r, n)
    BY <1>5 DEF Stored
  <2>2. r \in rows'
    BY <1>5, <2>1 DEF InHand, Shows
  <2>3. Shows(r, n)'
    BY <2>1 DEF Shows
  <2> QED
    BY <2>2, <2>3 DEF Stored
<1>6. StoredSoFar'
  BY <1>4, <1>5 DEF StoredSoFar, Present
<1> QED
  BY <1>2, <1>3, <1>6

\* A row for the printer in hand, which shows no reasons yet.
LEMMA InsertKeeps == ASSUME TableInv, Insert PROVE TableInv'
<1> USE DEF TableInv, Insert
<1> DEFINE new == [id |-> NewId, name |-> cur.name,
                   status |-> picture[cur.name].status, reasons |-> NoReasons]
<1>0. cur.name \in Names /\ picture[cur.name] \in Conditions
  BY DEF PassType
<1>1. RowType' /\ IdsUnique'
  BY <1>0, NewIdIsUnused DEF RowType, IdsUnique, Statuses, Reasons
<1>2. PassType' /\ InHand'
  BY DEF PassType, InHand, Present
<1>3. ASSUME NEW n, n = cur.name PROVE Stored(n)'
  <2>1. PICK q : q = new
    OBVIOUS
  <2>2. q \in rows' /\ Shows(q, n)'
    BY <1>0, <1>3, <2>1, PrinterAssumption DEF Shows
  <2> QED
    BY <2>2 DEF Stored
<1>4. ASSUME NEW n, Stored(n) PROVE Stored(n)'
  BY <1>4 DEF Stored, Shows
<1>5. StoredSoFar'
  BY <1>3, <1>4 DEF StoredSoFar, Present
<1> QED
  BY <1>1, <1>2, <1>5

LEMMA FinishKeeps == ASSUME TableInv, Finish PROVE TableInv'
<1> USE DEF TableInv, Finish
<1>1. RowType' /\ PassType' /\ IdsUnique' /\ InHand'
  BY DEF RowType, PassType, IdsUnique, InHand, Present
<1>2. ASSUME NEW n, Stored(n) PROVE Stored(n)'
  BY <1>2 DEF Stored, Shows
<1>3. StoredSoFar'
  BY <1>2 DEF StoredSoFar, Present
<1> QED
  BY <1>1, <1>3

LEMMA RestartKeeps == ASSUME TableInv, Restart PROVE TableInv'
BY DEF TableInv, RowType, PassType, IdsUnique, InHand, StoredSoFar, Restart, Pictures, NoPicture, Present

\* A row an administrator creates is not the one in hand.
LEMMA CreateKeeps ==
    ASSUME TableInv, NEW n \in Names, NEW s \in Statuses, Create(n, s) PROVE TableInv'
<1> USE DEF TableInv, Create, job
<1>1. RowType' /\ IdsUnique'
  BY NewIdIsUnused DEF RowType, IdsUnique, Reasons
<1>2. PassType' /\ InHand'
  BY NewIdIsUnused DEF PassType, InHand, Present
<1>3. ASSUME NEW k, Stored(k) PROVE Stored(k)'
  BY <1>3 DEF Stored, Shows
<1>4. StoredSoFar'
  BY <1>3 DEF StoredSoFar, Present
<1> QED
  BY <1>1, <1>2, <1>4

\* A deletion takes the rows of no other printer.
LEMMA DeleteKeeps == ASSUME TableInv, NEW r \in rows, Delete(r) PROVE TableInv'
<1> USE DEF TableInv, Delete, job
<1>1. RowType' /\ PassType' /\ IdsUnique' /\ InHand'
  BY DEF RowType, PassType, IdsUnique, InHand, Present
<1>2. ASSUME NEW n, n # r.name, Stored(n) PROVE Stored(n)'
  BY <1>2 DEF Stored, Shows
<1>3. StoredSoFar'
  BY <1>2 DEF StoredSoFar, Present
<1> QED
  BY <1>1, <1>3

\* Readers, the cache and CUPS itself touch neither the table nor the picture.
LEMMA AroundKeeps ==
    ASSUME TableInv, UNCHANGED <<rows, job, removed>>, cups' \in Pictures PROVE TableInv'
<1> USE DEF TableInv, job
<1>1. RowType' /\ PassType' /\ IdsUnique' /\ InHand'
  BY DEF RowType, PassType, IdsUnique, InHand, Present
<1>2. ASSUME NEW n, Stored(n) PROVE Stored(n)'
  BY <1>2 DEF Stored, Shows
<1>3. StoredSoFar'
  BY <1>2 DEF StoredSoFar, Present
<1> QED
  BY <1>1, <1>3

LEMMA TableStep == TableInv /\ [PrinterNext]_printerVars => TableInv'
<1> SUFFICES ASSUME TableInv, [PrinterNext]_printerVars PROVE TableInv'
  OBVIOUS
<1>0. cups \in Pictures /\ NoPicture \in Pictures
  BY DEF TableInv, PassType, Pictures, NoPicture
<1>1. CASE Poll \/ PollUnanswered
  BY <1>0, <1>1, SeeKeeps DEF Poll, PollUnanswered
<1>2. CASE UpdateGone \/ PassFails
  BY <1>2, AbortKeeps DEF UpdateGone, PassFails
<1>3. ASSUME NEW n \in Names, Invalid(n) \/ Find(n) PROVE TableInv'
  BY <1>3, AbortKeeps, FindKeeps DEF Invalid
<1>4. CASE Update \/ Insert \/ Finish \/ Restart
  BY <1>4, UpdateKeeps, InsertKeeps, FinishKeeps, RestartKeeps
<1>5. ASSUME NEW n \in Names, NEW s \in Statuses, Create(n, s) PROVE TableInv'
  BY <1>5, CreateKeeps
<1>6. ASSUME NEW r \in rows, Delete(r) PROVE TableInv'
  BY <1>6, DeleteKeeps
<1>7. ASSUME NEW r \in Readers, (\E raw \in Readings : ReadLevels(r, raw)) \/ Merge(r)
      PROVE  TableInv'
  BY <1>0, <1>7, AroundKeeps DEF ReadLevels, Merge
<1>8. CASE ClearMarkers
  BY <1>0, <1>8, AroundKeeps DEF ClearMarkers
<1>9. ASSUME NEW n \in Names, NEW c \in Conditions \cup {Odd, Absent}, CupsChanges(n, c)
      PROVE  TableInv'
  <2>1. cups' \in Pictures
    BY <1>0, <1>9 DEF CupsChanges, Pictures
  <2> QED
    BY <2>1, <1>9, AroundKeeps DEF CupsChanges
<1>10. CASE UNCHANGED printerVars
  BY <1>0, <1>10, AroundKeeps DEF printerVars
<1> QED
  BY <1>1, <1>2, <1>3, <1>4, <1>5, <1>6, <1>7, <1>8, <1>9, <1>10 DEF PrinterNext, SyncPass

\* Between passes that were not cut short, the table shows the picture in memory, for
\* any printers, administrators, failed answers and restarts.
THEOREM PictureStored == PrinterSpec => []PictureIsStored
<1>1. TableInv => PictureIsStored
  BY DEF TableInv, StoredSoFar, Stored, PictureIsStored
<1> QED
  BY <1>1, TableInit, TableStep, PTL DEF PrinterSpec

-----------------------------------------------------------------------------
\* What was read of a marker is in the cache as well as in the last reading.
MarkerInv == known \subseteq Known(cache) /\ MarkersKept

\* A reading takes no level away from the cache, nor from what is shown.
LEMMA MergeKeepsLevels ==
    ASSUME NEW c, NEW raw
    PROVE  /\ Known(c) \cup Known(raw) \subseteq Known(Persist(c, raw))
           /\ Known(c) \cup Known(raw) \subseteq Known(Merged(c, raw))
<1>1. Known(c) \cup Known(raw) \subseteq Known(Persist(c, raw))
  BY DEF Known, Persist
<1>2. DOMAIN Merged(c, raw) = DOMAIN Persist(c, raw)
  BY DEF Merged
<1>3. \A i \in DOMAIN Persist(c, raw) :
         Merged(c, raw)[i] = IF i \in Known(raw) THEN raw[i] ELSE Persist(c, raw)[i]
  BY DEF Merged
<1> QED
  BY <1>1, <1>2, <1>3 DEF Known

LEMMA MarkerInit == PrinterInit => MarkerInv
BY DEF PrinterInit, MarkerInv, MarkersKept

LEMMA MarkerStep == MarkerInv /\ [PrinterNext]_printerVars => MarkerInv'
<1> SUFFICES ASSUME MarkerInv, [PrinterNext]_printerVars PROVE MarkerInv'
  OBVIOUS
<1>1. ASSUME NEW r \in Readers, Merge(r) PROVE MarkerInv'
  BY <1>1, MergeKeepsLevels DEF MarkerInv, MarkersKept, Merge
<1>2. CASE ClearMarkers
  BY <1>2 DEF MarkerInv, MarkersKept, ClearMarkers
<1>3. ASSUME UNCHANGED <<cache, known, shown>> PROVE MarkerInv'
  BY <1>3 DEF MarkerInv, MarkersKept
<1>4. CASE ~ClearMarkers /\ \A r \in Readers : ~Merge(r)
  BY <1>3, <1>4 DEF PrinterNext, SyncPass, Poll, PollUnanswered, See, Update, UpdateGone, Insert, Finish,
     Invalid, Find, Abort, PassFails, Restart, Create, Delete, ReadLevels, CupsChanges, printerVars, markers
<1> QED
  BY <1>1, <1>2, <1>4

\* A level that was read once is shown from then on, for any markers, readings and
\* readers that overlap.
THEOREM LevelsKept == PrinterSpec => []MarkersKept
BY MarkerInit, MarkerStep, PTL DEF PrinterSpec, MarkerInv

-----------------------------------------------------------------------------
(* Files.                                                                    *)

Uploading == {"open", "write", "insert"}

FileType ==
    /\ user \in BOOLEAN /\ files \subseteq Uploads /\ old \subseteq files
    /\ path \in [Uploads -> Paths \cup {NoPath}]
    /\ target \in [Deletions -> Uploads \cup {NoRow}]
    /\ list \subseteq Uploads /\ first \in Uploads \cup {NoRow}
    /\ DOMAIN pc = Processes
    /\ \A u \in Uploads : pc[u] \in {"idle"} \cup Uploading \cup Ended
    /\ \A d \in Deletions : pc[d] \in {"idle", "row", "unlink"} \cup Ended
    /\ pc[Cleaner] \in {"idle", "next", "row", "unlink"}
    /\ pc[UserDelete] \in {"idle", "rmtree", "done"}

\* An upload that is over, whose path will not change.
Uploaded(f) == f \in Uploads /\ pc[f] = "done"

\* How far the processes have come.
FileProgress ==
    /\ \A u \in Uploads : pc[u] # "idle" => path[u] \in Paths
    /\ \A p \in DOMAIN disk : \E u \in Uploads : pc[u] # "idle" /\ path[u] = p
    /\ \A f \in files \cup list : Uploaded(f)
    /\ \A d \in Deletions : pc[d] \in {"row", "unlink"} => Uploaded(target[d])
    /\ pc[Cleaner] = "idle" => list = {}
    /\ IF pc[Cleaner] \in {"row", "unlink"} THEN Uploaded(first) /\ first \notin list
                                            ELSE first = NoRow
    /\ IF user THEN pc[UserDelete] = "idle" ELSE pc[UserDelete] # "idle" /\ files = {}

\* Two processes at work on a path have met there.
FilesApart == \A x, y \in Processes : x # y => Holds(x) \cap Holds(y) \subseteq met

Has(p, u, whole) == Exists(p) /\ disk[p] = [by |-> {u}, whole |-> whole]

\* A path that an upload has to itself is as the upload left it.
Own(u) ==
    path[u] \notin met =>
       /\ pc[u] = "open" => ~Exists(path[u])
       /\ pc[u] = "write" => Has(path[u], u, FALSE)
       /\ pc[u] = "insert" \/ u \in files => Has(path[u], u, TRUE)

\* Before the row is deleted, and after.
HasRow(f)  == path[f] \in met \/ f \in files
Rowless(f) == path[f] \in met \/ \A g \in files : path[g] # path[f]

Removing ==
    /\ \A d \in Deletions : /\ pc[d] = "row" => HasRow(target[d])
                            /\ pc[d] = "unlink" => Rowless(target[d])
    /\ \A f \in list : HasRow(f)
    /\ pc[Cleaner] = "row" => HasRow(first)
    /\ pc[Cleaner] = "unlink" => Rowless(first)

FileInv ==
    /\ FileType /\ FileProgress /\ FilesApart
    /\ \A u \in Uploads : Own(u)
    /\ Removing /\ OrphansWereCutShort

\* Who works on what, process by process.
HoldsByKind ==
    /\ \A u \in Uploads : Holds(u) = IF pc[u] \in Uploading THEN {path[u]} ELSE {}
    /\ \A d \in Deletions : Holds(d) = IF pc[d] \in {"row", "unlink"} THEN {path[target[d]]} ELSE {}
    /\ Holds(Cleaner) = IF pc[Cleaner] = "idle" THEN {}
                        ELSE {path[f] : f \in list \cup ({first} \ {NoRow})}
    /\ Holds(UserDelete) = IF pc[UserDelete] = "rmtree" THEN Paths ELSE {}

LEMMA HoldsOf == FileType => HoldsByKind
<1> SUFFICES ASSUME FileType PROVE HoldsByKind
  OBVIOUS
<1>1. ASSUME NEW u \in Uploads PROVE Holds(u) = IF pc[u] \in Uploading THEN {path[u]} ELSE {}
  <2>1. u \notin Deletions /\ u # Cleaner /\ u # UserDelete
    BY FileAssumption
  <2> QED
    BY <2>1 DEF FileType, Holds, Uploading, Ended
<1>2. ASSUME NEW d \in Deletions
      PROVE  Holds(d) = IF pc[d] \in {"row", "unlink"} THEN {path[target[d]]} ELSE {}
  <2>1. d \notin Uploads /\ d # Cleaner /\ d # UserDelete
    BY FileAssumption
  <2> QED
    BY <2>1 DEF FileType, Holds, Ended
<1>3. Holds(Cleaner) = IF pc[Cleaner] = "idle" THEN {}
                       ELSE {path[f] : f \in list \cup ({first} \ {NoRow})}
  <2>1. Cleaner \notin Uploads \cup Deletions /\ Cleaner # UserDelete
    BY FileAssumption
  <2> QED
    BY <2>1 DEF FileType, Holds, Ended
<1>4. Holds(UserDelete) = IF pc[UserDelete] = "rmtree" THEN Paths ELSE {}
  <2>1. UserDelete \notin Uploads \cup Deletions /\ Cleaner # UserDelete
    BY FileAssumption
  <2> QED
    BY <2>1 DEF FileType, Holds, Ended
<1> QED
  BY <1>1, <1>2, <1>3, <1>4 DEF HoldsByKind

\* A step of process x: the others stay where they are.
StepOf(x) ==
    /\ \A y \in Processes \ {x} : pc'[y] = pc[y]
    /\ \A d \in Deletions \ {x} : target'[d] = target[d]
    /\ x # Cleaner => UNCHANGED <<list, first>>
    /\ \A u \in Uploads : pc[u] # "idle" => path'[u] = path[u]
    /\ met \subseteq met' /\ cut \subseteq cut'

LEMMA OthersHold ==
    ASSUME FileType, FileType', FileProgress, NEW x \in Processes, StepOf(x)
    PROVE  \A y \in Processes \ {x} : Holds(y)' = Holds(y)
<1> SUFFICES ASSUME NEW y \in Processes, y # x PROVE Holds(y)' = Holds(y)
  OBVIOUS
<1>0. pc'[y] = pc[y] /\ HoldsByKind /\ HoldsByKind'
  <2>1. FileType => HoldsByKind
    BY HoldsOf
  <2>2. FileType' => HoldsByKind'
    BY HoldsOf, PTL
  <2> QED
    BY <2>1, <2>2 DEF StepOf
<1>1. CASE y \in Uploads
  BY <1>0, <1>1 DEF HoldsByKind, StepOf, Uploading
<1>2. CASE y \in Deletions
  <2>1. target'[y] = target[y] /\ (pc[y] \in {"row", "unlink"} => path'[target[y]] = path[target[y]])
    BY <1>2 DEF StepOf, FileProgress, Uploaded
  <2> QED
    BY <1>0, <1>2, <2>1 DEF HoldsByKind
<1>3. CASE y = Cleaner
  <2>1. UNCHANGED <<list, first>> /\ \A f \in list \cup ({first} \ {NoRow}) : path'[f] = path[f]
    BY <1>3 DEF StepOf, FileProgress, Uploaded
  <2>2. {path'[f] : f \in list \cup ({first} \ {NoRow})} = {path[f] : f \in list \cup ({first} \ {NoRow})}
    BY <2>1
  <2>3. pc'[Cleaner] = pc[Cleaner]
    BY <1>0, <1>3
  <2>4. Holds(Cleaner)' = Holds(Cleaner)
    BY <1>0, <2>1, <2>2, <2>3 DEF HoldsByKind
  <2> QED
    BY <1>3, <2>4
<1>4. CASE y = UserDelete
  BY <1>0, <1>4 DEF HoldsByKind
<1> QED
  BY <1>1, <1>2, <1>3, <1>4 DEF Processes

\* A process takes up paths: where it meets others is recorded.
LEMMA MeetKeeps ==
    ASSUME FilesApart, NEW x \in Processes, NEW ps, Meet(x, ps), Holds(x)' = ps,
           \A y \in Processes \ {x} : Holds(y)' = Holds(y)
    PROVE  FilesApart'
<1> SUFFICES ASSUME NEW y \in Processes, NEW z \in Processes, y # z
             PROVE  Holds(y)' \cap Holds(z)' \subseteq met'
  BY DEF FilesApart, Processes
<1>1. met' = met \cup (ps \cap HeldBut(x))
  BY DEF Meet
<1>2. \A w \in Processes \ {x} : Holds(w) \subseteq HeldBut(x)
  BY DEF HeldBut
<1>3. CASE y # x /\ z # x
  BY <1>1, <1>3 DEF FilesApart
<1>4. CASE y = x \/ z = x
  BY <1>1, <1>2, <1>4
<1> QED
  BY <1>3, <1>4

\* A process lets go of paths, or goes on with the ones it has.
LEMMA LessKeeps ==
    ASSUME FilesApart, NEW x \in Processes, met \subseteq met', Holds(x)' \subseteq Holds(x),
           \A y \in Processes \ {x} : Holds(y)' = Holds(y)
    PROVE  FilesApart'
<1>1. \A y \in Processes : Holds(y)' \subseteq Holds(y)
  OBVIOUS
<1> QED
  BY <1>1 DEF FilesApart, Processes

\* Nothing is orphaned if what the process no longer holds is no longer there, or has a row.
LEMMA OrphansKeep ==
    ASSUME FileType, FileProgress, OrphansWereCutShort, NEW x \in Processes, StepOf(x),
           \A y \in Processes \ {x} : Holds(y)' = Holds(y),
           \A p \in DOMAIN disk' \ (met' \cup cut') :
              \/ /\ p \in DOMAIN disk /\ p \notin Holds(x)
                 /\ \A f \in files : path[f] = p => f \in files'
              \/ \E f \in files' : path'[f] = p
              \/ p \in Holds(x)'
    PROVE  OrphansWereCutShort'
<1> SUFFICES ASSUME NEW p \in DOMAIN disk' \ (met' \cup cut')
             PROVE  (\E f \in files' : path'[f] = p) \/ (\E y \in Processes : p \in Holds(y)')
  BY DEF OrphansWereCutShort, Processes
<1>1. CASE \/ \E f \in files' : path'[f] = p
           \/ p \in Holds(x)'
  BY <1>1
<1>2. CASE /\ p \in DOMAIN disk /\ p \notin Holds(x)
           /\ \A f \in files : path[f] = p => f \in files'
  <2>1. p \notin met /\ p \notin cut
    BY DEF StepOf
  <2>2. (\E f \in files : path[f] = p) \/ (\E y \in Processes : p \in Holds(y))
    BY <1>2, <2>1 DEF OrphansWereCutShort
  <2>3. CASE \E f \in files : path[f] = p
    <3>1. PICK f \in files : path[f] = p
      BY <2>3
    <3>2. path'[f] = path[f]
      BY DEF StepOf, FileType, FileProgress, Uploaded
    <3> QED
      BY <1>2, <3>1, <3>2
  <2>4. CASE \E y \in Processes : p \in Holds(y)
    BY <1>2, <2>4
  <2> QED
    BY <2>2, <2>3, <2>4
<1> QED
  BY <1>1, <1>2

\* A set of numbers has a least one.
LEMMA LeastOf ==
    ASSUME NEW S \in SUBSET Nat, S # {}
    PROVE  Min(S) \in S
<1>1. \E m \in S : \A n \in S : ~(<<n, m>> \in OpToRel(<, Nat))
  BY NatLessThanWellFounded, WFMin
<1>2. PICK m \in S : \A n \in S : ~(n < m)
  BY <1>1 DEF OpToRel
<1>3. \A n \in S : m <= n
  BY <1>2
<1> QED
  BY <1>2, <1>3 DEF Min

\* There are more paths than uploads, so that one is free: the paths that exist are
\* those of uploads.
LEMMA FreePath ==
    ASSUME FileType, FileProgress
    PROVE  Min({q \in Paths : ~Exists(q)}) \in {q \in Paths : ~Exists(q)}
<1> DEFINE Used == {path[u] : u \in Uploads}
<1>1. Cardinality(Uploads) \in Nat
  BY FileAssumption, FS_CardinalityType
<1>2. IsFiniteSet(Used) /\ Cardinality(Used) <= Cardinality(Uploads)
  <2> DEFINE f == [u \in Uploads |-> path[u]]
  <2>1. f \in Surjection(Uploads, Used)
    BY DEF Surjection
  <2> HIDE DEF f, Used
  <2> QED
    BY <2>1, FileAssumption, FS_Surjection
<1>3. Cardinality(Paths) = Cardinality(Uploads) + 1
  BY <1>1, FS_Interval DEF Paths
<1>4. ~(Paths \subseteq Used)
  <2> HIDE DEF Used
  <2> SUFFICES ASSUME Paths \subseteq Used PROVE FALSE
    OBVIOUS
  <2>1. Cardinality(Paths) <= Cardinality(Used)
    BY <1>2, FS_Subset
  <2>2. Cardinality(Used) \in Nat
    BY <1>2, FS_CardinalityType
  <2> QED
    BY <1>1, <1>2, <1>3, <2>1, <2>2
<1>5. \A q \in Paths : Exists(q) => q \in Used
  BY DEF FileProgress, Exists
<1>6. {q \in Paths : ~Exists(q)} # {} /\ {q \in Paths : ~Exists(q)} \in SUBSET Nat
  BY <1>1, <1>4, <1>5 DEF Paths
<1> QED
  BY <1>6, LeastOf

-----------------------------------------------------------------------------
(* What may happen to the paths of other uploads.                            *)

\* Only the content of path p changes.
OnlyAt(p) ==
    /\ DOMAIN disk' \subseteq DOMAIN disk \cup {p}
    /\ \A q \in DOMAIN disk : q # p => q \in DOMAIN disk' /\ disk'[q] = disk[q]

\* An upload under way is alone on its path, or has met others there: also a file that
\* has a row is elsewhere.
LEMMA OnOtherPath ==
    ASSUME FileInv, NEW u \in Uploads, pc[u] \in Uploading, path[u] \notin met,
           NEW v \in Uploads, v # u, pc[v] \in Uploading \/ v \in files
    PROVE  path[v] # path[u]
<1>0. HoldsByKind
  BY HoldsOf DEF FileInv
<1> SUFFICES ASSUME path[v] = path[u] PROVE FALSE
  OBVIOUS
<1>1. CASE pc[v] \in Uploading
  BY <1>0, <1>1 DEF FileInv, FilesApart, HoldsByKind, Processes
<1>2. CASE v \in files
  <2>1. Has(path[u], v, TRUE)
    BY <1>2 DEF FileInv, Own
  <2>2. (pc[u] = "open" /\ ~Exists(path[u])) \/ Has(path[u], u, FALSE) \/ Has(path[u], u, TRUE)
    BY DEF FileInv, Own, Uploading
  <2>3. [by |-> {u}, whole |-> FALSE] # [by |-> {v}, whole |-> TRUE]
    OBVIOUS
  <2>4. [by |-> {u}, whole |-> TRUE] # [by |-> {v}, whole |-> TRUE]
    <3>1. {u} # {v}
      OBVIOUS
    <3> QED
      BY <3>1
  <2> QED
    BY <2>1, <2>2, <2>3, <2>4 DEF Has
<1> QED
  BY <1>1, <1>2

\* An upload works on its path.
LEMMA OthersOwn ==
    ASSUME FileInv, NEW u \in Uploads, pc[u] \in Uploading, OnlyAt(path[u]),
           UNCHANGED <<files, path>>, met \subseteq met', \A v \in Uploads \ {u} : pc'[v] = pc[v],
           Own(u)'
    PROVE  \A v \in Uploads : Own(v)'
<1> SUFFICES ASSUME NEW v \in Uploads, v # u, path[v] \notin met',
                    pc[v] \in Uploading \/ v \in files
             PROVE  Own(v)'
  BY DEF Own, Uploading
<1>1. path[v] # path[u]
  BY OnOtherPath
<1>2. Own(v)
  BY DEF FileInv
<1> QED
  BY <1>1, <1>2 DEF Own, Has, Exists, OnlyAt

\* A path that has no row, and that no upload holds, is removed.
LEMMA RemovalOwn ==
    ASSUME FileInv, NEW x \in Processes \ Uploads, NEW p, p \in Holds(x), OnlyAt(p),
           p \in met \/ (\A f \in files : path[f] # p),
           UNCHANGED <<files, path>>, met \subseteq met', \A v \in Uploads : pc'[v] = pc[v]
    PROVE  \A v \in Uploads : Own(v)'
<1> SUFFICES ASSUME NEW v \in Uploads, path[v] \notin met', pc[v] \in Uploading \/ v \in files
             PROVE  Own(v)'
  BY DEF Own, Uploading
<1>0. HoldsByKind /\ Own(v)
  BY HoldsOf DEF FileInv
<1>1. path[v] # p
  <2>1. CASE pc[v] \in Uploading
    BY <1>0, <2>1 DEF FileInv, FilesApart, HoldsByKind, Processes
  <2>2. CASE v \in files
    BY <2>2
  <2> QED
    BY <2>1, <2>2
<1> QED
  BY <1>0, <1>1 DEF Own, Has, Exists, OnlyAt

\* Nothing is written or removed, no upload goes on and no row is added.
LEMMA RowsOwn ==
    ASSUME FileInv, UNCHANGED <<disk, path>>, files' \subseteq files, met \subseteq met',
           \A v \in Uploads : pc'[v] = pc[v] \/ pc'[v] \in Ended
    PROVE  \A v \in Uploads : Own(v)'
<1> SUFFICES ASSUME NEW v \in Uploads PROVE Own(v)'
  OBVIOUS
<1>1. Own(v)
  BY DEF FileInv
<1> QED
  BY <1>1 DEF Own, Has, Exists, Uploading, Ended

\* Two rows of one path have met there.
LEMMA OneRow ==
    ASSUME FileInv, NEW f \in files, NEW g \in files, path[f] = path[g], path[f] \notin met
    PROVE  f = g
<1>1. Has(path[f], f, TRUE) /\ Has(path[f], g, TRUE)
  BY DEF FileInv, FileType, Own
<1>2. [by |-> {f}, whole |-> TRUE].by = [by |-> {g}, whole |-> TRUE].by
  BY <1>1 DEF Has
<1>3. {f} = {g}
  BY <1>2
<1> QED
  BY <1>3

\* What others are removing stays so, unless a row of their path comes or goes.
LEMMA OthersRemove ==
    ASSUME FileInv, NEW x \in Processes, StepOf(x),
           \A f \in files \ files' : \A y \in Processes \ {x} : path[f] \in Holds(y) => path[f] \in met',
           \A f \in files' \ files : \A y \in Processes \ {x} : path[f] \in Holds(y) => path[f] \in met',
           \A f \in files' \ files : f \in Uploads /\ pc[f] # "idle"
    PROVE  /\ \A d \in Deletions \ {x} : /\ pc'[d] = "row" => HasRow(target[d])'
                                         /\ pc'[d] = "unlink" => Rowless(target[d])'
           /\ x # Cleaner => /\ \A f \in list' : HasRow(f)'
                             /\ pc'[Cleaner] = "row" => HasRow(first)'
                             /\ pc'[Cleaner] = "unlink" => Rowless(first)'
<1>0. HoldsByKind /\ FileType /\ FileProgress /\ Removing
  BY HoldsOf DEF FileInv
<1>1. ASSUME NEW f, Uploaded(f), HasRow(f), NEW y \in Processes \ {x}, path[f] \in Holds(y)
      PROVE  HasRow(f)'
  <2>1. path'[f] = path[f] /\ met \subseteq met'
    BY <1>1 DEF StepOf, Uploaded
  <2> QED
    BY <1>1, <2>1 DEF HasRow
<1>2. ASSUME NEW f, Uploaded(f), Rowless(f), NEW y \in Processes \ {x}, path[f] \in Holds(y)
      PROVE  Rowless(f)'
  <2>0. path'[f] = path[f] /\ met \subseteq met'
    BY <1>2 DEF StepOf, Uploaded
  <2> SUFFICES ASSUME NEW g \in files', path'[g] = path[f], path[f] \notin met' PROVE FALSE
    BY <2>0 DEF Rowless
  <2>1. path'[g] = path[g]
    BY <1>0 DEF StepOf, FileType, FileProgress, Uploaded
  <2>2. CASE g \in files
    BY <1>2, <2>0, <2>1, <2>2 DEF Rowless
  <2>3. CASE g \notin files
    BY <1>2, <2>1, <2>3
  <2> QED
    BY <2>2, <2>3
<1>3. ASSUME NEW d \in Deletions, d # x
      PROVE  /\ pc'[d] = "row" => HasRow(target[d])'
             /\ pc'[d] = "unlink" => Rowless(target[d])'
  <2>1. d \in Processes \ {x} /\ pc'[d] = pc[d] /\ target'[d] = target[d]
    BY <1>3 DEF Processes, StepOf
  <2>2. CASE pc[d] \in {"row", "unlink"}
    <3>1. Uploaded(target[d]) /\ path[target[d]] \in Holds(d)
      BY <1>0, <2>2 DEF FileProgress, HoldsByKind
    <3>2. pc[d] = "row" => HasRow(target[d])'
      <4>1. pc[d] = "row" => HasRow(target[d])
        BY <1>0 DEF Removing
      <4>2. ASSUME pc[d] = "row", NEW t, t = target[d] PROVE t \in Uploads /\ HasRow(t)'
        BY <1>1, <2>1, <3>1, <4>1, <4>2 DEF Uploaded
      <4> QED
        BY <2>1, <4>2 DEF HasRow
    <3>3. pc[d] = "unlink" => Rowless(target[d])'
      <4>1. pc[d] = "unlink" => Rowless(target[d])
        BY <1>0 DEF Removing
      <4>2. ASSUME pc[d] = "unlink", NEW t, t = target[d] PROVE Rowless(t)'
        BY <1>2, <2>1, <3>1, <4>1, <4>2
      <4> QED
        BY <2>1, <4>2 DEF Rowless
    <3> QED
      BY <2>1, <3>2, <3>3
  <2> QED
    BY <2>1, <2>2
<1>4. ASSUME x # Cleaner
      PROVE  /\ \A f \in list' : HasRow(f)'
             /\ pc'[Cleaner] = "row" => HasRow(first)'
             /\ pc'[Cleaner] = "unlink" => Rowless(first)'
  <2>1. Cleaner \in Processes \ {x} /\ pc'[Cleaner] = pc[Cleaner] /\ UNCHANGED <<list, first>>
    BY <1>4 DEF Processes, StepOf
  <2>2. CASE pc[Cleaner] = "idle"
    BY <1>0, <2>1, <2>2 DEF FileProgress
  <2>3. CASE pc[Cleaner] # "idle"
    <3>1. /\ \A f \in list : Uploaded(f) /\ HasRow(f)
          /\ pc[Cleaner] = "row" => Uploaded(first) /\ HasRow(first)
          /\ pc[Cleaner] = "unlink" => Uploaded(first) /\ Rowless(first)
      BY <1>0 DEF FileProgress, Removing
    <3>2. \A f \in list : path[f] \in Holds(Cleaner)
      BY <1>0, <2>3 DEF HoldsByKind
    <3>3. Uploaded(first) => path[first] \in Holds(Cleaner)
      BY <1>0, <2>3, FileAssumption DEF HoldsByKind, Uploaded, NoRow
    <3>4. \A f \in list : HasRow(f)'
      BY <1>1, <2>1, <3>1, <3>2
    <3>5. ASSUME NEW t, t = first PROVE /\ pc[Cleaner] = "row" => HasRow(t)'
                                        /\ pc[Cleaner] = "unlink" => Rowless(t)'
      BY <1>1, <1>2, <2>1, <3>1, <3>3, <3>5
    <3> QED
      BY <2>1, <3>4, <3>5 DEF HasRow, Rowless
  <2> QED
    BY <2>2, <2>3
<1> QED
  BY <1>3, <1>4
-----------------------------------------------------------------------------
(* Uploads.                                                                  *)

\* A step that brings the types along keeps the rest in parts.
LEMMA PartsKeep ==
    ASSUME FileInv, NEW x \in Processes, StepOf(x), FileType', FileProgress',
           Holds(x)' \subseteq Holds(x), \A v \in Uploads : Own(v)', Removing',
           \A p \in DOMAIN disk' \ (met' \cup cut') :
              \/ /\ p \in DOMAIN disk /\ p \notin Holds(x)
                 /\ \A f \in files : path[f] = p => f \in files'
              \/ \E f \in files' : path'[f] = p
              \/ p \in Holds(x)'
    PROVE  FileInv'
<1>1. \A y \in Processes \ {x} : Holds(y)' = Holds(y)
  BY OthersHold DEF FileInv
<1>2. FilesApart'
  BY <1>1, LessKeeps DEF FileInv, StepOf
<1>3. OrphansWereCutShort'
  BY <1>1, OrphansKeep DEF FileInv
<1> QED
  BY <1>2, <1>3 DEF FileInv

LEMMA ChooseKeeps == ASSUME FileInv, NEW u \in Uploads, ChoosePath(u) PROVE FileInv'
<1>1. PICK p \in Paths : /\ ~Exists(p) /\ pc[u] = "idle"
                         /\ path' = [path EXCEPT ![u] = p]
                         /\ Meet(u, {p}) /\ pc' = [pc EXCEPT ![u] = "open"]
  BY FreePath DEF FileInv, ChoosePath, Goto
<1>2. UNCHANGED <<user, files, old, disk, target, list, first, cut>> /\ met \subseteq met'
  BY <1>1 DEF ChoosePath, cleaning, Meet
<1>0. FileType /\ FileProgress /\ u \in Processes /\ Cleaner \notin Uploads /\ UserDelete \notin Uploads
  BY FileAssumption DEF FileInv, Processes
<1>3. FileType'
  BY <1>0, <1>1, <1>2, FileAssumption DEF FileType, Uploading
<1>4. \A v \in Uploads : pc[v] # "idle" => path'[v] = path[v] /\ pc'[v] = pc[v]
  BY <1>0, <1>1 DEF FileType
<1>5. FileProgress'
  <2>1. \A v \in Uploads : pc'[v] # "idle" => path'[v] \in Paths
    BY <1>0, <1>1 DEF FileType, FileProgress
  <2>2. \A q \in DOMAIN disk' : \E v \in Uploads : pc'[v] # "idle" /\ path'[v] = q
    BY <1>0, <1>2, <1>4 DEF FileProgress
  <2>3. \A f : Uploaded(f) => Uploaded(f)'
    BY <1>4 DEF Uploaded
  <2>4. \A y \in Processes \ {u} : pc'[y] = pc[y]
    BY <1>0, <1>1 DEF FileType
  <2>5. \A d \in Deletions : pc'[d] = pc[d]
    BY <2>4, FileAssumption DEF Processes
  <2>6. pc'[Cleaner] = pc[Cleaner] /\ pc'[UserDelete] = pc[UserDelete]
    BY <1>0, <2>4 DEF Processes
  <2> QED
    BY <1>0, <1>2, <2>1, <2>2, <2>3, <2>5, <2>6 DEF FileProgress
<1>6. StepOf(u)
  BY <1>0, <1>1, <1>2, <1>4 DEF StepOf, FileType
<1>7. \A y \in Processes \ {u} : Holds(y)' = Holds(y)
  BY <1>0, <1>3, <1>6, OthersHold
<1>8. Holds(u) = {} /\ Holds(u)' = {p}
  <2>1. HoldsByKind /\ HoldsByKind'
    <3>1. FileType' => HoldsByKind'
      BY HoldsOf, PTL
    <3> QED
      BY <1>0, <1>3, <3>1, HoldsOf
  <2>2. pc'[u] = "open" /\ path'[u] = p
    BY <1>0, <1>1 DEF FileType
  <2> QED
    BY <1>1, <2>1, <2>2 DEF HoldsByKind, Uploading
<1>9. FilesApart'
  BY <1>0, <1>1, <1>7, <1>8, MeetKeeps DEF FileInv
<1>10. \A v \in Uploads : Own(v)'
  <2> SUFFICES ASSUME NEW v \in Uploads PROVE Own(v)'
    OBVIOUS
  <2>1. CASE v = u
    <3>1. pc'[u] = "open" /\ path'[u] = p /\ ~Exists(p)' /\ u \notin files'
      BY <1>0, <1>1, <1>2 DEF FileType, FileProgress, Uploaded, Exists
    <3> QED
      BY <2>1, <3>1 DEF Own
  <2>2. CASE v # u
    <3>1. path'[v] = path[v] /\ pc'[v] = pc[v]
      BY <1>0, <1>1, <2>2 DEF FileType, Processes
    <3> QED
      BY <1>2, <3>1 DEF FileInv, Own, Has, Exists
  <2> QED
    BY <2>1, <2>2
<1>11. Removing'
  <2>1. files' \ files = {} /\ files \ files' = {} /\ u # Cleaner /\ u \notin Deletions
    BY <1>0, <1>2, FileAssumption
  <2>2. \A d \in Deletions : target'[d] = target[d]
    BY <1>2
  <2> QED
    BY <1>0, <1>6, <2>1, <2>2, OthersRemove DEF Removing
<1>12. OrphansWereCutShort'
  BY <1>0, <1>2, <1>6, <1>7, <1>8, OrphansKeep DEF FileInv
<1> QED
  BY <1>3, <1>5, <1>9, <1>10, <1>11, <1>12 DEF FileInv

\* The steps of an upload that work on its path.
LEMMA UploadWrites ==
    ASSUME FileInv, NEW u \in Uploads, pc[u] \in {"open", "write"},
           NEW to \in {"write", "insert", "refused"}, pc' = [pc EXCEPT ![u] = to],
           UNCHANGED <<user, files, old, path, target, list, first, met, cut>>,
           OnlyAt(path[u]), Own(u)', to = "refused" => ~Exists(path[u])'
    PROVE  FileInv'
<1>0. /\ FileType /\ FileProgress /\ u \in Processes /\ Cleaner \notin Uploads /\ UserDelete \notin Uploads
      /\ HoldsByKind
  BY FileAssumption, HoldsOf DEF FileInv, Processes
<1>1. pc'[u] = to /\ (\A y \in Processes \ {u} : pc'[y] = pc[y]) /\ path[u] \in Paths
  BY <1>0 DEF FileType, FileProgress
<1>2. (\A d \in Deletions : pc'[d] = pc[d]) /\ pc'[Cleaner] = pc[Cleaner] /\ pc'[UserDelete] = pc[UserDelete]
  BY <1>0, <1>1, FileAssumption DEF Processes
<1>3. FileType'
  BY <1>0, <1>1, <1>2 DEF FileType, Uploading, Ended
<1>4. FileProgress'
  <2>1. \A v \in Uploads : pc'[v] # "idle" <=> pc[v] # "idle"
    BY <1>0, <1>1 DEF Processes
  <2>2. \A q \in DOMAIN disk' : \E v \in Uploads : pc'[v] # "idle" /\ path[v] = q
    BY <1>0, <1>1, <2>1 DEF FileProgress, OnlyAt
  <2>3. \A f : Uploaded(f) => Uploaded(f)'
    BY <1>1 DEF Uploaded, Processes
  <2> QED
    BY <1>0, <1>2, <2>1, <2>2, <2>3 DEF FileProgress
<1>5. StepOf(u)
  BY <1>0, <1>1 DEF StepOf
<1>6. Holds(u) = {path[u]} /\ Holds(u)' = IF to = "refused" THEN {} ELSE {path[u]}
  <2>1. HoldsByKind'
    BY <1>3, HoldsOf, PTL
  <2> QED
    BY <1>0, <1>1, <2>1 DEF HoldsByKind, Uploading
<1>7. \A v \in Uploads : Own(v)'
  BY <1>0, <1>1, OthersOwn DEF Processes, Uploading
<1>8. Removing'
  BY <1>0, <1>5, OthersRemove DEF Removing
<1>9. \A p \in DOMAIN disk' : (p \in DOMAIN disk /\ p # path[u]) \/ p \in Holds(u)'
  BY <1>6 DEF OnlyAt, Exists
<1> QED
  BY <1>0, <1>3, <1>4, <1>5, <1>6, <1>7, <1>8, <1>9, PartsKeep

LEMMA UploadStepsKeep ==
    ASSUME FileInv, NEW u \in Uploads, Open(u) \/ Write(u) \/ TooLarge(u)
    PROVE  FileInv'
<1>0. FileType /\ u \in Processes /\ Own(u)
  BY DEF FileInv, Processes
<1>1. CASE Open(u)
  <2>1. /\ pc[u] = "open" /\ pc' = [pc EXCEPT ![u] = "write"]
        /\ UNCHANGED <<user, files, old, path, target, list, first, met, cut>>
        /\ disk' = Written(path[u], [by |-> {u}, whole |-> FALSE])
    BY <1>1 DEF Open, Goto, cleaning
  <2>2. OnlyAt(path[u])
    BY <2>1 DEF OnlyAt, Written
  <2>3. Own(u)'
    <3>1. pc'[u] = "write" /\ u \notin files
      BY <1>0, <2>1 DEF FileInv, FileType, FileProgress, Uploaded
    <3>2. Has(path[u], u, FALSE)'
      BY <2>1 DEF Has, Exists, Written
    <3> QED
      BY <2>1, <3>1, <3>2 DEF Own
  <2> QED
    BY <2>1, <2>2, <2>3, UploadWrites
<1>2. CASE Write(u)
  <2>1. /\ pc[u] = "write" /\ pc' = [pc EXCEPT ![u] = "insert"]
        /\ UNCHANGED <<user, files, old, path, target, list, first, met, cut>>
    BY <1>2 DEF Write, Goto, cleaning
  <2>2. \/ Exists(path[u]) /\ disk' = [disk EXCEPT ![path[u]] = [by |-> @.by \cup {u}, whole |-> TRUE]]
        \/ ~Exists(path[u]) /\ UNCHANGED disk
        \/ disk' = Written(path[u], [by |-> {u}, whole |-> TRUE])
    BY <1>2 DEF Write
  <2>3. OnlyAt(path[u])
    BY <2>2 DEF OnlyAt, Written, Exists
  <2>4. path[u] \notin met => Has(path[u], u, TRUE)'
    <3> SUFFICES ASSUME path[u] \notin met PROVE Has(path[u], u, TRUE)'
      OBVIOUS
    <3>1. Exists(path[u]) /\ disk[path[u]] = [by |-> {u}, whole |-> FALSE]
      BY <1>0, <2>1 DEF Own, Has
    <3>2. CASE disk' = [disk EXCEPT ![path[u]] = [by |-> @.by \cup {u}, whole |-> TRUE]]
      <4>1. disk'[path[u]] = [by |-> disk[path[u]].by \cup {u}, whole |-> TRUE]
        BY <3>1, <3>2 DEF Exists
      <4>2. disk[path[u]].by \cup {u} = {u}
        BY <3>1
      <4> QED
        BY <2>1, <3>1, <3>2, <4>1, <4>2 DEF Has, Exists
    <3>3. CASE disk' = Written(path[u], [by |-> {u}, whole |-> TRUE])
      BY <2>1, <3>3 DEF Has, Exists, Written
    <3> QED
      BY <2>2, <3>1, <3>2, <3>3
  <2>5. Own(u)'
    BY <1>0, <2>1, <2>4 DEF Own, FileType
  <2> QED
    BY <2>1, <2>3, <2>5, UploadWrites
<1>3. CASE TooLarge(u)
  <2>1. /\ pc[u] = "write" /\ pc' = [pc EXCEPT ![u] = "refused"]
        /\ UNCHANGED <<user, files, old, path, target, list, first, met, cut>>
        /\ disk' = Unlinked({path[u]})
    BY <1>3 DEF TooLarge, Goto, cleaning
  <2>2. OnlyAt(path[u]) /\ ~Exists(path[u])'
    BY <2>1 DEF OnlyAt, Unlinked, Exists
  <2>3. Own(u)'
    BY <1>0, <2>1 DEF FileInv, FileType, FileProgress, Uploaded, Own
  <2> QED
    BY <2>1, <2>2, <2>3, UploadWrites
<1> QED
  BY <1>1, <1>2, <1>3
LEMMA InsertRowKeeps == ASSUME FileInv, NEW u \in Uploads, InsertRow(u) PROVE FileInv'
<1>0. /\ FileType /\ FileProgress /\ u \in Processes /\ Cleaner \notin Uploads /\ UserDelete \notin Uploads
      /\ HoldsByKind /\ u \notin Deletions /\ Own(u)
  BY FileAssumption, HoldsOf DEF FileInv, Processes
<1>1. /\ pc[u] = "insert" /\ user /\ files' = files \cup {u} /\ pc' = [pc EXCEPT ![u] = "done"]
      /\ UNCHANGED <<user, old, disk, path, target, list, first, met, cut>>
  BY DEF InsertRow, Goto, cleaning
<1>2. pc'[u] = "done" /\ (\A y \in Processes \ {u} : pc'[y] = pc[y])
  BY <1>0, <1>1 DEF FileType
<1>3. (\A d \in Deletions : pc'[d] = pc[d]) /\ pc'[Cleaner] = pc[Cleaner] /\ pc'[UserDelete] = pc[UserDelete]
  BY <1>0, <1>2 DEF Processes
<1>4. FileType'
  BY <1>0, <1>1, <1>2, <1>3 DEF FileType, Ended
<1>5. FileProgress'
  <2>1. \A v \in Uploads : pc'[v] # "idle" <=> pc[v] # "idle"
    BY <1>1, <1>2 DEF Processes
  <2>2. Uploaded(u)' /\ \A f : Uploaded(f) => Uploaded(f)'
    BY <1>2 DEF Uploaded, Processes
  <2> QED
    BY <1>0, <1>1, <1>3, <2>1, <2>2 DEF FileProgress
<1>6. StepOf(u)
  BY <1>0, <1>1, <1>2 DEF StepOf
<1>7. Holds(u) = {path[u]} /\ Holds(u)' = {}
  <2>1. HoldsByKind'
    BY <1>4, HoldsOf, PTL
  <2> QED
    BY <1>0, <1>1, <1>2, <2>1 DEF HoldsByKind, Uploading
<1>8. \A v \in Uploads : Own(v)'
  <2> SUFFICES ASSUME NEW v \in Uploads PROVE Own(v)'
    OBVIOUS
  <2>1. Own(v) /\ (v # u => pc'[v] = pc[v])
    BY <1>2 DEF FileInv, Processes
  <2> QED
    BY <1>1, <1>2, <2>1 DEF Own, Has, Exists
<1>9. Removing'
  <2>1. \A y \in Processes \ {u} : path[u] \in Holds(y) => path[u] \in met
    BY <1>0, <1>7 DEF FileInv, FilesApart
  <2>2. \A f \in files' \ files : f = u
    BY <1>1
  <2>3. files \ files' = {} /\ u # Cleaner /\ met' = met /\ pc[u] # "idle" /\ target' = target
    BY <1>0, <1>1
  <2>4. /\ \A d \in Deletions \ {u} : /\ pc'[d] = "row" => HasRow(target[d])'
                                      /\ pc'[d] = "unlink" => Rowless(target[d])'
        /\ u # Cleaner => /\ \A f \in list' : HasRow(f)'
                          /\ pc'[Cleaner] = "row" => HasRow(first)'
                          /\ pc'[Cleaner] = "unlink" => Rowless(first)'
    BY <1>0, <1>6, <2>1, <2>2, <2>3, OthersRemove
  <2> QED
    BY <1>0, <2>3, <2>4 DEF Removing
<1>10. \A p \in DOMAIN disk' : \/ p \in DOMAIN disk /\ p \notin Holds(u)
                               \/ \E f \in files' : path'[f] = p
  BY <1>1, <1>7
<1> QED
  BY <1>0, <1>1, <1>4, <1>5, <1>6, <1>7, <1>8, <1>9, <1>10, PartsKeep

LEMMA FailKeeps == ASSUME FileInv, NEW u \in Uploads, UploadFails(u) PROVE FileInv'
<1>0. /\ FileType /\ FileProgress /\ u \in Processes /\ Cleaner \notin Uploads /\ UserDelete \notin Uploads
      /\ HoldsByKind /\ u \notin Deletions
  BY FileAssumption, HoldsOf DEF FileInv, Processes
<1>1. /\ pc[u] \in Uploading /\ pc' = [pc EXCEPT ![u] = "dead"] /\ cut' = cut \cup Holds(u)
      /\ UNCHANGED <<user, files, old, disk, path, target, list, first, met>>
  BY DEF UploadFails, Goto, CutShort, cleaning, Uploading
<1>2. pc'[u] = "dead" /\ (\A y \in Processes \ {u} : pc'[y] = pc[y])
  BY <1>0, <1>1 DEF FileType
<1>3. (\A d \in Deletions : pc'[d] = pc[d]) /\ pc'[Cleaner] = pc[Cleaner] /\ pc'[UserDelete] = pc[UserDelete]
  BY <1>0, <1>2 DEF Processes
<1>4. FileType'
  BY <1>0, <1>1, <1>2, <1>3 DEF FileType, Ended
<1>5. FileProgress'
  <2>1. \A v \in Uploads : pc'[v] # "idle" <=> pc[v] # "idle"
    BY <1>1, <1>2 DEF Processes, Uploading
  <2>2. \A f : Uploaded(f) => Uploaded(f)'
    BY <1>1, <1>2 DEF Uploaded, Processes, Uploading
  <2> QED
    BY <1>0, <1>1, <1>3, <2>1, <2>2 DEF FileProgress
<1>6. StepOf(u)
  BY <1>0, <1>1, <1>2 DEF StepOf
<1>7. Holds(u)' = {}
  <2>1. HoldsByKind'
    BY <1>4, HoldsOf, PTL
  <2> QED
    BY <1>2, <2>1 DEF HoldsByKind, Uploading
<1>8. \A v \in Uploads : Own(v)'
  BY <1>1, <1>2, RowsOwn DEF Processes, Ended
<1>9. Removing'
  <2>1. files' \ files = {} /\ files \ files' = {} /\ u # Cleaner
    BY <1>0, <1>1
  <2> QED
    BY <1>0, <1>1, <1>6, <2>1, OthersRemove DEF Removing
<1> QED
  BY <1>0, <1>1, <1>4, <1>5, <1>6, <1>7, <1>8, <1>9, PartsKeep

\* A file grows old: nothing else depends on that.
LEMMA DayKeeps == ASSUME FileInv, NEW f \in Uploads, DayPasses(f) PROVE FileInv'
<1>1. /\ old' = old \cup {f} /\ f \in files
      /\ UNCHANGED <<user, files, disk, path, pc, target, list, first, met, cut>>
  BY DEF DayPasses, cleaning
<1>2. \A x : Holds(x)' = Holds(x)
  BY <1>1 DEF Holds
<1> QED
  BY <1>1, <1>2
     DEF FileInv, FileType, FileProgress, Uploaded, FilesApart, Own, Has, Exists, Removing,
         HasRow, Rowless, OrphansWereCutShort
-----------------------------------------------------------------------------
(* Deletions.                                                                *)

\* A deletion takes a step: what that says of types, and of the other processes.
LEMMA DeletionSteps ==
    ASSUME FileInv, NEW d \in Deletions,
           NEW to \in {"row", "unlink", "done", "refused", "dead"}, pc' = [pc EXCEPT ![d] = to],
           NEW t \in Uploads, Uploaded(t), target' = [target EXCEPT ![d] = t],
           files' \subseteq files, old' \subseteq files', old' \subseteq old,
           UNCHANGED <<user, path, list, first>>, DOMAIN disk' \subseteq DOMAIN disk,
           met \subseteq met', cut \subseteq cut'
    PROVE  /\ FileType' /\ FileProgress' /\ StepOf(d)
           /\ Holds(d)' = IF to \in {"row", "unlink"} THEN {path[t]} ELSE {}
           /\ pc'[d] = to /\ target'[d] = t /\ \A y \in Processes \ {d} : pc'[y] = pc[y]
           /\ d \in Processes \ Uploads /\ d # Cleaner
<1>0. /\ FileType /\ FileProgress /\ d \in Processes /\ d \notin Uploads
      /\ Cleaner # d /\ UserDelete # d
      /\ Cleaner \notin Uploads \cup Deletions /\ UserDelete \notin Uploads \cup Deletions
  BY FileAssumption DEF FileInv, Processes
<1>1. pc'[d] = to /\ (\A y \in Processes \ {d} : pc'[y] = pc[y]) /\ target'[d] = t
  BY <1>0 DEF FileType
<1>2. /\ \A u \in Uploads : pc'[u] = pc[u]
      /\ \A e \in Deletions \ {d} : pc'[e] = pc[e] /\ target'[e] = target[e]
      /\ pc'[Cleaner] = pc[Cleaner] /\ pc'[UserDelete] = pc[UserDelete]
  BY <1>0, <1>1 DEF Processes, FileType
<1>3. FileType'
  <2>1. DOMAIN pc' = Processes /\ target' \in [Deletions -> Uploads \cup {NoRow}]
    BY <1>0 DEF FileType
  <2>2. \A e \in Deletions : pc'[e] \in {"idle", "row", "unlink"} \cup Ended
    BY <1>0, <1>1, <1>2 DEF FileType, Ended
  <2> QED
    BY <1>0, <1>2, <2>1, <2>2 DEF FileType
<1>4. FileProgress'
  <2>1. \A f : Uploaded(f) => Uploaded(f)'
    BY <1>2 DEF Uploaded
  <2>2. \A e \in Deletions : pc'[e] \in {"row", "unlink"} => Uploaded(target[e])'
    BY <1>0, <1>1, <1>2 DEF FileProgress, Uploaded
  <2>3. \A f \in files' \cup list' : Uploaded(f)'
    BY <1>0, <2>1 DEF FileProgress
  <2> QED
    BY <1>0, <1>2, <2>1, <2>2, <2>3 DEF FileProgress
<1>5. StepOf(d)
  BY <1>0, <1>1, <1>2 DEF StepOf
<1>6. Holds(d)' = IF to \in {"row", "unlink"} THEN {path[t]} ELSE {}
  <2>1. HoldsByKind'
    BY <1>3, HoldsOf, PTL
  <2> QED
    BY <1>1, <2>1 DEF HoldsByKind
<1> QED
  BY <1>0, <1>1, <1>3, <1>4, <1>5, <1>6

LEMMA DeleteFileKeeps ==
    ASSUME FileInv, NEW d \in Deletions, NEW f \in Uploads, DeleteFile(d, f)
    PROVE  FileInv'
<1>0. FileType /\ FileProgress /\ HoldsByKind
  BY HoldsOf DEF FileInv
<1>1. /\ pc[d] = "idle" /\ f \in files /\ pc' = [pc EXCEPT ![d] = "row"]
      /\ target' = [target EXCEPT ![d] = f] /\ Meet(d, {path[f]})
      /\ UNCHANGED <<user, files, old, disk, path, list, first, cut>> /\ met \subseteq met'
  BY DEF DeleteFile, Goto, cleaning, Meet
<1>2. Uploaded(f) /\ old \subseteq files
  BY <1>0, <1>1 DEF FileProgress, FileType
<1>3. /\ FileType' /\ FileProgress' /\ StepOf(d) /\ Holds(d)' = {path[f]}
      /\ pc'[d] = "row" /\ target'[d] = f /\ \A y \in Processes \ {d} : pc'[y] = pc[y]
      /\ d \in Processes \ Uploads /\ d # Cleaner
  BY <1>1, <1>2, DeletionSteps
<1>4. \A y \in Processes \ {d} : Holds(y)' = Holds(y)
  BY <1>0, <1>3, OthersHold
<1>5. FilesApart'
  BY <1>1, <1>3, <1>4, MeetKeeps DEF FileInv
<1>6. \A v \in Uploads : Own(v)'
  BY <1>1, <1>3, RowsOwn DEF Processes
<1>7. Removing'
  <2>1. files' \ files = {} /\ files \ files' = {} /\ HasRow(f)'
    BY <1>1 DEF HasRow
  <2> QED
    BY <1>3, <2>1, OthersRemove DEF Removing
<1>8. OrphansWereCutShort'
  <2>1. Holds(d) = {}
    BY <1>0, <1>1 DEF HoldsByKind
  <2> QED
    BY <1>0, <1>1, <1>3, <1>4, <2>1, OrphansKeep DEF FileInv
<1> QED
  BY <1>3, <1>5, <1>6, <1>7, <1>8 DEF FileInv

\* The row goes; that of another process that is after it has met this one.
LEMMA DeleteRowKeeps == ASSUME FileInv, NEW d \in Deletions, DeleteRow(d) PROVE FileInv'
<1>t. PICK t : t = target[d]
  OBVIOUS
<1>0. /\ FileType /\ FileProgress /\ HoldsByKind /\ pc[d] = "row" /\ Uploaded(t) /\ t \in Uploads
      /\ HasRow(t) /\ Holds(d) = {path[t]}
  BY <1>t, HoldsOf DEF FileInv, DeleteRow, FileProgress, Uploaded, Removing, HoldsByKind
<1>1. PICK to \in {"unlink", "refused"} :
         pc' = [pc EXCEPT ![d] = to] /\ (to = "refused" => t \notin files)
  BY <1>t DEF DeleteRow, Goto
<1>2. /\ files' = files \ {t} /\ old' = old \ {t} /\ target' = [target EXCEPT ![d] = t]
      /\ UNCHANGED <<user, disk, path, target, list, first, met, cut>>
  BY <1>0, <1>t DEF DeleteRow, cleaning, FileType
<1>3. /\ FileType' /\ FileProgress' /\ StepOf(d)
      /\ Holds(d)' = IF to \in {"row", "unlink"} THEN {path[t]} ELSE {}
      /\ pc'[d] = to /\ target'[d] = t /\ \A y \in Processes \ {d} : pc'[y] = pc[y]
      /\ d \in Processes \ Uploads /\ d # Cleaner
  <2>1. files' \subseteq files /\ old' \subseteq files' /\ old' \subseteq old
    BY <1>0, <1>2 DEF FileType
  <2> QED
    BY <1>0, <1>1, <1>2, <2>1, DeletionSteps
<1>4. \A v \in Uploads : Own(v)'
  BY <1>2, <1>3, RowsOwn DEF Processes
<1>5. Removing'
  <2>1. \A f \in files \ files' : f = t
    BY <1>2
  <2>2. \A y \in Processes \ {d} : path[t] \in Holds(y) => path[t] \in met
    BY <1>0, <1>3 DEF FileInv, FilesApart
  <2>3. files' \ files = {} /\ met' = met
    BY <1>2
  <2>4. /\ \A e \in Deletions \ {d} : /\ pc'[e] = "row" => HasRow(target[e])'
                                      /\ pc'[e] = "unlink" => Rowless(target[e])'
        /\ d # Cleaner => /\ \A f \in list' : HasRow(f)'
                          /\ pc'[Cleaner] = "row" => HasRow(first)'
                          /\ pc'[Cleaner] = "unlink" => Rowless(first)'
    BY <1>3, <2>1, <2>2, <2>3, OthersRemove
  <2>5. Rowless(t)'
    <3> SUFFICES ASSUME path[t] \notin met, NEW g \in files', path[g] = path[t] PROVE FALSE
      BY <1>2 DEF Rowless
    <3>1. t \in files /\ g \in files /\ g # t
      BY <1>0, <1>2 DEF HasRow
    <3> QED
      BY <3>1, OneRow
  <2> QED
    BY <1>2, <1>3, <2>4, <2>5 DEF Removing
<1>6. \A p \in DOMAIN disk' \ (met' \cup cut') :
         \/ p \in DOMAIN disk /\ p \notin Holds(d) /\ \A f \in files : path[f] = p => f \in files'
         \/ p \in Holds(d)'
  <2>1. path[t] \in met \/ path[t] \in Holds(d)'
    BY <1>0, <1>1, <1>3 DEF HasRow
  <2> QED
    BY <1>0, <1>2, <2>1
<1> QED
  BY <1>0, <1>3, <1>4, <1>5, <1>6, PartsKeep

LEMMA UnlinkKeeps ==
    ASSUME FileInv, NEW d \in Deletions, Unlink(d) \/ DeletionFails(d)
    PROVE  FileInv'
<1>t. PICK t : t = target[d]
  OBVIOUS
<1>0. /\ FileType /\ FileProgress /\ HoldsByKind /\ pc[d] \in {"row", "unlink"} /\ Uploaded(t)
      /\ t \in Uploads /\ (pc[d] = "unlink" => Rowless(t)) /\ Holds(d) = {path[t]}
      /\ old \subseteq files
  BY <1>t, HoldsOf DEF FileInv, Unlink, DeletionFails, FileType, FileProgress, Uploaded, Removing, HoldsByKind
<1>1. /\ target' = [target EXCEPT ![d] = t]
      /\ UNCHANGED <<user, files, old, path, target, list, first, met>>
  BY <1>0, <1>t DEF Unlink, DeletionFails, cleaning, FileType
<1>2. \/ /\ pc[d] = "unlink" /\ pc' = [pc EXCEPT ![d] = "done"]
         /\ disk' = Unlinked({path[t]}) /\ UNCHANGED cut
      \/ /\ pc' = [pc EXCEPT ![d] = "dead"] /\ UNCHANGED disk /\ cut' = cut \cup Holds(d)
  BY <1>t DEF Unlink, DeletionFails, Goto, CutShort
<1>3. PICK to \in {"done", "dead"} : pc' = [pc EXCEPT ![d] = to]
  BY <1>2
<1>4. /\ FileType' /\ FileProgress' /\ StepOf(d) /\ Holds(d)' = {}
      /\ pc'[d] = to /\ target'[d] = t /\ (\A y \in Processes \ {d} : pc'[y] = pc[y])
      /\ d \in Processes \ Uploads /\ d # Cleaner
  <2>1. DOMAIN disk' \subseteq DOMAIN disk /\ cut \subseteq cut'
    BY <1>2 DEF Unlinked
  <2>2. files' \subseteq files /\ old' \subseteq files' /\ old' \subseteq old /\ met \subseteq met'
    BY <1>0, <1>1
  <2>3. to \notin {"row", "unlink"}
    OBVIOUS
  <2> QED
    BY <1>0, <1>1, <1>3, <2>1, <2>2, <2>3, DeletionSteps
<1>5. \A v \in Uploads : Own(v)'
  <2>1. CASE UNCHANGED disk
    BY <1>1, <1>4, <2>1, RowsOwn DEF Processes
  <2>2. CASE pc[d] = "unlink" /\ disk' = Unlinked({path[t]})
    <3>1. OnlyAt(path[t])
      BY <2>2 DEF OnlyAt, Unlinked
    <3>2. path[t] \in met \/ (\A f \in files : path[f] # path[t])
      BY <1>0, <2>2 DEF Rowless
    <3>3. \A v \in Uploads : pc'[v] = pc[v]
      BY <1>4 DEF Processes
    <3> QED
      BY <1>0, <1>1, <1>4, <3>1, <3>2, <3>3, RemovalOwn
  <2> QED
    BY <1>2, <2>1, <2>2
<1>6. Removing'
  <2>1. files' \ files = {} /\ files \ files' = {} /\ pc'[d] \notin {"row", "unlink"} /\ target' = target
    BY <1>1, <1>4
  <2> QED
    BY <1>4, <2>1, OthersRemove DEF Removing
<1>7. \A p \in DOMAIN disk' \ (met' \cup cut') : p \in DOMAIN disk /\ p \notin Holds(d)
  BY <1>0, <1>2 DEF Unlinked
<1>8. \A f \in files : f \in files'
  BY <1>1
<1> QED
  BY <1>4, <1>5, <1>6, <1>7, <1>8, PartsKeep
-----------------------------------------------------------------------------
(* The cleaner.                                                              *)

\* A step of the cleaner: what it says of types, and of the other processes.
LEMMA CleanerSteps ==
    ASSUME FileInv, NEW to \in {"idle", "next", "row", "unlink"}, pc' = [pc EXCEPT ![Cleaner] = to],
           files' \subseteq files, old' \subseteq files', list' \subseteq files \cup list,
           to = "idle" => list' = {},
           IF to \in {"row", "unlink"} THEN first' \in list \cup ({first} \ {NoRow}) /\ first' \notin list'
                                       ELSE first' = NoRow,
           UNCHANGED <<user, path, target>>, DOMAIN disk' \subseteq DOMAIN disk,
           met \subseteq met', cut \subseteq cut'
    PROVE  /\ FileType' /\ FileProgress' /\ StepOf(Cleaner)
           /\ Holds(Cleaner)' = IF to = "idle" THEN {}
                                ELSE {path[f] : f \in list' \cup ({first'} \ {NoRow})}
           /\ pc'[Cleaner] = to /\ \A y \in Processes \ {Cleaner} : pc'[y] = pc[y]
           /\ Cleaner \in Processes \ Uploads /\ Cleaner \notin Deletions
<1>0. /\ FileType /\ FileProgress
      /\ Cleaner \in Processes /\ Cleaner \notin Uploads \cup Deletions /\ UserDelete # Cleaner
  BY FileAssumption DEF FileInv, Processes
<1>1. pc'[Cleaner] = to /\ (\A y \in Processes \ {Cleaner} : pc'[y] = pc[y])
  BY <1>0 DEF FileType
<1>2. /\ \A u \in Uploads \cup Deletions : pc'[u] = pc[u]
      /\ pc'[UserDelete] = pc[UserDelete]
  BY <1>0, <1>1 DEF Processes
<1>3. \A f \in list \cup ({first} \ {NoRow}) : Uploaded(f) /\ f \in Uploads
  BY <1>0 DEF FileType, FileProgress, Uploaded
<1>4. FileType'
  <2>1. DOMAIN pc' = Processes
    BY <1>0 DEF FileType
  <2>2. list' \subseteq Uploads /\ first' \in Uploads \cup {NoRow}
    BY <1>0, <1>3 DEF FileType
  <2> QED
    BY <1>0, <1>1, <1>2, <2>1, <2>2 DEF FileType
<1>5. FileProgress'
  <2>1. \A f : Uploaded(f) => Uploaded(f)'
    BY <1>2 DEF Uploaded
  <2>2. \A f \in files' \cup list' : Uploaded(f)'
    BY <1>0, <2>1 DEF FileProgress
  <2>3. to \in {"row", "unlink"} => Uploaded(first')
    BY <1>3
  <2>4. to \in {"row", "unlink"} => Uploaded(first)'
    BY <1>2, <2>3 DEF Uploaded
  <2> QED
    BY <1>0, <1>1, <1>2, <2>1, <2>2, <2>4 DEF FileProgress
<1>6. StepOf(Cleaner)
  BY <1>0, <1>1 DEF StepOf
<1>7. Holds(Cleaner)' = IF to = "idle" THEN {} ELSE {path[f] : f \in list' \cup ({first'} \ {NoRow})}
  <2>1. HoldsByKind'
    BY <1>4, HoldsOf, PTL
  <2> QED
    BY <1>1, <2>1 DEF HoldsByKind
<1> QED
  BY <1>0, <1>1, <1>4, <1>5, <1>6, <1>7

LEMMA CleanKeeps == ASSUME FileInv, Clean PROVE FileInv'
<1>0. FileType /\ FileProgress /\ HoldsByKind /\ old \subseteq files /\ first = NoRow
  BY HoldsOf DEF FileInv, FileType, FileProgress, Clean
<1>1. /\ pc[Cleaner] = "idle" /\ pc' = [pc EXCEPT ![Cleaner] = "next"]
      /\ list' = old /\ Meet(Cleaner, {path[f] : f \in old})
      /\ UNCHANGED <<user, files, old, disk, path, target, first, cut>> /\ met \subseteq met'
  BY DEF Clean, Goto, Meet
<1>2. /\ FileType' /\ FileProgress' /\ StepOf(Cleaner)
      /\ Holds(Cleaner)' = {path[f] : f \in list' \cup ({first'} \ {NoRow})}
      /\ pc'[Cleaner] = "next" /\ (\A y \in Processes \ {Cleaner} : pc'[y] = pc[y])
      /\ Cleaner \in Processes \ Uploads /\ Cleaner \notin Deletions
  BY <1>0, <1>1, CleanerSteps
<1>3. Holds(Cleaner)' = {path[f] : f \in old}
  BY <1>0, <1>1, <1>2
<1>4. \A y \in Processes \ {Cleaner} : Holds(y)' = Holds(y)
  BY <1>0, <1>2, OthersHold
<1>5. FilesApart'
  BY <1>1, <1>2, <1>3, <1>4, MeetKeeps DEF FileInv
<1>6. \A v \in Uploads : Own(v)'
  BY <1>1, <1>2, RowsOwn DEF Processes
<1>7. Removing'
  <2>1. files' \ files = {} /\ files \ files' = {}
    BY <1>1
  <2>2. \A f \in list' : HasRow(f)'
    BY <1>0, <1>1 DEF HasRow
  <2> QED
    BY <1>1, <1>2, <2>1, <2>2, OthersRemove DEF Removing
<1>8. OrphansWereCutShort'
  <2>1. Holds(Cleaner) = {}
    BY <1>0, <1>1 DEF HoldsByKind
  <2> QED
    BY <1>0, <1>1, <1>2, <1>4, <2>1, OrphansKeep DEF FileInv
<1> QED
  BY <1>2, <1>5, <1>6, <1>7, <1>8 DEF FileInv

\* The cleaner goes on to a row, or stops.
LEMMA CleanerGoesOn ==
    ASSUME FileInv, (\E f \in Uploads : CleanNext(f)) \/ CleanEnd \/ CleanFails
    PROVE  FileInv'
<1>0. /\ FileType /\ FileProgress /\ HoldsByKind /\ Removing /\ old \subseteq files
      /\ pc[Cleaner] # "idle" /\ Cleaner \notin Uploads
      /\ Holds(Cleaner) = {path[f] : f \in list \cup ({first} \ {NoRow})}
  BY FileAssumption, HoldsOf DEF FileInv, FileType, CleanNext, CleanEnd, CleanFails, HoldsByKind
<1>1. UNCHANGED <<user, files, old, disk, path, target, met>>
  BY DEF CleanNext, CleanEnd, CleanFails
<1>2. \/ \E f \in list : /\ pc[Cleaner] = "next" /\ pc' = [pc EXCEPT ![Cleaner] = "row"]
                         /\ list' = list \ {f} /\ first' = f /\ UNCHANGED cut
      \/ /\ pc' = [pc EXCEPT ![Cleaner] = "idle"] /\ list' = {} /\ first' = NoRow
         /\ \/ pc[Cleaner] = "next" /\ UNCHANGED cut
            \/ cut' = cut \cup Holds(Cleaner)
  <2>1. CASE \E f \in Uploads : CleanNext(f)
    <3>1. PICK f \in Uploads : CleanNext(f)
      BY <2>1
    <3>2. pc[Cleaner] = "next" /\ f \in list /\ first = NoRow
      BY <1>0, <3>1 DEF CleanNext, FileProgress
    <3> QED
      BY <3>1, <3>2 DEF CleanNext, Goto
  <2>2. CASE CleanEnd
    <3>1. pc[Cleaner] = "next" /\ first = NoRow
      BY <1>0, <2>2 DEF CleanEnd, FileProgress
    <3> QED
      BY <2>2, <3>1 DEF CleanEnd, Goto
  <2>3. CASE CleanFails
    BY <2>3 DEF CleanFails, Goto, CutShort
  <2> QED
    BY <2>1, <2>2, <2>3
<1>3. pc[Cleaner] = "next" => first = NoRow
  BY <1>0 DEF FileProgress
<1>4. CASE \E f \in list : /\ pc[Cleaner] = "next" /\ pc' = [pc EXCEPT ![Cleaner] = "row"]
                           /\ list' = list \ {f} /\ first' = f /\ UNCHANGED cut
  <2>1. PICK f \in list : /\ pc[Cleaner] = "next" /\ pc' = [pc EXCEPT ![Cleaner] = "row"]
                          /\ list' = list \ {f} /\ first' = f /\ UNCHANGED cut
    BY <1>4
  <2>2. /\ FileType' /\ FileProgress' /\ StepOf(Cleaner)
        /\ Holds(Cleaner)' = {path[g] : g \in list' \cup ({first'} \ {NoRow})}
        /\ pc'[Cleaner] = "row" /\ (\A y \in Processes \ {Cleaner} : pc'[y] = pc[y])
        /\ Cleaner \in Processes \ Uploads /\ Cleaner \notin Deletions
    BY <1>0, <1>1, <2>1, CleanerSteps
  <2>3. Holds(Cleaner)' = Holds(Cleaner)
    <3>1. f # NoRow
      BY <1>0, <2>1 DEF FileType, NoRow
    <3>2. list' \cup ({first'} \ {NoRow}) = list \cup ({first} \ {NoRow})
      BY <1>3, <2>1, <3>1
    <3> QED
      BY <1>0, <2>2, <3>2
  <2>4. \A v \in Uploads : Own(v)'
    BY <1>1, <2>2, RowsOwn DEF Processes
  <2>5. Removing'
    <3>1. files' \ files = {} /\ files \ files' = {}
      BY <1>1
    <3>2. (\A g \in list' : HasRow(g)') /\ HasRow(first)'
      BY <1>0, <1>1, <2>1 DEF Removing, HasRow
    <3> QED
      BY <1>1, <2>2, <3>1, <3>2, OthersRemove DEF Removing
  <2>6. \A p \in DOMAIN disk' \ (met' \cup cut') :
           \/ p \in DOMAIN disk /\ p \notin Holds(Cleaner)
           \/ p \in Holds(Cleaner)'
    BY <1>1, <2>3
  <2> QED
    BY <1>1, <2>2, <2>3, <2>4, <2>5, <2>6, PartsKeep
<1>5. CASE /\ pc' = [pc EXCEPT ![Cleaner] = "idle"] /\ list' = {} /\ first' = NoRow
           /\ \/ pc[Cleaner] = "next" /\ UNCHANGED cut
              \/ cut' = cut \cup Holds(Cleaner)
  <2>2. /\ FileType' /\ FileProgress' /\ StepOf(Cleaner) /\ Holds(Cleaner)' = {}
        /\ pc'[Cleaner] = "idle" /\ (\A y \in Processes \ {Cleaner} : pc'[y] = pc[y])
        /\ Cleaner \in Processes \ Uploads /\ Cleaner \notin Deletions
    BY <1>0, <1>1, <1>5, CleanerSteps
  <2>4. \A v \in Uploads : Own(v)'
    BY <1>1, <2>2, RowsOwn DEF Processes
  <2>5. Removing'
    <3>1. files' \ files = {} /\ files \ files' = {} /\ list' = {}
      BY <1>1, <1>5
    <3> QED
      BY <1>1, <2>2, <3>1, OthersRemove DEF Removing
  <2>6. \A p \in DOMAIN disk' \ (met' \cup cut') :
           \/ p \in DOMAIN disk /\ p \notin Holds(Cleaner)
           \/ \E f \in files' : path'[f] = p
    <3> SUFFICES ASSUME NEW p \in DOMAIN disk, p \notin met, p \notin cut', p \in Holds(Cleaner)
                 PROVE  \E f \in files : path[f] = p
      BY <1>1
    <3>1. first = NoRow
      BY <1>3, <1>5
    <3>2. PICK f \in list : path[f] = p
      BY <1>0, <3>1
    <3> QED
      BY <1>0, <3>2 DEF Removing, HasRow
  <2> QED
    BY <1>1, <2>2, <2>4, <2>5, <2>6, PartsKeep
<1> QED
  BY <1>2, <1>4, <1>5
\* The row goes; that of another process that is after it has met the cleaner.
LEMMA CleanRowKeeps == ASSUME FileInv, CleanRow PROVE FileInv'
<1>0. PICK t : t = first
  OBVIOUS
<1>1. /\ FileType /\ FileProgress /\ HoldsByKind /\ Removing /\ old \subseteq files
      /\ pc[Cleaner] = "row" /\ Uploaded(t) /\ t \in Uploads /\ t # NoRow /\ t \notin list /\ HasRow(t)
      /\ Holds(Cleaner) = {path[f] : f \in list \cup ({t} \ {NoRow})}
  BY <1>0, HoldsOf, FileAssumption
     DEF FileInv, CleanRow, FileType, FileProgress, Uploaded, Removing, HoldsByKind, NoRow
<1>2. /\ pc' = [pc EXCEPT ![Cleaner] = "unlink"]
      /\ files' = files \ {t} /\ old' = old \ {t} /\ first' = t
      /\ UNCHANGED <<user, disk, path, target, list, met, cut>>
  BY <1>0 DEF CleanRow, Goto
<1>3. /\ FileType' /\ FileProgress' /\ StepOf(Cleaner)
      /\ Holds(Cleaner)' = {path[f] : f \in list' \cup ({first'} \ {NoRow})}
      /\ pc'[Cleaner] = "unlink" /\ (\A y \in Processes \ {Cleaner} : pc'[y] = pc[y])
      /\ Cleaner \in Processes \ Uploads /\ Cleaner \notin Deletions
  <2>1. files' \subseteq files /\ old' \subseteq files'
    BY <1>1, <1>2
  <2>2. first' \in list \cup ({first} \ {NoRow}) /\ first' \notin list'
    BY <1>0, <1>1, <1>2
  <2> QED
    BY <1>2, <2>1, <2>2, CleanerSteps
<1>4. Holds(Cleaner)' = Holds(Cleaner) /\ path[t] \in Holds(Cleaner)
  BY <1>1, <1>2, <1>3
<1>5. \A v \in Uploads : Own(v)'
  BY <1>2, <1>3, RowsOwn DEF Processes
<1>6. Removing'
  <2>1. \A f \in files \ files' : f = t
    BY <1>2
  <2>2. \A y \in Processes \ {Cleaner} : path[t] \in Holds(y) => path[t] \in met
    BY <1>3, <1>4 DEF FileInv, FilesApart
  <2>3. files' \ files = {} /\ met' = met
    BY <1>2
  <2>4. \A e \in Deletions \ {Cleaner} : /\ pc'[e] = "row" => HasRow(target[e])'
                                         /\ pc'[e] = "unlink" => Rowless(target[e])'
    BY <1>3, <2>1, <2>2, <2>3, OthersRemove
  <2>5. Rowless(t)'
    <3> SUFFICES ASSUME path[t] \notin met, NEW g \in files', path[g] = path[t] PROVE FALSE
      BY <1>2 DEF Rowless
    <3>1. t \in files /\ g \in files /\ g # t
      BY <1>1, <1>2 DEF HasRow
    <3> QED
      BY <3>1, OneRow
  <2>6. Rowless(first)'
    BY <1>2, <2>5 DEF Rowless
  <2>7. \A f \in list' : HasRow(f)'
    BY <1>1, <1>2 DEF Removing, HasRow
  <2> QED
    BY <1>3, <2>4, <2>6, <2>7 DEF Removing
<1>7. \A p \in DOMAIN disk' \ (met' \cup cut') :
         \/ p \in DOMAIN disk /\ p \notin Holds(Cleaner) /\ \A f \in files : path[f] = p => f \in files'
         \/ p \in Holds(Cleaner)'
  BY <1>2, <1>4
<1> QED
  BY <1>3, <1>4, <1>5, <1>6, <1>7, PartsKeep

LEMMA CleanPathKeeps == ASSUME FileInv, CleanPath PROVE FileInv'
<1>0. PICK t : t = first
  OBVIOUS
<1>1. /\ FileType /\ FileProgress /\ HoldsByKind /\ Removing /\ old \subseteq files
      /\ pc[Cleaner] = "unlink" /\ t \in Uploads /\ t # NoRow /\ Rowless(t)
      /\ Holds(Cleaner) = {path[f] : f \in list \cup ({t} \ {NoRow})}
  BY <1>0, HoldsOf, FileAssumption
     DEF FileInv, CleanPath, FileType, FileProgress, Uploaded, Removing, HoldsByKind, NoRow
<1>2. /\ pc' = [pc EXCEPT ![Cleaner] = "next"] /\ disk' = Unlinked({path[t]}) /\ first' = NoRow
      /\ UNCHANGED <<user, files, old, path, target, list, met, cut>>
  BY <1>0 DEF CleanPath, Goto
<1>3. OnlyAt(path[t]) /\ DOMAIN disk' = DOMAIN disk \ {path[t]}
  BY <1>2 DEF OnlyAt, Unlinked
<1>4. /\ FileType' /\ FileProgress' /\ StepOf(Cleaner)
      /\ Holds(Cleaner)' = {path[f] : f \in list' \cup ({first'} \ {NoRow})}
      /\ pc'[Cleaner] = "next" /\ (\A y \in Processes \ {Cleaner} : pc'[y] = pc[y])
      /\ Cleaner \in Processes \ Uploads /\ Cleaner \notin Deletions
  <2>1. DOMAIN disk' \subseteq DOMAIN disk
    BY <1>3
  <2> QED
    BY <1>1, <1>2, <2>1, CleanerSteps
<1>5. Holds(Cleaner)' = {path[f] : f \in list} /\ path[t] \in Holds(Cleaner)
  BY <1>1, <1>2, <1>4
<1>6. \A v \in Uploads : Own(v)'
  <2>1. path[t] \in met \/ (\A f \in files : path[f] # path[t])
    BY <1>1 DEF Rowless
  <2>2. \A v \in Uploads : pc'[v] = pc[v]
    BY <1>4 DEF Processes
  <2> QED
    BY <1>2, <1>3, <1>4, <1>5, <2>1, <2>2, RemovalOwn
<1>7. Removing'
  <2>1. files' \ files = {} /\ files \ files' = {}
    BY <1>2
  <2>2. \A f \in list' : HasRow(f)'
    BY <1>1, <1>2 DEF Removing, HasRow
  <2> QED
    BY <1>2, <1>4, <2>1, <2>2, OthersRemove DEF Removing
<1>8. \A p \in DOMAIN disk' \ (met' \cup cut') :
         (p \in DOMAIN disk /\ p \notin Holds(Cleaner)) \/ p \in Holds(Cleaner)'
  BY <1>1, <1>3, <1>5
<1>9. Holds(Cleaner)' \subseteq Holds(Cleaner) /\ files' = files
  BY <1>1, <1>2, <1>5
<1> QED
  BY <1>4, <1>6, <1>7, <1>8, <1>9, PartsKeep

-----------------------------------------------------------------------------
(* The deletion of the user.                                                 *)

LEMMA UserSteps ==
    ASSUME FileInv, NEW to \in {"rmtree", "done"}, pc' = [pc EXCEPT ![UserDelete] = to],
           files' = {}, old' = {}, user' = FALSE, DOMAIN disk' \subseteq DOMAIN disk,
           UNCHANGED <<path, target, list, first>>, met \subseteq met', cut \subseteq cut'
    PROVE  /\ FileType' /\ FileProgress' /\ StepOf(UserDelete)
           /\ Holds(UserDelete)' = IF to = "rmtree" THEN Paths ELSE {}
           /\ pc'[UserDelete] = to /\ \A y \in Processes \ {UserDelete} : pc'[y] = pc[y]
           /\ UserDelete \in Processes \ Uploads /\ UserDelete \notin Deletions /\ UserDelete # Cleaner
<1>0. /\ FileType /\ FileProgress /\ UserDelete \in Processes /\ UserDelete \notin Uploads \cup Deletions
      /\ Cleaner # UserDelete
  BY FileAssumption DEF FileInv, Processes
<1>1. pc'[UserDelete] = to /\ (\A y \in Processes \ {UserDelete} : pc'[y] = pc[y])
  BY <1>0 DEF FileType
<1>2. (\A u \in Uploads \cup Deletions : pc'[u] = pc[u]) /\ pc'[Cleaner] = pc[Cleaner]
  BY <1>0, <1>1 DEF Processes
<1>3. FileType'
  BY <1>0, <1>1, <1>2 DEF FileType
<1>4. FileProgress'
  <2>1. \A f : Uploaded(f) => Uploaded(f)'
    BY <1>2 DEF Uploaded
  <2> QED
    BY <1>0, <1>1, <1>2, <2>1 DEF FileProgress
<1>5. StepOf(UserDelete)
  BY <1>0, <1>1 DEF StepOf
<1>6. Holds(UserDelete)' = IF to = "rmtree" THEN Paths ELSE {}
  <2>1. HoldsByKind'
    BY <1>3, HoldsOf, PTL
  <2> QED
    BY <1>1, <2>1 DEF HoldsByKind
<1> QED
  BY <1>0, <1>1, <1>3, <1>4, <1>5, <1>6

LEMMA DeleteUserKeeps == ASSUME FileInv, DeleteUser PROVE FileInv'
<1>1. /\ user /\ pc' = [pc EXCEPT ![UserDelete] = "rmtree"] /\ Meet(UserDelete, Paths)
      /\ files' = {} /\ old' = {} /\ user' = FALSE
      /\ UNCHANGED <<disk, path, target, list, first, cut>> /\ met \subseteq met'
  BY DEF DeleteUser, Goto, cleaning, Meet
<1>0. FileType /\ FileProgress /\ HoldsByKind /\ Holds(UserDelete) = {}
  BY <1>1, HoldsOf DEF FileInv, FileProgress, HoldsByKind
<1>2. /\ FileType' /\ FileProgress' /\ StepOf(UserDelete) /\ Holds(UserDelete)' = Paths
      /\ pc'[UserDelete] = "rmtree" /\ (\A y \in Processes \ {UserDelete} : pc'[y] = pc[y])
      /\ UserDelete \in Processes \ Uploads /\ UserDelete \notin Deletions /\ UserDelete # Cleaner
  BY <1>1, UserSteps
<1>3. \A y \in Processes \ {UserDelete} : Holds(y)' = Holds(y)
  BY <1>0, <1>2, OthersHold
<1>4. FilesApart'
  BY <1>1, <1>2, <1>3, MeetKeeps DEF FileInv
<1>5. \A v \in Uploads : Own(v)'
  BY <1>1, <1>2, RowsOwn DEF Processes
<1>6. Removing'
  <2>1. \A f \in files : \A y \in Processes \ {UserDelete} : path[f] \in Holds(y) => path[f] \in met'
    <3>1. \A f \in files : path[f] \in Paths
      BY <1>0 DEF FileProgress, Uploaded
    <3>2. \A y \in Processes \ {UserDelete} : Holds(y) \subseteq HeldBut(UserDelete)
      BY DEF HeldBut
    <3>3. Paths \cap HeldBut(UserDelete) \subseteq met'
      BY <1>1 DEF Meet
    <3> QED
      BY <3>1, <3>2, <3>3
  <2>2. files' \ files = {} /\ target' = target
    BY <1>1
  <2> QED
    BY <1>2, <2>1, <2>2, OthersRemove DEF Removing
<1>7. OrphansWereCutShort'
  <2>1. DOMAIN disk \subseteq Paths
    BY <1>0 DEF FileProgress
  <2> QED
    BY <1>0, <1>1, <1>2, <1>3, <2>1, OrphansKeep DEF FileInv
<1> QED
  BY <1>2, <1>4, <1>5, <1>6, <1>7 DEF FileInv

LEMMA DirectoryKeeps == ASSUME FileInv, DeleteDirectory PROVE FileInv'
<1>1. /\ pc[UserDelete] = "rmtree" /\ pc' = [pc EXCEPT ![UserDelete] = "done"] /\ disk' = Unlinked(Paths)
      /\ UNCHANGED <<user, files, old, path, target, list, first, met, cut>>
  BY DEF DeleteDirectory, Goto, cleaning
<1>0. /\ FileType /\ FileProgress /\ HoldsByKind /\ Holds(UserDelete) = Paths
      /\ files = {} /\ old = {} /\ user = FALSE
  BY <1>1, HoldsOf DEF FileInv, FileType, FileProgress, HoldsByKind
<1>2. DOMAIN disk' = {}
  BY <1>0, <1>1 DEF Unlinked, FileProgress
<1>3. /\ FileType' /\ FileProgress' /\ StepOf(UserDelete) /\ Holds(UserDelete)' = {}
      /\ pc'[UserDelete] = "done" /\ (\A y \in Processes \ {UserDelete} : pc'[y] = pc[y])
      /\ UserDelete \in Processes \ Uploads /\ UserDelete \notin Deletions /\ UserDelete # Cleaner
  BY <1>0, <1>1, <1>2, UserSteps
<1>4. \A v \in Uploads : Own(v)'
  <2> SUFFICES ASSUME NEW v \in Uploads, pc[v] \in {"write", "insert"}, path[v] \notin met PROVE FALSE
    BY <1>0, <1>1, <1>2, <1>3 DEF Own, Exists, Processes
  <2>1. Holds(v) = {path[v]} /\ path[v] \in Paths
    BY <1>0 DEF HoldsByKind, Uploading, FileProgress
  <2> QED
    BY <1>0, <1>3, <2>1 DEF FileInv, FilesApart, Processes
<1>5. Removing'
  <2>1. files' \ files = {} /\ files \ files' = {} /\ target' = target
    BY <1>1
  <2> QED
    BY <1>3, <2>1, OthersRemove DEF Removing
<1> QED
  BY <1>2, <1>3, <1>4, <1>5, PartsKeep

-----------------------------------------------------------------------------
LEMMA FileInvInit == FileInit => FileInv
<1> SUFFICES ASSUME FileInit PROVE FileInv
  OBVIOUS
<1>1. FileType /\ FileProgress
  BY FileAssumption DEF FileInit, FileType, FileProgress, Processes, Ended, Uploading
<1>2. \A x \in Processes : Holds(x) = {}
  BY DEF FileInit, Holds
<1>3. FilesApart /\ Removing /\ OrphansWereCutShort /\ \A u \in Uploads : Own(u)
  BY <1>2 DEF FileInit, FilesApart, Removing, OrphansWereCutShort, Own, Processes
<1> QED
  BY <1>1, <1>3 DEF FileInv

LEMMA FileInvStep == FileInv /\ [FileNext]_fileVars => FileInv'
<1> SUFFICES ASSUME FileInv, [FileNext]_fileVars PROVE FileInv'
  OBVIOUS
<1>1. ASSUME NEW u \in Uploads,
             \/ ChoosePath(u) \/ Open(u) \/ Write(u) \/ TooLarge(u) \/ InsertRow(u) \/ UploadFails(u)
             \/ DayPasses(u)
      PROVE  FileInv'
  BY <1>1, ChooseKeeps, UploadStepsKeep, InsertRowKeeps, FailKeeps, DayKeeps
<1>2. ASSUME NEW d \in Deletions,
             (\E f \in Uploads : DeleteFile(d, f)) \/ DeleteRow(d) \/ Unlink(d) \/ DeletionFails(d)
      PROVE  FileInv'
  BY <1>2, DeleteFileKeeps, DeleteRowKeeps, UnlinkKeeps
<1>3. CASE CleanPass \/ CleanFails
  BY <1>3, CleanKeeps, CleanerGoesOn, CleanRowKeeps, CleanPathKeeps DEF CleanPass
<1>4. CASE DeleteUser \/ DeleteDirectory
  BY <1>4, DeleteUserKeeps, DirectoryKeeps
<1>5. CASE UNCHANGED fileVars
  <2>1. \A x : Holds(x)' = Holds(x)
    BY <1>5 DEF fileVars, cleaning, Holds
  <2> QED
    BY <1>5, <2>1
       DEF fileVars, cleaning, FileInv, FileType, FileProgress, Uploaded, FilesApart, Own, Has, Exists,
           Removing, HasRow, Rowless, OrphansWereCutShort
<1> QED
  BY <1>1, <1>2, <1>3, <1>4, <1>5 DEF FileNext

LEMMA FileInvariant == FileSpec => []FileInv
BY FileInvInit, FileInvStep, PTL DEF FileSpec

\* Whatever uploads, deletions, the cleaner and the deletion of the user do, and
\* wherever they fail: a row has its own whole file, unless two of them met on its path.
THEOREM RowKeepsItsFile == FileSpec => []RowHasItsFile
<1>1. FileInv => RowHasItsFile
  BY DEF FileInv, FileType, RowHasItsFile, Own, Has
<1> QED
  BY <1>1, FileInvariant, PTL

\* What stays on disk with no row is where a process was cut short, or met another.
THEOREM OrphansExplained == FileSpec => []OrphansWereCutShort
<1>1. FileInv => OrphansWereCutShort
  BY DEF FileInv
<1> QED
  BY <1>1, FileInvariant, PTL
=============================================================================
