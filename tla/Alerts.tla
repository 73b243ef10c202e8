------------------------------- MODULE Alerts -------------------------------
(***************************************************************************)
(* The two alerts of core/scheduler.py: administrators are mailed about    *)
(* low toner, and told by Telegram about low stock ("same debounce shape   *)
(* as check_toner_alerts_sync").  Each job keeps, in one app_config row,   *)
(* the time of the last alert of every subject that is low: one alert per  *)
(* episode, and again after an interval.                                   *)
(*                                                                         *)
(* A time is kept as its age in hours, up to Cap: a stamp that old is due  *)
(* under every interval.  So the clock has no bound.                       *)
(***************************************************************************)
EXTENDS Integers, FiniteSets

CONSTANTS Subjects,        \* printers with toner, or inventory items
          Intervals,       \* interval_hours an administrator may set
          StockInterval,   \* LOW_STOCK_ALERT_INTERVAL_HOURS, and the toner alert's default
          Cap,             \* the greatest age told apart
          MaxCuts          \* bound on failed commits, lost mails and restarts

ASSUME AlertAssumption ==
    /\ Intervals \subseteq Nat /\ Intervals # {}
    /\ StockInterval \in Intervals \ {0}
    /\ Cap \in Nat /\ \A i \in Intervals : i <= Cap
    /\ MaxCuts \in Nat

VARIABLES kind,        \* which of the two jobs this is: it never changes
          on,          \* there is somebody to tell; the toner alert is enabled
          interval,    \* interval_hours of the toner alert
          level,       \* what a reading of each subject would give
          saved,       \* last_notified in the saved state: its age, or Never
          step, todo,  \* the pass: its step and the printers to be read
          due,         \* subjects whose stamp is old enough in this pass
          seen,        \* subjects this pass found low
          started,     \* age of this pass's "now"
          prev,        \* history: what the last pass that saved found low
          mailed,      \* history: age of the last alert that was sent, or Never
          dropped,     \* history: subjects not low in a saved pass since then
          spaced,      \* history: subjects this pass may send an alert about
          cuts

config    == <<on, interval>>
pass      == <<step, todo, due, seen, spaced>>
ages      == <<saved, started, mailed>>
alertVars == <<kind, config, level, pass, ages, prev, dropped, cuts>>

\* "unreadable": CUPS gives no markers, or the printer is no row any more.
Readable == {"fine", "low"}
LevelsOf == IF kind = "toner" THEN Readable \cup {"unreadable"} ELSE Readable
Low      == {s \in Subjects : level[s] = "low"}

Never  == -1
Ages   == {Never} \cup 0 .. Cap
Older(age) == IF age = Never \/ age = Cap THEN age ELSE age + 1

\* interval_hours = max(1, ...), or the constant of the stock alert.
Spacing == IF kind = "stock" THEN StockInterval ELSE IF interval > 1 THEN interval ELSE 1
Due(stamps) == {s \in Subjects : stamps[s] = Never \/ stamps[s] >= Spacing}

AlertInit ==
    /\ kind \in {"toner", "stock"}
    /\ on = FALSE /\ interval = StockInterval
    /\ level = [s \in Subjects |-> "fine"]
    /\ saved = [s \in Subjects |-> Never]
    /\ step = "idle" /\ todo = {} /\ due = {} /\ seen = {} /\ started = Never
    /\ prev = {} /\ mailed = [s \in Subjects |-> Never] /\ dropped = {} /\ spaced = {}
    /\ cuts = 0

-----------------------------------------------------------------------------
(* A pass.                                                                   *)

\* Configuration, saved state, recipients and, of the stock alert, the low items
\* are read in one session; disabled, or with nobody to tell, the job leaves the
\* state as it is.
Start ==
    /\ step = "idle" /\ on
    /\ due' = Due(saved) /\ started' = 0
    /\ spaced' = Due(mailed) \cup dropped
    /\ \/ kind = "toner" /\ step' = "check" /\ todo' = Subjects /\ seen' = {}
       \/ kind = "stock" /\ step' = "save" /\ todo' = {} /\ seen' = Low
    /\ UNCHANGED <<kind, config, level, saved, prev, mailed, dropped, cuts>>

\* get_toner_levels, one printer after the other: one that cannot be read is left
\* out of the new state like one that is fine.
Check(s) ==
    /\ step = "check" /\ s \in todo
    /\ todo' = todo \ {s}
    /\ seen' = IF s \in Low THEN seen \cup {s} ELSE seen
    /\ step' = IF todo' = {} THEN "save" ELSE "check"
    /\ UNCHANGED <<kind, config, level, ages, due, prev, dropped, spaced, cuts>>

\* The pass ends: what it worked with is forgotten.
End ==
    /\ step' = "idle" /\ todo' = {} /\ due' = {} /\ seen' = {} /\ spaced' = {}
    /\ started' = Never

\* The alerts go out next, if there are any.
Announce ==
    /\ prev' = seen
    /\ dropped' = dropped \cup {s \in Subjects \ seen : mailed[s] # Never}
    /\ \/ seen \cap due = {} /\ End
       \/ /\ seen \cap due # {} /\ step' = "send"
          /\ UNCHANGED <<todo, due, seen, spaced, started>>
    /\ UNCHANGED <<kind, config, level, mailed, cuts>>

\* Mutant: the new state starts from the old one.
SaveOver ==
    /\ step = "save"
    /\ saved' = [s \in Subjects |-> IF s \in seen \cap due THEN started ELSE saved[s]]
    /\ Announce

\* Mutant: what was not due is not carried into the new state.
SaveDue ==
    /\ step = "save"
    /\ saved' = [s \in Subjects |-> IF s \in seen \cap due THEN started ELSE Never]
    /\ Announce

\* Mutant: the stamp of every low subject is renewed, alerted or not.
SaveNow ==
    /\ step = "save"
    /\ saved' = [s \in Subjects |-> IF s \in seen THEN started ELSE Never]
    /\ Announce

\* config_service.set: the whole state, before anything is sent.
Save ==
    /\ step = "save"
    /\ saved' = [s \in Subjects |-> IF s \notin seen THEN Never
                                    ELSE IF s \in due THEN started ELSE saved[s]]
    /\ Announce

\* send_toner_alert_email, or send_message to every chat.
Send ==
    /\ step = "send"
    /\ mailed' = [s \in Subjects |-> IF s \in seen \cap due THEN started ELSE mailed[s]]
    /\ dropped' = dropped \ (seen \cap due)
    /\ End
    /\ UNCHANGED <<kind, config, level, saved, prev, cuts>>

\* An exception, logged by the job, or a restart: a mail that was not sent is not
\* sent later either.
PassCutShort ==
    /\ step # "idle" /\ cuts < MaxCuts /\ cuts' = cuts + 1 /\ End
    /\ UNCHANGED <<kind, config, level, saved, mailed, prev, dropped>>

-----------------------------------------------------------------------------
(* What goes on around it.                                                   *)

\* An hour passes.
Tick ==
    /\ saved'   = [s \in Subjects |-> Older(saved[s])]
    /\ mailed'  = [s \in Subjects |-> Older(mailed[s])]
    /\ started' = Older(started)
    /\ UNCHANGED <<kind, config, level, pass, prev, dropped, cuts>>

\* PUT /settings/toner-alert.
Configure(enabled, hours) ==
    /\ kind = "toner"
    /\ on' = enabled /\ interval' = hours
    /\ UNCHANGED <<kind, level, pass, ages, prev, dropped, cuts>>

\* The last administrator to be told goes, or the first one comes.
RecipientsChange ==
    /\ on' = ~on
    /\ UNCHANGED <<kind, interval, level, pass, ages, prev, dropped, cuts>>

LevelChanges(s) ==
    /\ \E to \in LevelsOf \ {level[s]} : level' = [level EXCEPT ![s] = to]
    /\ UNCHANGED <<kind, config, pass, ages, prev, dropped, cuts>>

Pass == Start \/ (\E s \in Subjects : Check(s)) \/ Save \/ Send

AlertNext ==
    \/ Pass \/ PassCutShort \/ Tick
    \/ \E enabled \in BOOLEAN, hours \in Intervals : Configure(enabled, hours)
    \/ RecipientsChange
    \/ \E s \in Subjects : LevelChanges(s)

\* The job runs every minute, a pass goes on, and time passes.
AlertSpec == AlertInit /\ [][AlertNext]_alertVars /\ WF_alertVars(Pass) /\ WF_alertVars(Tick)

-----------------------------------------------------------------------------
\* Two alerts about a subject are never sent less than the interval apart, also
\* across restarts and failed mails, unless a saved pass between them did not
\* find the subject low: then this is another episode.
AlertsAreSpaced == step = "send" => seen \cap due \subseteq spaced

\* A subject that was not low when the last pass saved its state, and is now, is
\* alerted by the very pass that notices, however recent its last alert.
EpisodeAnnounced ==
    [][\A s \in prev' \ prev : step' = "send" /\ s \in seen' \cap due']_alertVars

\* A subject that stays low is reported again and again, although mails and
\* commits may fail: a lost alert is made up for when the interval is over.
LowIsReported ==
    \A s \in Subjects :
       <>[](level[s] = "low" /\ on) => []<><<step = "send" /\ s \in seen \cap due /\ mailed'[s] = started
                                  /\ step' = "idle" /\ cuts' = cuts>>_alertVars
=============================================================================
