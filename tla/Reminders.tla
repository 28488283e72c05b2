------------------------------- MODULE Reminders -------------------------------
(***************************************************************************)
(* Reminders and the loop of TelegramBotService that alerts users to them, *)
(* while the web and the buttons under earlier alerts change, snooze and   *)
(* delete what the loop is at.                                             *)
(*                                                                         *)
(* The clock is reduced to whether a reminder is due.  The repository      *)
(* saves every change below, so that a crash is a stop of the loop.        *)
(***************************************************************************)
EXTENDS Integers

CONSTANTS
  MaxReminders, \* bound on the reminders that are made,
  MaxStops,     \* and on how often the loop is stopped
  Absent, NoReminder

ASSUME RemindersAssumption == MaxReminders \in Nat /\ MaxStops \in Nat

Ids == 1 .. MaxReminders

VARIABLES
  reminders, \* repo.reminders, in the order in which they were made
  repeating, \* those that repeat
  made,      \* how many were made
  linked,    \* some account has a telegram_user_id
  round,     \* the due items, copies, that the loop has still to go through
  sending,   \* the alert that is under way, and whether it has reached the user
  running,   \* the loop runs
  stops,     \* how often it was stopped
  owed       \* history: the reminders of which another alert is in order

repoVars == <<reminders, repeating, made>>
loopVars == <<round, sending, running, stops>>
vars == <<repoVars, linked, loopVars, owed>>

Reminder == [due : BOOLEAN, done : BOOLEAN, notified : BOOLEAN]

ASSUME SentinelAssumption == Absent \notin Reminder /\ NoReminder \notin Ids

\* The one item of the round that is taken next.
IsFirst(r) == r \in round /\ \A s \in round : r <= s

Silence == [reminder |-> NoReminder, reached |-> FALSE]
Quiet == sending = Silence

Init ==
  /\ reminders = [r \in Ids |-> Absent]
  /\ repeating = {}
  /\ made = 0
  /\ linked = FALSE
  /\ round = {}
  /\ sending = Silence
  /\ running = TRUE
  /\ stops = 0
  /\ owed = {}

-------------------------------------------------------------------------------
\* The repository.

Here(r) == reminders[r] # Absent

\* create_reminder
Created(repeats) ==
  /\ made < MaxReminders
  /\ made' = made + 1
  /\ reminders' = [reminders EXCEPT ![made + 1] =
       [due |-> FALSE, done |-> FALSE, notified |-> FALSE]]
  /\ repeating' = IF repeats THEN repeating \union {made + 1} ELSE repeating
  /\ owed' = owed \union {made + 1}

\* toggle_reminder
Toggle(r) ==
  /\ Here(r)
  /\ reminders' = [reminders EXCEPT ![r].done = ~@]
  /\ UNCHANGED <<repeating, made, linked, loopVars, owed>>

\* snooze_reminder
Snooze(r, due) ==
  /\ Here(r)
  /\ reminders' = [reminders EXCEPT ![r].due = due, ![r].notified = FALSE]
  /\ owed' = owed \union {r}
  /\ UNCHANGED <<repeating, made, linked, loopVars>>

\* delete_reminder
Delete(r) ==
  /\ Here(r)
  /\ reminders' = [reminders EXCEPT ![r] = Absent]
  /\ UNCHANGED <<repeating, made, linked, loopVars, owed>>

\* The time of a reminder comes.
BecomeDue(r) ==
  /\ Here(r) /\ ~reminders[r].due
  /\ reminders' = [reminders EXCEPT ![r].due = TRUE]
  /\ UNCHANGED <<repeating, made, linked, loopVars, owed>>

-------------------------------------------------------------------------------
\* The users.

\* The route of reminders_routes.py, for a reminder with a date or a timer.
WebCreate(repeats) == Created(repeats) /\ UNCHANGED <<linked, loopVars>>

\* /remind, a text that was asked for, or a timer button: the bot makes reminders
\* that do not repeat, and finds an account for the chat first.
Remind == Created(FALSE) /\ linked' = TRUE /\ UNCHANGED loopVars

\* The route takes any number of minutes: with none the reminder is due at once.
WebSnooze(r) == \E due \in BOOLEAN : Snooze(r, due)

\* The buttons under an alert
PressUnderAlert(r) == linked /\ (Toggle(r) \/ Snooze(r, FALSE) \/ Delete(r))

\* Any other contact with the bot: an account gets a telegram_user_id.
Link ==
  /\ ~linked
  /\ linked' = TRUE
  /\ UNCHANGED <<repoVars, loopVars, owed>>

-------------------------------------------------------------------------------
\* _reminder_dispatcher_loop and _dispatch_reminder_alert

\* list_due_reminders
Due(r) ==
  Here(r) /\ ~reminders[r].done /\ ~reminders[r].notified /\ reminders[r].due

List ==
  /\ running /\ Quiet /\ round = {}
  /\ round' = {r \in Ids : Due(r)}
  /\ UNCHANGED <<repoVars, linked, sending, running, stops, owed>>

\* An item goes to its own chat, that of its owner, or that of any account with
\* one; as long as nobody has a chat it is passed over.
PassOver ==
  /\ Quiet /\ ~linked
  /\ \E r \in Ids : IsFirst(r) /\ round' = round \ {r}
  /\ UNCHANGED <<repoVars, linked, sending, running, stops, owed>>

\* sendMessage, with whatever the item was when it was listed; the message
\* reaches the user or not.
Alert ==
  /\ Quiet /\ linked
  /\ \E r \in Ids, reached \in BOOLEAN :
       /\ IsFirst(r)
       /\ round' = round \ {r}
       /\ sending' = [reminder |-> r, reached |-> reached]
       /\ owed' = IF reached THEN owed \ {r} ELSE owed
  /\ UNCHANGED <<repoVars, linked, running, stops>>

\* Mutant: the copy is marked, and not the reminder.
NotifiedCopy(r) == reminders

\* Mutant: a reminder that was deleted meanwhile comes back as a stub.
NotifiedStub(r) ==
  [reminders EXCEPT ![r] =
     IF @ = Absent THEN [notified |-> TRUE] ELSE [@ EXCEPT !.notified = TRUE]]

\* mark_reminder_notified
Notified(r) ==
  [reminders EXCEPT ![r] =
     IF @ = Absent THEN Absent ELSE [@ EXCEPT !.notified = TRUE]]

\* Telegram answers, be it with an error.  For a repeating reminder the date
\* moves on in the copy, and the reminder stays as it is.
Answered ==
  /\ ~Quiet
  /\ sending' = Silence
  /\ reminders' = IF sending.reminder \in repeating THEN reminders
                  ELSE Notified(sending.reminder)
  /\ UNCHANGED <<repeating, made, linked, round, running, stops, owed>>

\* An alert that has arrived, and was not seen to arrive, will come once more.
Excused ==
  owed' = IF sending.reached THEN owed \union {sending.reminder} ELSE owed

\* Mutant: a request that fails ends the round.
RestOfRoundNone == {}

RestOfRound == round

\* The request fails; the next item is taken.
Failed ==
  /\ ~Quiet
  /\ sending' = Silence
  /\ round' = RestOfRound
  /\ Excused
  /\ UNCHANGED <<repoVars, linked, running, stops>>

\* stop
Stop ==
  /\ running /\ stops < MaxStops
  /\ running' = FALSE
  /\ stops' = stops + 1
  /\ round' = {}
  /\ sending' = Silence
  /\ Excused
  /\ UNCHANGED <<repoVars, linked>>

\* start
Start ==
  /\ ~running
  /\ running' = TRUE
  /\ UNCHANGED <<repoVars, linked, round, sending, stops, owed>>

Next ==
  \/ \E repeats \in BOOLEAN : WebCreate(repeats)
  \/ Remind
  \/ \E r \in Ids :
       \/ BecomeDue(r)
       \/ Toggle(r) \/ WebSnooze(r) \/ Delete(r)
       \/ PressUnderAlert(r)
  \/ Link
  \/ List \/ PassOver \/ Alert \/ Answered \/ Failed
  \/ Stop \/ Start

\* The loop looks every 15 seconds; a request ends in an answer or a timeout;
\* and a bot that was stopped is started again.
Fairness ==
  /\ WF_vars(List)
  /\ WF_vars(PassOver \/ Alert)
  /\ WF_vars(Answered \/ Failed)
  /\ WF_vars(Start)

Spec == Init /\ [][Next]_vars /\ Fairness

-------------------------------------------------------------------------------
\* Properties.

TypeOK ==
  /\ reminders \in [Ids -> Reminder \union {Absent}]
  /\ repeating \subseteq Ids
  /\ made \in 0 .. MaxReminders
  /\ linked \in BOOLEAN /\ running \in BOOLEAN
  /\ round \subseteq Ids
  /\ sending \in [reminder : Ids, reached : BOOLEAN] \union {Silence}
  /\ stops \in 0 .. MaxStops
  /\ owed \subseteq Ids

\* A reminder that does not repeat reaches the user once for each time that it
\* was created or snoozed, whoever snoozes, toggles or deletes it while the loop
\* holds a copy; once more only if the loop could not know that it had.
AlertsAreInOrder ==
  [][\A r \in Ids :
       (sending' # sending /\ sending' = [reminder |-> r, reached |-> TRUE]
          /\ r \notin repeating) => r \in owed]_vars

\* A due reminder is sent once there is a chat, unless the user changes it
\* before: no other item, which may repeat for ever or fail for ever, keeps it
\* from that.
DueRemindersAreSent ==
  \A r \in Ids : (Due(r) /\ linked) ~> (sending.reminder = r \/ ~Due(r))
===============================================================================
