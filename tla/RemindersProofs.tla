---------------------------- MODULE RemindersProofs ----------------------------
(***************************************************************************)
(* What Reminders promises for any number of reminders and of stops.       *)
(*                                                                         *)
(* An alert is in order for every reminder that was not yet marked as      *)
(* notified, but for the one that has just been sent (Unsent); and for all *)
(* that the loop still holds a copy of (Held), for as long as it holds it. *)
(***************************************************************************)
EXTENDS Reminders, TLAPS

Unsent ==
  \A r \in Ids \ repeating :
    (/\ Here(r) /\ ~reminders[r].notified
     /\ sending # [reminder |-> r, reached |-> TRUE])
      => r \in owed

Held == round \ repeating \subseteq owed

IInv == TypeOK /\ Unsent /\ Held

-------------------------------------------------------------------------------
LEMMA InitInv == Init => IInv
<1> SUFFICES ASSUME Init PROVE IInv
  OBVIOUS
<1>1. TypeOK
  <2>1. reminders \in [Ids -> Reminder \union {Absent}]
    BY DEF Init
  <2>2. 0 \in 0 .. MaxReminders /\ 0 \in 0 .. MaxStops
    BY RemindersAssumption
  <2> QED  BY <2>1, <2>2 DEF Init, TypeOK
<1>2. Unsent
  BY DEF Init, Unsent, Here
<1>3. Held
  BY DEF Init, Held
<1> QED  BY <1>1, <1>2, <1>3 DEF IInv

-------------------------------------------------------------------------------
\* What is under way is nothing or an alert of some reminder, and the two differ.
LEMMA SilenceIsNoAlert ==
  \A r \in Ids : Silence # [reminder |-> r, reached |-> TRUE]
BY SentinelAssumption DEF Silence

\* A change of one reminder keeps the table's type.
LEMMA ChangedReminder ==
  ASSUME TypeOK, NEW r \in Ids, NEW v \in Reminder \union {Absent}
  PROVE  [reminders EXCEPT ![r] = v] \in [Ids -> Reminder \union {Absent}]
BY DEF TypeOK

LEMMA PresentReminder ==
  ASSUME TypeOK, NEW r \in Ids, Here(r) PROVE reminders[r] \in Reminder
BY DEF TypeOK, Here

LEMMA CreateKeepsInv ==
  ASSUME IInv, NEW repeats \in BOOLEAN, Created(repeats), linked' \in BOOLEAN,
         UNCHANGED loopVars
  PROVE  IInv'
<1>1. made + 1 \in Ids /\ made + 1 \in 0 .. MaxReminders
  BY RemindersAssumption DEF IInv, TypeOK, Created, Ids
<1>2. TypeOK'
  BY <1>1 DEF IInv, TypeOK, Created, loopVars, Reminder
<1>3. Unsent'
  BY <1>1 DEF IInv, TypeOK, Unsent, Created, Here, loopVars
<1>4. Held'
  BY DEF IInv, Held, Created, loopVars
<1> QED  BY <1>2, <1>3, <1>4 DEF IInv

LEMMA UsersKeepInv ==
  ASSUME IInv, NEW r \in Ids,
         \/ BecomeDue(r) \/ Toggle(r) \/ Delete(r)
         \/ \E due \in BOOLEAN : Snooze(r, due)
  PROVE  IInv'
<1> USE DEF IInv
<1>1. CASE Delete(r)
  <2>1. TypeOK'  BY <1>1 DEF TypeOK, Delete, loopVars
  <2>2. Unsent'  BY <1>1 DEF TypeOK, Unsent, Delete, Here, loopVars
  <2>3. Held'    BY <1>1 DEF Held, Delete, loopVars
  <2> QED  BY <2>1, <2>2, <2>3
<1>2. CASE BecomeDue(r) \/ Toggle(r)
  <2>1. reminders[r] \in Reminder
    BY <1>2, PresentReminder DEF BecomeDue, Toggle
  <2>2. PICK v \in Reminder :
          reminders' = [reminders EXCEPT ![r] = v] /\ v.notified = reminders[r].notified
    <3>1. CASE BecomeDue(r)
      <4>1. [reminders[r] EXCEPT !.due = TRUE] \in Reminder
        BY <2>1 DEF Reminder
      <4>2. [reminders[r] EXCEPT !.due = TRUE].notified = reminders[r].notified
        BY <2>1 DEF Reminder
      <4> QED  BY <3>1, <4>1, <4>2 DEF BecomeDue
    <3>2. CASE Toggle(r)
      <4>1. [reminders[r] EXCEPT !.done = ~@] \in Reminder
        BY <2>1 DEF Reminder
      <4>2. [reminders[r] EXCEPT !.done = ~@].notified = reminders[r].notified
        BY <2>1 DEF Reminder
      <4> QED  BY <3>2, <4>1, <4>2 DEF Toggle
    <3> QED  BY <1>2, <3>1, <3>2
  <2>3. UNCHANGED <<repeating, made, linked, loopVars, owed>>
    BY <1>2 DEF BecomeDue, Toggle
  <2>4. TypeOK'  BY <2>2, <2>3 DEF TypeOK, loopVars
  <2>5. Unsent'
    <3> SUFFICES ASSUME NEW s \in Ids \ repeating, Here(s)', ~reminders'[s].notified,
                        sending # [reminder |-> s, reached |-> TRUE]
                 PROVE  s \in owed
      BY <2>3 DEF Unsent, loopVars
    <3>1. Here(s) /\ ~reminders[s].notified
      BY <1>2, <2>2 DEF TypeOK, Here, BecomeDue, Toggle
    <3> QED  BY <3>1 DEF Unsent
  <2>6. Held'    BY <2>3 DEF Held, loopVars
  <2> QED  BY <2>4, <2>5, <2>6
<1>3. CASE \E due \in BOOLEAN : Snooze(r, due)
  <2> PICK due \in BOOLEAN : Snooze(r, due)
    BY <1>3
  <2>1. reminders[r] \in Reminder
    BY PresentReminder DEF Snooze
  <2> DEFINE v == [reminders[r] EXCEPT !.due = due, !.notified = FALSE]
  <2>2. v \in Reminder
    BY <2>1 DEF Reminder
  <2>3. reminders' = [reminders EXCEPT ![r] = v]
    BY <2>1 DEF Snooze, Reminder
  <2> HIDE DEF v
  <2>4. TypeOK'
    <3>1. UNCHANGED <<repeating, made, linked, round, sending, running, stops>>
          /\ owed' = owed \union {r}
      BY DEF Snooze, loopVars
    <3> QED  BY <2>2, <2>3, <3>1 DEF TypeOK
  <2>5. Unsent'  BY <2>2, <2>3 DEF TypeOK, Unsent, Snooze, Here, loopVars
  <2>6. Held'    BY DEF Held, Snooze, loopVars
  <2> QED  BY <2>4, <2>5, <2>6
<1> QED  BY <1>1, <1>2, <1>3

-------------------------------------------------------------------------------
LEMMA ListKeepsInv == ASSUME IInv, List PROVE IInv'
<1> USE DEF IInv
<1>1. TypeOK'  BY DEF TypeOK, List, repoVars
<1>2. Unsent'  BY DEF Unsent, List, Here, repoVars
<1>3. Held'
  BY SilenceIsNoAlert DEF Unsent, Held, List, Due, Quiet, repoVars
<1> QED  BY <1>1, <1>2, <1>3

LEMMA PassOverKeepsInv == ASSUME IInv, PassOver PROVE IInv'
<1> USE DEF IInv
<1>1. TypeOK'  BY DEF TypeOK, PassOver, repoVars
<1>2. Unsent'  BY DEF Unsent, PassOver, Here, repoVars
<1>3. Held'    BY DEF Held, PassOver, repoVars
<1> QED  BY <1>1, <1>2, <1>3

LEMMA AlertKeepsInv == ASSUME IInv, Alert PROVE IInv'
<1> USE DEF IInv
<1>1. PICK first \in Ids, reached \in BOOLEAN :
        /\ sending' = [reminder |-> first, reached |-> reached]
        /\ owed' = IF reached THEN owed \ {first} ELSE owed
        /\ round' = round \ {first}
  BY DEF Alert
<1>2. UNCHANGED <<repoVars, linked, running, stops>> /\ sending = Silence
  BY DEF Alert, Quiet
<1>3. TypeOK'
  BY <1>1, <1>2 DEF TypeOK, repoVars
<1>4. Unsent'
  BY <1>1, <1>2, SilenceIsNoAlert DEF Unsent, Here, repoVars
<1>5. Held'
  BY <1>1, <1>2 DEF Held, repoVars
<1> QED  BY <1>3, <1>4, <1>5

LEMMA AnsweredKeepsInv == ASSUME IInv, Answered PROVE IInv'
<1> DEFINE r == sending.reminder
<1> USE DEF IInv
<1>1. r \in Ids /\ sending \in [reminder : Ids, reached : BOOLEAN]
  BY DEF TypeOK, Answered, Quiet
<1>2. UNCHANGED <<repeating, made, linked, round, running, stops, owed>>
      /\ sending' = Silence
  BY DEF Answered
<1>3. CASE r \in repeating \/ ~Here(r)
  <2>1. UNCHANGED reminders
    BY <1>1, <1>3 DEF Answered, Notified, Here, TypeOK
  <2>2. TypeOK'  BY <1>2, <2>1 DEF TypeOK
  <2>3. Unsent'
    BY <1>1, <1>2, <1>3, <2>1 DEF Unsent, Here
  <2>4. Held'    BY <1>2 DEF Held
  <2> QED  BY <2>2, <2>3, <2>4
<1>4. CASE r \notin repeating /\ Here(r)
  <2>1. reminders[r] \in Reminder
    BY <1>1, <1>4, PresentReminder
  <2>2. reminders' = [reminders EXCEPT ![r] = [reminders[r] EXCEPT !.notified = TRUE]]
    BY <1>1, <1>4, <2>1 DEF Answered, Notified, Here, TypeOK
  <2>3. [reminders[r] EXCEPT !.notified = TRUE] \in Reminder
        /\ [reminders[r] EXCEPT !.notified = TRUE].notified
    BY <2>1 DEF Reminder
  <2>4. TypeOK'  BY <1>1, <1>2, <2>2, <2>3 DEF TypeOK
  <2>5. Unsent'
    <3> SUFFICES ASSUME NEW s \in Ids \ repeating, Here(s)', ~reminders'[s].notified
                 PROVE  s \in owed
      BY <1>2 DEF Unsent
    <3>1. s # r
      BY <1>1, <2>2, <2>3 DEF TypeOK
    <3>2. reminders'[s] = reminders[s]
      BY <2>2, <3>1 DEF TypeOK
    <3>3. sending # [reminder |-> s, reached |-> TRUE]
      BY <3>1
    <3> QED  BY <3>2, <3>3 DEF Unsent, Here
  <2>6. Held'    BY <1>2 DEF Held
  <2> QED  BY <2>4, <2>5, <2>6
<1> QED  BY <1>3, <1>4

\* The alert is given up: what has arrived is owed again.
LEMMA GivingUpKeepsInv ==
  ASSUME IInv, sending' = Silence, Excused, round' \subseteq round,
         UNCHANGED <<repoVars, linked>>, running' \in BOOLEAN, stops' \in 0 .. MaxStops
  PROVE  IInv'
<1> USE DEF IInv
<1>1. sending.reached => sending.reminder \in Ids
  BY DEF TypeOK, Silence
<1>2. TypeOK'
  BY <1>1 DEF TypeOK, Excused, repoVars
<1>3. Unsent'
  <2> SUFFICES ASSUME NEW s \in Ids \ repeating, Here(s), ~reminders[s].notified
               PROVE  s \in owed'
    BY DEF Unsent, Here, repoVars
  <2>1. CASE sending = [reminder |-> s, reached |-> TRUE]
    BY <2>1 DEF Excused
  <2>2. CASE sending # [reminder |-> s, reached |-> TRUE]
    BY <2>2 DEF Excused, Unsent
  <2> QED  BY <2>1, <2>2
<1>4. Held'
  BY DEF Held, Excused, repoVars
<1> QED  BY <1>2, <1>3, <1>4

-------------------------------------------------------------------------------
LEMMA NextInv == ASSUME IInv, [Next]_vars PROVE IInv'
<1>1. ASSUME NEW repeats \in BOOLEAN, WebCreate(repeats) PROVE IInv'
  BY <1>1, CreateKeepsInv DEF WebCreate, IInv, TypeOK
<1>2. CASE Remind
  BY <1>2, CreateKeepsInv DEF Remind
<1>3. ASSUME NEW r \in Ids,
             \/ BecomeDue(r) \/ Toggle(r) \/ WebSnooze(r) \/ Delete(r)
             \/ PressUnderAlert(r)
      PROVE  IInv'
  BY <1>3, UsersKeepInv DEF WebSnooze, PressUnderAlert
<1>4. CASE Link
  BY <1>4 DEF Link, IInv, TypeOK, Unsent, Held, Here, repoVars, loopVars
<1>5. CASE Failed
  BY <1>5, GivingUpKeepsInv DEF Failed, RestOfRound, IInv, TypeOK
<1>6. CASE Stop
  <2>1. stops' \in 0 .. MaxStops
    BY <1>6, RemindersAssumption DEF Stop, IInv, TypeOK
  <2> QED  BY <1>6, <2>1, GivingUpKeepsInv DEF Stop
<1>7. CASE Start
  BY <1>7 DEF Start, IInv, TypeOK, Unsent, Held, Here, repoVars
<1>8. CASE UNCHANGED vars
  BY <1>8 DEF vars, IInv, TypeOK, Unsent, Held, Here, repoVars, loopVars
<1> QED
  BY <1>1, <1>2, <1>3, <1>4, <1>5, <1>6, <1>7, <1>8, ListKeepsInv,
     PassOverKeepsInv, AlertKeepsInv, AnsweredKeepsInv DEF Next

LEMMA Invariant == Spec => []IInv
<1>1. IInv /\ [Next]_vars => IInv'
  BY NextInv
<1> QED  BY <1>1, InitInv, PTL DEF Spec

\* The reminders, the copies of them that the loop of _reminder_dispatcher_loop
\* goes through and the alert under way have their types in every behaviour.
THEOREM TypeCorrect == Spec => []TypeOK
<1>1. IInv => TypeOK
  BY DEF IInv
<1> QED  BY <1>1, Invariant, PTL

\* Whatever the users do to a reminder between list_due_reminders, the answer to
\* sendMessage and mark_reminder_notified, an alert of one that does not repeat
\* reaches the user only when one is in order.
THEOREM AlertsInOrder == Spec => AlertsAreInOrder
<1> DEFINE InOrder ==
      \A r \in Ids :
        (sending' # sending /\ sending' = [reminder |-> r, reached |-> TRUE]
           /\ r \notin repeating) => r \in owed
<1>1. IInv /\ [Next]_vars => [InOrder]_vars
  <2> SUFFICES ASSUME IInv, Next, NEW r \in Ids, sending' # sending,
                      sending' = [reminder |-> r, reached |-> TRUE], r \notin repeating
               PROVE  r \in owed
    OBVIOUS
  <2>1. Alert
    BY SilenceIsNoAlert
       DEF Next, WebCreate, Remind, BecomeDue, Toggle, WebSnooze, Snooze, Delete,
           PressUnderAlert, Link, List, PassOver, Answered, Failed, Stop, Start,
           loopVars
  <2>3. r \in round
    BY <2>1 DEF Alert, IsFirst
  <2> QED  BY <2>3 DEF IInv, Held
<1> QED  BY <1>1, Invariant, PTL DEF Spec, AlertsAreInOrder
===============================================================================
