\* Two reminders, of every kind, and two stops of the loop.
SPECIFICATION Spec
CONSTANTS
  MaxReminders = 3
  MaxStops = 2
  Absent = Absent
  NoReminder = NoReminder
INVARIANT TypeOK
PROPERTIES
  AlertsAreInOrder
  DueRemindersAreSent
CHECK_DEADLOCK FALSE
