---------------------------------- MODULE Bot ----------------------------------
(***************************************************************************)
(* TelegramBotService towards its users: the loop that polls Telegram for  *)
(* updates and handles them, the dialogue that a user is in, and stops and *)
(* starts of both.                                                         *)
(*                                                                         *)
(* A handler is cut into what happens between two of its awaits: a button  *)
(* is answered first, then has its effect, and is replied to; a text has   *)
(* its effect at once.  There is one user, with one file.  What handlers   *)
(* do to reminders is in module Reminders.                                 *)
(***************************************************************************)
EXTENDS Integers, Sequences

CONSTANTS
  MaxUpdates, \* bound on what the user sends,
  MaxStops,   \* and on how often the bot is stopped
  NoUpdate

ASSUME BotAssumption == MaxUpdates \in Nat /\ MaxStops \in Nat

UpdateIds == 1 .. MaxUpdates

VARIABLES
  inbox,     \* what the user has sent, in order
  confirmed, \* how many of these Telegram has forgotten
  offset,    \* offset of _poll_loop
  batch,     \* what the last getUpdates brought and is still to be handled
  handler,   \* the update that _handle_update is at, and the await it is in
  dialogue,  \* _user_state of the user
  file,      \* the user's file: here, or gone
  running,   \* the loop runs
  stops,     \* how often it was stopped
  ended,     \* history: the updates whose handler came to an end
  talk       \* history: how often the bot asked for a text, and took one

telegramVars == <<inbox, confirmed>>
pollVars == <<offset, batch, handler>>
talkVars == <<dialogue, file, talk>>
loopVars == <<running, stops>>
vars == <<telegramVars, pollVars, talkVars, loopVars, ended>>

-------------------------------------------------------------------------------
\* rename, note, task: the buttons that open a dialogue (note stands also for
\* daily, and task for an occasion).  menu: any button that leaves the dialogue
\* alone, such as the one named cancel under the prompts for a note and a task.
Prompts == {"rename", "note", "task"}
Buttons == Prompts \union {"cancel_rename", "menu", "delete_file"}
Texts == {"/cancel", "words"}
Updates == Buttons \union Texts

ASSUME SentinelAssumption == NoUpdate \notin UpdateIds

Larger(a, b) == IF a > b THEN a ELSE b

NoHandler == [update |-> NoUpdate, phase |-> "idle"]
Idle == handler = NoHandler

Init ==
  /\ inbox = <<>>
  /\ confirmed = 0
  /\ offset = 0
  /\ batch = {}
  /\ handler = NoHandler
  /\ dialogue = "none"
  /\ file = "here"
  /\ running = TRUE
  /\ stops = 0
  /\ ended = {}
  /\ talk = [asked |-> 0, taken |-> 0]

-------------------------------------------------------------------------------
\* What the handlers do between one await and the next.

\* The buttons of _handle_callback that open a dialogue.
OpenDialogue(u) ==
  /\ u \in Prompts
  /\ IF u = "rename" /\ file = "gone" THEN UNCHANGED talkVars
     ELSE /\ dialogue' = u
          /\ talk' = [talk EXCEPT !.asked = @ + 1]
          /\ UNCHANGED file

\* The other buttons; only one of them ends a dialogue.
PressOther(u) ==
  \/ u = "menu" /\ UNCHANGED talkVars
  \/ u = "cancel_rename" /\ dialogue' = "none" /\ UNCHANGED <<file, talk>>
  \/ u = "delete_file" /\ file' = "gone" /\ UNCHANGED <<dialogue, talk>>

Took == talk' = [talk EXCEPT !.taken = @ + 1]

\* _handle_rename_input: a name that is refused leaves the dialogue open.
TakeName(u) ==
  /\ dialogue = "rename"
  /\ UNCHANGED file
  /\ \/ (u = "/cancel" \/ file = "gone") /\ dialogue' = "none" /\ UNCHANGED talk
     \/ u # "/cancel" /\ file = "here" /\ dialogue' = "none" /\ Took
     \/ u # "/cancel" /\ file = "here" /\ UNCHANGED <<dialogue, talk>>

\* Mutant: the dialogue stays open after its text.
TakeTextAgain(u) ==
  /\ dialogue \in {"note", "task"}
  /\ UNCHANGED <<dialogue, file>>
  /\ IF u = "/cancel" THEN UNCHANGED talk ELSE Took

\* _handle_interactive_text_input: the text becomes a note or a reminder.
TakeText(u) ==
  /\ dialogue \in {"note", "task"}
  /\ dialogue' = "none"
  /\ UNCHANGED file
  /\ IF u = "/cancel" THEN UNCHANGED talk ELSE Took

\* _handle_message: outside of a dialogue a text is a command or a search.
OnText(u) ==
  \/ TakeName(u)
  \/ TakeText(u)
  \/ dialogue = "none" /\ UNCHANGED talkVars

OnButton(u) == OpenDialogue(u) \/ PressOther(u)

-------------------------------------------------------------------------------
\* The user.
Write(u) ==
  /\ Len(inbox) < MaxUpdates
  /\ inbox' = Append(inbox, u)
  /\ UNCHANGED <<confirmed, pollVars, talkVars, loopVars, ended>>

\* getUpdates: Telegram forgets what is below offset, and answers with the
\* rest, unless its answer is lost, a conflict, or an error.
Poll ==
  /\ running /\ Idle /\ batch = {}
  /\ confirmed' = Larger(confirmed, offset - 1)
  /\ batch' \in {{}, confirmed' + 1 .. Len(inbox)}
  /\ UNCHANGED <<inbox, offset, handler, talkVars, loopVars, ended>>

OffsetPast(u) == Larger(offset, u + 1)

\* _poll_loop handles the updates one by one; the offset moves past each before
\* it is handled.
TakeUp(u) ==
  /\ running /\ Idle
  /\ \A v \in batch : u <= v
  /\ batch' = batch \ {u}
  /\ offset' = OffsetPast(u)
  /\ UNCHANGED <<telegramVars, loopVars, ended>>

\* _handle_message
HandleText ==
  \E u \in batch :
    /\ TakeUp(u)
    /\ inbox[u] \in Texts
    /\ OnText(inbox[u])
    /\ handler' = [update |-> u, phase |-> "reply"]

\* _handle_callback, up to answerCallbackQuery
HandleButton ==
  \E u \in batch :
    /\ TakeUp(u)
    /\ inbox[u] \in Buttons
    /\ handler' = [update |-> u, phase |-> "answer"]
    /\ UNCHANGED talkVars

\* The button was answered, and has its effect.
Press ==
  /\ handler.phase = "answer"
  /\ OnButton(inbox[handler.update])
  /\ handler' = [handler EXCEPT !.phase = "reply"]
  /\ UNCHANGED <<telegramVars, offset, batch, loopVars, ended>>

\* answerCallbackQuery raises, and the button has no effect; or the replies are
\* sent, or not.  Whatever is raised is logged and the loop goes on.
EndHandler ==
  /\ handler.phase \in {"answer", "reply"}
  /\ handler' = NoHandler
  /\ ended' = ended \union {handler.update}
  /\ UNCHANGED <<telegramVars, offset, batch, talkVars, loopVars>>

\* Mutant: the offset outlives the loop.
OffsetKept == offset

\* Mutant: the loop begins at the latest update.
OffsetLatest == -1

OffsetAtStart == 0

\* stop cancels the loop wherever it is.  A crash of the process does the same
\* and loses the dialogue; the repository has saved the effects.
Stop ==
  /\ running /\ stops < MaxStops
  /\ running' = FALSE
  /\ stops' = stops + 1
  /\ offset' = OffsetAtStart
  /\ batch' = {}
  /\ handler' = NoHandler
  /\ dialogue' \in {dialogue, "none"}
  /\ UNCHANGED <<telegramVars, file, talk, ended>>

\* start
Start ==
  /\ ~running
  /\ running' = TRUE
  /\ UNCHANGED <<telegramVars, pollVars, talkVars, stops, ended>>

Next ==
  \/ \E u \in Updates : Write(u)
  \/ Poll \/ HandleText \/ HandleButton \/ Press \/ EndHandler
  \/ Stop \/ Start

\* A stopped bot is started again; a request to Telegram ends in an answer or in
\* a timeout; and of the getUpdates, which the loop repeats, some are answered.
Fairness ==
  /\ SF_vars(Poll /\ batch' # {})
  /\ WF_vars(HandleText \/ HandleButton)
  /\ WF_vars(EndHandler)
  /\ WF_vars(Start)

Spec == Init /\ [][Next]_vars /\ Fairness

-------------------------------------------------------------------------------
\* Properties.

TypeOK ==
  /\ inbox \in Seq(Updates) /\ Len(inbox) <= MaxUpdates
  /\ confirmed \in 0 .. MaxUpdates
  /\ offset \in 0 .. MaxUpdates + 1
  /\ batch \subseteq UpdateIds
  /\ handler \in [update : UpdateIds, phase : {"answer", "reply"}] \union {NoHandler}
  /\ dialogue \in Prompts \union {"none"}
  /\ file \in {"here", "gone"}
  /\ running \in BOOLEAN
  /\ stops \in 0 .. MaxStops
  /\ ended \subseteq UpdateIds
  /\ talk \in [asked : Nat, taken : Nat]

\* Telegram is told to forget an update only when its handler has come to an
\* end: whenever the bot is stopped, what it was at is delivered again.
ForgottenUpdatesWereHandled == 1 .. confirmed \subseteq ended

\* Every text that becomes a name, a note or a task was asked for by one prompt
\* of its own, although prompts replace one another, their cancel buttons leave
\* them open, names are refused, and updates come twice.
TextsWereAskedFor ==
  talk.taken + (IF dialogue = "none" THEN 0 ELSE 1) <= talk.asked

\* What the user sends is handled, whatever fails and however often the bot is
\* stopped and started.
UpdatesAreHandled ==
  \A u \in UpdateIds : (u <= Len(inbox)) ~> (u \in ended)
===============================================================================
