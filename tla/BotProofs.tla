------------------------------- MODULE BotProofs -------------------------------
(***************************************************************************)
(* What Bot promises for any number of updates and of stops.               *)
(*                                                                         *)
(* The offset that the next getUpdates confirms is past no update but      *)
(* those whose handler came to an end and the one that is being handled    *)
(* (PassedUpdates); so is what lies before an update that is still to be   *)
(* handled, and there the rest of the batch may come too (WaitingUpdates). *)
(***************************************************************************)
EXTENDS Bot, TLAPS

PassedUpdates == \A u \in UpdateIds : u < offset => u \in ended \/ u = handler.update

WaitingUpdates ==
  \A b \in batch : \A u \in UpdateIds :
    u < b => u \in ended \/ u \in batch \/ u = handler.update

IInv ==
  /\ TypeOK
  /\ PassedUpdates
  /\ WaitingUpdates
  /\ ForgottenUpdatesWereHandled
  /\ TextsWereAskedFor

LEMMA InitInv == Init => IInv
<1> SUFFICES ASSUME Init PROVE IInv
  OBVIOUS
<1>1. TypeOK
  <2>1. 0 \in 0 .. MaxUpdates /\ 0 \in 0 .. MaxUpdates + 1 /\ 0 \in 0 .. MaxStops
    BY BotAssumption
  <2>2. <<>> \in Seq(Updates) /\ Len(<<>>) <= MaxUpdates
    BY BotAssumption
  <2> QED  BY <2>1, <2>2 DEF Init, TypeOK
<1>2. PassedUpdates /\ WaitingUpdates /\ ForgottenUpdatesWereHandled
  BY DEF Init, PassedUpdates, WaitingUpdates, ForgottenUpdatesWereHandled, UpdateIds
<1>3. TextsWereAskedFor
  BY DEF Init, TextsWereAskedFor
<1> QED  BY <1>1, <1>2, <1>3 DEF IInv

-------------------------------------------------------------------------------
\* The dialogue.

\* Whatever a handler does, the dialogue keeps its type and its account.
TalkOK ==
  /\ dialogue \in Prompts \union {"none"}
  /\ file \in {"here", "gone"}
  /\ talk \in [asked : Nat, taken : Nat]
  /\ TextsWereAskedFor

LEMMA TalkInSteps ==
  ASSUME TalkOK,
         \/ \E u \in Updates : OnText(u) \/ OnButton(u)
         \/ UNCHANGED talkVars
  PROVE  TalkOK'
<1>1. CASE UNCHANGED talkVars
  BY <1>1 DEF TalkOK, TextsWereAskedFor, talkVars
<1>2. ASSUME NEW u \in Updates, OpenDialogue(u) PROVE TalkOK'
  <2>1. CASE UNCHANGED talkVars
    BY <1>1, <2>1
  <2>2. CASE dialogue' = u /\ talk' = [talk EXCEPT !.asked = @ + 1] /\ UNCHANGED file
    <3>1. talk' = [asked |-> talk.asked + 1, taken |-> talk.taken]
      BY <2>2 DEF TalkOK
    <3>2. u # "none" /\ u \in Prompts
      BY <1>2 DEF OpenDialogue, Prompts
    <3> QED  BY <2>2, <3>1, <3>2 DEF TalkOK, TextsWereAskedFor
  <2> QED  BY <1>2, <2>1, <2>2 DEF OpenDialogue
<1>3. ASSUME NEW u \in Updates, PressOther(u) PROVE TalkOK'
  BY <1>3 DEF PressOther, TalkOK, TextsWereAskedFor, talkVars
<1>4. ASSUME NEW u \in Updates, TakeName(u) \/ TakeText(u) PROVE TalkOK'
  <2>1. dialogue # "none" /\ dialogue' \in {dialogue, "none"} /\ UNCHANGED file
    BY <1>4 DEF TakeName, TakeText, TalkOK
  <2>2. CASE UNCHANGED talk
    BY <2>1, <2>2 DEF TalkOK, TextsWereAskedFor
  <2>3. CASE Took /\ dialogue' = "none"
    <3>1. talk' = [asked |-> talk.asked, taken |-> talk.taken + 1]
      BY <2>3 DEF TalkOK, Took
    <3> QED  BY <2>1, <2>3, <3>1 DEF TalkOK, TextsWereAskedFor
  <2> QED  BY <1>4, <2>2, <2>3 DEF TakeName, TakeText
<1> QED
  BY <1>1, <1>2, <1>3, <1>4 DEF OnText, OnButton

-------------------------------------------------------------------------------
\* The updates.

LEMMA WriteKeepsInv ==
  ASSUME IInv, NEW u \in Updates, Write(u) PROVE IInv'
<1> USE DEF IInv
<1>1. inbox' \in Seq(Updates) /\ Len(inbox') <= MaxUpdates
  BY BotAssumption DEF TypeOK, Write
<1>2. TypeOK'
  BY <1>1 DEF TypeOK, Write, pollVars, talkVars, loopVars
<1>3. (PassedUpdates /\ WaitingUpdates /\ ForgottenUpdatesWereHandled)'
  BY DEF Write, PassedUpdates, WaitingUpdates, ForgottenUpdatesWereHandled, pollVars
<1>4. TextsWereAskedFor'
  BY DEF Write, TextsWereAskedFor, talkVars
<1> QED  BY <1>2, <1>3, <1>4

LEMMA Between ==
  ASSUME NEW c \in Nat, NEW last \in Nat, NEW b \in c + 1 .. last,
         NEW u \in Nat, u < b, u > c
  PROVE  u \in c + 1 .. last
OBVIOUS

LEMMA PollKeepsInv == ASSUME IInv, Poll PROVE IInv'
<1> USE DEF IInv
<1>1. /\ MaxUpdates \in Nat /\ confirmed \in Nat /\ offset \in Nat
      /\ confirmed <= MaxUpdates /\ offset <= MaxUpdates + 1
      /\ Len(inbox) \in Nat /\ Len(inbox) <= MaxUpdates
  <2>1. inbox \in Seq(Updates) /\ Len(inbox) <= MaxUpdates
    BY DEF TypeOK
  <2>2. Len(inbox) \in Nat
    BY <2>1
  <2> QED  BY <2>1, <2>2, BotAssumption DEF TypeOK
<1>2. confirmed' \in {confirmed, offset - 1} /\ confirmed' >= confirmed
  BY <1>1 DEF Poll, Larger
<1>3. confirmed' \in 0 .. MaxUpdates
  BY <1>2, <1>1
<1>4. batch' = {} \/ batch' = confirmed' + 1 .. Len(inbox)
  BY DEF Poll
<1>5. batch' \subseteq UpdateIds
  BY <1>3, <1>4, <1>1 DEF UpdateIds
<1>6. TypeOK'
  BY <1>3, <1>5 DEF TypeOK, Poll, talkVars, loopVars
<1>7. ForgottenUpdatesWereHandled'
  <2> SUFFICES ASSUME NEW u \in 1 .. confirmed' PROVE u \in ended
    BY DEF Poll, ForgottenUpdatesWereHandled
  <2>1. u \in UpdateIds
    BY <1>3, <1>1 DEF UpdateIds
  <2>2. CASE u <= confirmed
    BY <1>1, <1>3, <2>2 DEF ForgottenUpdatesWereHandled
  <2>3. CASE u < offset
    BY <2>1, <2>3, SentinelAssumption DEF PassedUpdates, Poll, Idle, NoHandler
  <2> QED  BY <1>2, <1>3, <1>1, <2>2, <2>3
<1>8. WaitingUpdates'
  <2> SUFFICES ASSUME NEW b \in batch', NEW u \in UpdateIds, u < b
               PROVE  u \in ended \/ u \in batch'
    BY DEF Poll, WaitingUpdates
  <2>1. batch' = confirmed' + 1 .. Len(inbox)
    BY <1>4
  <2>2. CASE u <= confirmed'
    BY <1>3, <1>7, <2>2 DEF ForgottenUpdatesWereHandled, UpdateIds, Poll
  <2>3. CASE u > confirmed'
    <3>1. u \in Nat /\ confirmed' \in Nat /\ Len(inbox) \in Nat
      BY <1>1, <1>3 DEF UpdateIds
    <3> QED  BY <2>1, <2>3, <3>1, Between
  <2> QED  BY <1>3, <2>2, <2>3 DEF UpdateIds
<1>9. PassedUpdates' /\ TextsWereAskedFor'
  BY DEF Poll, PassedUpdates, TextsWereAskedFor, talkVars
<1> QED  BY <1>6, <1>7, <1>8, <1>9

LEMMA TakeUpKeepsInv ==
  ASSUME IInv, NEW u \in batch, TakeUp(u), TalkOK', NEW phase \in {"answer", "reply"},
         handler' = [update |-> u, phase |-> phase]
  PROVE  IInv'
<1> USE DEF IInv
<1>1. u \in UpdateIds /\ u \in 1 .. MaxUpdates
  BY DEF TypeOK, UpdateIds
<1>2. offset' = offset \/ offset' = u + 1
  BY DEF TakeUp, OffsetPast, Larger
<1>3. handler.update = NoUpdate
  BY DEF TakeUp, Idle, NoHandler
<1>4. TypeOK'
  BY <1>1, <1>2, BotAssumption DEF TypeOK, TalkOK, TakeUp, telegramVars, loopVars
<1>5. ASSUME NEW v \in UpdateIds, v < u PROVE v \in ended
  BY <1>1, <1>3, <1>5, SentinelAssumption DEF WaitingUpdates, TakeUp, TypeOK, UpdateIds
<1>6. PassedUpdates'
  <2> SUFFICES ASSUME NEW v \in UpdateIds, v < offset'
               PROVE  v \in ended \/ v = u
    BY DEF TakeUp, PassedUpdates
  <2>1. CASE v < offset
    BY <1>3, <2>1, SentinelAssumption DEF PassedUpdates
  <2>2. CASE v < u + 1
    BY <1>1, <1>5, <2>2 DEF UpdateIds
  <2> QED  BY <1>2, <2>1, <2>2
<1>7. WaitingUpdates'
  BY <1>3, SentinelAssumption DEF WaitingUpdates, TakeUp
<1>8. ForgottenUpdatesWereHandled' /\ TextsWereAskedFor'
  BY DEF TakeUp, ForgottenUpdatesWereHandled, telegramVars, TalkOK
<1> QED  BY <1>4, <1>6, <1>7, <1>8

LEMMA HandlerKeepsInv == ASSUME IInv, Press \/ EndHandler PROVE IInv'
<1> USE DEF IInv
<1>1. handler.update \in UpdateIds /\ handler \in [update : UpdateIds, phase : {"answer", "reply"}]
  BY DEF Press, EndHandler, TypeOK, NoHandler
<1>2. CASE Press
  <2>1. TalkOK'
    <3>1. TalkOK
      BY DEF TypeOK, TalkOK
    <3>2. inbox[handler.update] \in Updates \/ UNCHANGED talkVars
      BY <1>2 DEF Press, OnButton, OpenDialogue, PressOther, Updates, Buttons, Prompts
    <3> QED  BY <1>2, <3>1, <3>2, TalkInSteps DEF Press
  <2>2. handler' = [update |-> handler.update, phase |-> "reply"]
    BY <1>1, <1>2 DEF Press
  <2>3. TypeOK'
    BY <1>1, <1>2, <2>1, <2>2 DEF Press, TypeOK, TalkOK, telegramVars, loopVars
  <2>4. (PassedUpdates /\ WaitingUpdates /\ ForgottenUpdatesWereHandled)'
    BY <1>2, <2>2
       DEF Press, PassedUpdates, WaitingUpdates, ForgottenUpdatesWereHandled, telegramVars
  <2> QED  BY <2>1, <2>3, <2>4 DEF TalkOK
<1>3. CASE EndHandler
  <2>1. ended' = ended \union {handler.update} /\ handler' = NoHandler
    BY <1>3 DEF EndHandler
  <2>2. TypeOK'
    BY <1>1, <1>3, <2>1 DEF EndHandler, TypeOK, telegramVars, loopVars, talkVars
  <2>3. (PassedUpdates /\ WaitingUpdates /\ ForgottenUpdatesWereHandled)'
    BY <1>3, <2>1
       DEF EndHandler, PassedUpdates, WaitingUpdates, ForgottenUpdatesWereHandled,
           telegramVars
  <2>4. TextsWereAskedFor'
    BY <1>3 DEF EndHandler, TextsWereAskedFor, talkVars
  <2> QED  BY <2>2, <2>3, <2>4
<1> QED  BY <1>2, <1>3

LEMMA StopKeepsInv == ASSUME IInv, Stop PROVE IInv'
<1> USE DEF IInv
<1>1. offset' = 0 /\ offset' \in 0 .. MaxUpdates + 1
  BY BotAssumption DEF Stop, OffsetAtStart
<1>2. TypeOK'
  <2>1. stops' \in 0 .. MaxStops
    BY BotAssumption DEF Stop, TypeOK
  <2>2. UNCHANGED <<inbox, confirmed, file, talk, ended>> /\ ~running'
        /\ dialogue' \in Prompts \union {"none"}
    BY DEF Stop, TypeOK, telegramVars
  <2> QED  BY <1>1, <2>1, <2>2 DEF Stop, TypeOK
<1>3. PassedUpdates'
  BY <1>1 DEF PassedUpdates, UpdateIds
<1>4. WaitingUpdates'
  BY DEF Stop, WaitingUpdates
<1>5. ForgottenUpdatesWereHandled'
  BY DEF Stop, ForgottenUpdatesWereHandled, telegramVars
<1>6. TextsWereAskedFor'
  BY DEF Stop, TextsWereAskedFor, TypeOK
<1> QED  BY <1>2, <1>3, <1>4, <1>5, <1>6

-------------------------------------------------------------------------------
LEMMA NextInv == ASSUME IInv, [Next]_vars PROVE IInv'
<1>1. TalkOK
  BY DEF IInv, TypeOK, TalkOK
<1>2. CASE \E u \in Updates : Write(u)
  BY <1>2, WriteKeepsInv
<1>3. CASE Poll
  BY <1>3, PollKeepsInv
<1>4. CASE HandleText
  <2>1. PICK u \in batch :
          /\ TakeUp(u) /\ inbox[u] \in Texts /\ OnText(inbox[u])
          /\ handler' = [update |-> u, phase |-> "reply"]
    BY <1>4 DEF HandleText
  <2>2. TalkOK'
    BY <1>1, <2>1, TalkInSteps DEF Updates
  <2> QED  BY <2>1, <2>2, TakeUpKeepsInv
<1>5. CASE HandleButton
  <2>1. PICK u \in batch :
          /\ TakeUp(u) /\ handler' = [update |-> u, phase |-> "answer"]
          /\ UNCHANGED talkVars
    BY <1>5 DEF HandleButton
  <2>2. TalkOK'
    BY <1>1, <2>1, TalkInSteps
  <2> QED  BY <2>1, <2>2, TakeUpKeepsInv
<1>6. CASE Start
  BY <1>6
     DEF Start, IInv, TypeOK, PassedUpdates, WaitingUpdates, ForgottenUpdatesWereHandled,
         TextsWereAskedFor, telegramVars, pollVars, talkVars
<1>7. CASE UNCHANGED vars
  BY <1>7
     DEF vars, IInv, TypeOK, PassedUpdates, WaitingUpdates, ForgottenUpdatesWereHandled,
         TextsWereAskedFor, telegramVars, pollVars, talkVars, loopVars
<1> QED
  BY <1>2, <1>3, <1>4, <1>5, <1>6, <1>7, HandlerKeepsInv, StopKeepsInv DEF Next

LEMMA Invariant == Spec => []IInv
<1>1. IInv /\ [Next]_vars => IInv'
  BY NextInv
<1> QED  BY <1>1, InitInv, PTL DEF Spec

\* The inbox, the state of _poll_loop, the handler that it awaits and the user's
\* dialogue have their types in every behaviour.
THEOREM TypeCorrect == Spec => []TypeOK
<1>1. IInv => TypeOK
  BY DEF IInv
<1> QED  BY <1>1, Invariant, PTL

\* The offset of _poll_loop, which passes an update before it is handled, lets
\* Telegram forget none whose handler did not come to an end, wherever stop
\* cancels the loop.
THEOREM NothingIsForgotten == Spec => []ForgottenUpdatesWereHandled
<1>1. IInv => ForgottenUpdatesWereHandled
  BY DEF IInv
<1> QED  BY <1>1, Invariant, PTL

\* However prompts, cancellations, refusals and repeated updates follow on one
\* another, _user_state never takes more texts than the bot asked for.
THEOREM DialoguesAreAskedFor == Spec => []TextsWereAskedFor
<1>1. IInv => TextsWereAskedFor
  BY DEF IInv
<1> QED  BY <1>1, Invariant, PTL
===============================================================================
