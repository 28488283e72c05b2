---------------------------- MODULE RefreshTokens ----------------------------
(***************************************************************************)
(* Refresh tokens: AuthService issues, rotates and revokes them in the     *)
(* repository's table refresh_tokens, which lives in memory only.          *)
(*                                                                         *)
(* No handler suspends between its reads and its writes, so each is one    *)
(* step.  Its reply may be lost on the way to the device, which then       *)
(* presents its old token again; two devices can come to hold one token,   *)
(* as when one is set up from a copy of the other.                         *)
(*                                                                         *)
(* A family is named by its first token.  No code suspends an account, so  *)
(* that every account is active.                                           *)
(***************************************************************************)
EXTENDS Integers, FiniteSets

CONSTANTS
  Devices,
  RefreshTTL, \* jwt_refresh_ttl_seconds
  AccessTTL,  \* and jwt_access_ttl_seconds, in ticks
  MaxTokens,  \* bound on the refresh tokens issued
  MaxNow,     \* and on the clock
  NoRow

ASSUME TokenAssumption ==
  /\ RefreshTTL \in Nat
  /\ AccessTTL \in Nat
  /\ MaxTokens \in Nat
  /\ MaxNow \in Nat

Ids == 1 .. MaxTokens
Nothing == 0
Never == -1

VARIABLES
  rows,    \* repo.refresh_tokens, by token
  issued,  \* how many tokens were issued
  access,  \* the access tokens handed out: their families and last instants
  held,    \* the refresh token each device would present
  doubt,   \* devices that lost a reply, share a token or were logged out
  ended,   \* when each family was revoked or forgotten (history)
  now

vars == <<rows, issued, access, held, doubt, ended, now>>

-------------------------------------------------------------------------------
Row == [family : Ids, expires : Nat, used : BOOLEAN, revoked : BOOLEAN,
        replaced_by : Ids \union {Nothing}]

ASSUME SentinelAssumption == NoRow \notin Row

NewRow(f) == [family |-> f, expires |-> now + RefreshTTL, used |-> FALSE,
              revoked |-> FALSE, replaced_by |-> Nothing]

Exists(t) == rows[t] # NoRow
Family(f) == {t \in Ids : Exists(t) /\ rows[t].family = f}

\* Mutant: the lifetime is taken off.
AccessBackdated(f) == [family |-> f, until |-> now - AccessTTL]

\* _make_access_token: a signed token, checked without a look at the table.
Access(f) == [family |-> f, until |-> now + AccessTTL]

Init ==
  /\ rows = [t \in Ids |-> NoRow]
  /\ issued = 0
  /\ access = {}
  /\ held = [d \in Devices |-> Nothing]
  /\ doubt = {}
  /\ ended = [f \in Ids |-> Never]
  /\ now = 0

\* The reply with token t reaches device d, or is lost.
Reply(d, t, lost) ==
  held' = IF lost THEN held ELSE [held EXCEPT ![d] = t]

-------------------------------------------------------------------------------
\* register, login and the Mini App login: _issue_tokens founds a family.
Login(d, lost) ==
  /\ issued < MaxTokens
  /\ rows' = [rows EXCEPT ![issued + 1] = NewRow(issued + 1)]
  /\ issued' = issued + 1
  /\ access' = access \union {Access(issued + 1)}
  /\ Reply(d, issued + 1, lost)
  /\ doubt' = IF lost THEN doubt ELSE doubt \ {d}
  /\ UNCHANGED <<ended, now>>

\* What refresh tests, in its order, before it looks at used_at.
Accepted(t) ==
  /\ Exists(t)
  /\ ~rows[t].revoked
  /\ now <= rows[t].expires

\* Mutant: the successor is stored and the token itself left as it was.
RotatedKeepingOld(t) ==
  [rows EXCEPT ![issued + 1] = NewRow(rows[t].family)]

\* rotate_refresh_token
Rotated(t) ==
  [rows EXCEPT ![t].used = TRUE, ![t].replaced_by = issued + 1,
               ![issued + 1] = NewRow(rows[t].family)]

Refresh(d, lost) ==
  LET t == held[d] IN
  /\ t # Nothing
  /\ Accepted(t) /\ ~rows[t].used
  /\ issued < MaxTokens
  /\ rows' = Rotated(t)
  /\ issued' = issued + 1
  /\ access' = access \union {Access(rows[t].family)}
  /\ Reply(d, issued + 1, lost)
  /\ doubt' = IF lost THEN doubt \union {d} ELSE doubt
  /\ UNCHANGED <<ended, now>>

\* Mutant: the token presented is revoked, and its relatives are not.
RevokedAlone(t) == [rows EXCEPT ![t].revoked = TRUE]

\* Mutant: every family of the account is revoked.
RevokedForAll(t) ==
  [i \in Ids |-> IF Exists(i) THEN [rows[i] EXCEPT !.revoked = TRUE] ELSE NoRow]

\* revoke_token_family, of the family of t
Revoked(t) ==
  [i \in Ids |-> IF i \in Family(rows[t].family)
                   THEN [rows[i] EXCEPT !.revoked = TRUE] ELSE rows[i]]

End(f) == ended' = [ended EXCEPT ![f] = IF @ = Never THEN now ELSE @]

\* A token that was rotated away comes back while it would still be good.
Reuse(d) ==
  LET t == held[d] IN
  /\ t # Nothing
  /\ Accepted(t) /\ rows[t].used
  /\ rows' = Revoked(t)
  /\ End(rows[t].family)
  /\ UNCHANGED <<issued, access, held, doubt, now>>

\* logout revokes the family of any token it knows, and the device forgets it.
Logout(d) ==
  LET t == held[d] IN
  /\ t # Nothing
  /\ IF Exists(t) THEN rows' = Revoked(t) /\ End(rows[t].family)
                  ELSE UNCHANGED <<rows, ended>>
  /\ held' = [held EXCEPT ![d] = Nothing]
  /\ UNCHANGED <<issued, access, doubt, now>>

-------------------------------------------------------------------------------
\* Around the service.

\* Device e is set up with what device d holds.
Share(d, e) ==
  /\ d # e /\ held[d] # Nothing
  /\ held' = [held EXCEPT ![e] = held[d]]
  /\ doubt' = doubt \union {d, e}
  /\ UNCHANGED <<rows, issued, access, ended, now>>

\* The server restarts: refresh_tokens is not in the snapshot.
Restart ==
  /\ rows' = [t \in Ids |-> NoRow]
  /\ ended' = [f \in Ids |-> IF Family(f) # {} /\ ended[f] = Never
                               THEN now ELSE ended[f]]
  /\ doubt' = Devices
  /\ UNCHANGED <<issued, access, held, now>>

Tick ==
  /\ now < MaxNow
  /\ now' = now + 1
  /\ UNCHANGED <<rows, issued, access, held, doubt, ended>>

Next ==
  \/ \E d \in Devices, lost \in BOOLEAN : Login(d, lost) \/ Refresh(d, lost)
  \/ \E d \in Devices : Reuse(d) \/ Logout(d)
  \/ \E d, e \in Devices : Share(d, e)
  \/ Restart
  \/ Tick

Spec == Init /\ [][Next]_vars

-------------------------------------------------------------------------------
\* Properties.

TypeOK ==
  /\ rows \in [Ids -> Row \union {NoRow}]
  /\ issued \in 0 .. MaxTokens
  /\ access \subseteq [family : Ids, until : Nat]
  /\ held \in [Devices -> 0 .. MaxTokens]
  /\ doubt \subseteq Devices
  /\ ended \in [Ids -> 0 .. MaxNow \union {Never}]
  /\ now \in 0 .. MaxNow

\* A family is one chain: whoever presents which of its tokens in whatever
\* order, only the newest one is unused, and each other one leads to a later one.
FamiliesAreChains ==
  \A t, u \in Ids :
    (Exists(t) /\ Exists(u) /\ rows[t].family = rows[u].family /\ t < u) =>
      /\ rows[t].used
      /\ rows[t].replaced_by \in (t + 1) .. u

\* Once a family was revoked, by a logout or a reuse, or forgotten in a restart,
\* none of its tokens is good any more, also not the one a parallel refresh
\* stored, and the last access token it gave dies within AccessTTL of the end.
EndedFamiliesAreDead ==
  \A f \in Ids :
    ended[f] # Never =>
      /\ \A t \in Family(f) : rows[t].revoked
      /\ \A a \in access : a.family = f => a.until <= ended[f] + AccessTTL

\* A device that got every reply and shares its token with nobody is not logged
\* out by what others lose, present twice or revoke: only time or a restart ends
\* its session.
CarefulDevicesStayIn ==
  \A d \in Devices \ doubt :
    held[d] # Nothing => /\ Exists(held[d])
                         /\ ~rows[held[d]].used
                         /\ ~rows[held[d]].revoked
===============================================================================
