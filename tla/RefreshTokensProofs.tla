-------------------------- MODULE RefreshTokensProofs --------------------------
(***************************************************************************)
(* What RefreshTokens promises, for every number of devices and tokens and *)
(* every lifetime.                                                         *)
(*                                                                         *)
(* Three facts make the properties inductive.  Tokens, families and access *)
(* tokens are only about what was issued (History); the unused token of a  *)
(* family is therefore its newest, and a new family meets no old one.  An  *)
(* access token never outlives the present by more than AccessTTL, which   *)
(* bounds it when its family ends.  And a careful device shares its family *)
(* with no other (Alone), although a device in doubt may hold any token.   *)
(***************************************************************************)
EXTENDS RefreshTokens, TLAPS

History ==
  /\ \A t \in Ids : Exists(t) => t <= issued /\ rows[t].family <= t
  /\ \A a \in access : a.family <= issued /\ a.until <= now + AccessTTL
  /\ \A f \in Ids : ended[f] # Never => f <= issued
  /\ \A d \in Devices : held[d] <= issued

Alone ==
  \A d \in Devices \ doubt, e \in Devices :
    (d # e /\ held[d] # Nothing /\ held[e] # Nothing /\ Exists(held[e]))
      => rows[held[e]].family # rows[held[d]].family

\* The types come first, and with them everything else is one invariant.
IInv == /\ TypeOK
        /\ History
        /\ FamiliesAreChains
        /\ EndedFamiliesAreDead
        /\ Alone
        /\ CarefulDevicesStayIn

-------------------------------------------------------------------------------
LEMMA InitInv == Init => IInv
<1> SUFFICES ASSUME Init PROVE IInv
  OBVIOUS
<1> USE TokenAssumption
<1>1. TypeOK
  BY DEF Init, TypeOK, Ids, Nothing, Never
<1>2. \A t \in Ids : ~Exists(t)
  BY DEF Init, Exists
<1>3. History
  BY <1>2 DEF Init, History, Ids, Nothing, Never
<1>4. FamiliesAreChains /\ EndedFamiliesAreDead
  BY <1>2 DEF Init, FamiliesAreChains, EndedFamiliesAreDead, Never
<1>5. Alone /\ CarefulDevicesStayIn
  BY DEF Init, Alone, CarefulDevicesStayIn
<1> QED  BY <1>1, <1>3, <1>4, <1>5 DEF IInv

\* A row that was just made is a row, of the age of the moment.
LEMMA NewRowType ==
  ASSUME NEW f \in Ids, now \in 0 .. MaxNow
  PROVE  /\ NewRow(f) \in Row /\ NewRow(f) # NoRow
         /\ NewRow(f).family = f /\ ~NewRow(f).used /\ ~NewRow(f).revoked
<1>1. NewRow(f) \in Row
  BY TokenAssumption DEF NewRow, Row, Nothing
<1> QED  BY <1>1, SentinelAssumption DEF NewRow

\* Revoking a family touches its rows and only their revoked_at.
LEMMA RevokedType ==
  ASSUME TypeOK, NEW t \in Ids, Exists(t), rows' = Revoked(t)
  PROVE  /\ rows' \in [Ids -> Row \union {NoRow}]
         /\ \A u \in Ids :
              /\ Exists(u)' <=> Exists(u)
              /\ Exists(u) => /\ rows'[u].family = rows[u].family
                              /\ rows'[u].used = rows[u].used
                              /\ rows'[u].replaced_by = rows[u].replaced_by
                              /\ rows'[u].revoked <=>
                                   (rows[u].revoked \/ rows[u].family = rows[t].family)
<1>1. ASSUME NEW u \in Ids, u \in Family(rows[t].family)
      PROVE  /\ rows[u] \in Row
             /\ [rows[u] EXCEPT !.revoked = TRUE] \in Row
             /\ rows'[u] = [rows[u] EXCEPT !.revoked = TRUE]
  BY <1>1 DEF TypeOK, Family, Exists, Row, Revoked
<1>2. ASSUME NEW u \in Ids, u \notin Family(rows[t].family)
      PROVE  rows'[u] = rows[u]
  BY <1>2 DEF Revoked
<1>3. rows' \in [Ids -> Row \union {NoRow}]
  BY <1>1, <1>2 DEF TypeOK, Revoked
<1>4. ASSUME NEW u \in Ids
      PROVE  /\ Exists(u)' <=> Exists(u)
             /\ Exists(u) => /\ rows'[u].family = rows[u].family
                             /\ rows'[u].used = rows[u].used
                             /\ rows'[u].replaced_by = rows[u].replaced_by
                             /\ rows'[u].revoked <=>
                                  (rows[u].revoked \/ rows[u].family = rows[t].family)
  <2>1. CASE u \in Family(rows[t].family)
    <3>1. rows'[u] \in Row /\ rows[u] \in Row /\ Exists(u)
      BY <1>1, <2>1 DEF Family
    <3>2. rows[u].family = rows[t].family
      BY <2>1 DEF Family
    <3> QED  BY <1>1, <2>1, <3>1, <3>2, SentinelAssumption DEF Exists, Row
  <2>2. CASE u \notin Family(rows[t].family)
    BY <1>2, <2>2 DEF Family, Exists
  <2> QED  BY <2>1, <2>2
<1> QED  BY <1>3, <1>4

\* A rotation marks the token, adds its successor and leaves the rest alone.
LEMMA RotatedType ==
  ASSUME TypeOK, NEW t \in Ids, Exists(t), t <= issued, issued < MaxTokens,
         rows' = Rotated(t)
  PROVE  /\ rows' \in [Ids -> Row \union {NoRow}]
         /\ rows'[issued + 1] = NewRow(rows[t].family)
         /\ \A u \in Ids \ {issued + 1} :
              /\ Exists(u)' <=> Exists(u)
              /\ Exists(u) => /\ rows'[u].family = rows[u].family
                              /\ rows'[u].revoked = rows[u].revoked
              /\ u # t => rows'[u] = rows[u]
         /\ rows'[t].used /\ rows'[t].replaced_by = issued + 1
<1>1. rows[t] \in Row /\ rows[t].family \in Ids /\ issued + 1 \in Ids /\ t # issued + 1
  BY TokenAssumption DEF TypeOK, Exists, Row, Ids
<1> DEFINE old == [rows[t] EXCEPT !.used = TRUE, !.replaced_by = issued + 1]
<1>2. /\ old \in Row /\ old # NoRow
      /\ old.family = rows[t].family /\ old.revoked = rows[t].revoked
      /\ old.used /\ old.replaced_by = issued + 1
  BY <1>1, SentinelAssumption DEF Row
<1>3. NewRow(rows[t].family) \in Row
  BY <1>1, NewRowType DEF TypeOK
<1>4. rows' = [rows EXCEPT ![t] = old, ![issued + 1] = NewRow(rows[t].family)]
  BY <1>1 DEF Rotated, TypeOK
<1> HIDE DEF old
<1>5. rows' \in [Ids -> Row \union {NoRow}]
  BY <1>2, <1>3, <1>4 DEF TypeOK
<1>6. rows'[issued + 1] = NewRow(rows[t].family) /\ rows'[t] = old
  BY <1>1, <1>4 DEF TypeOK
<1>7. \A u \in Ids \ {issued + 1, t} : rows'[u] = rows[u]
  BY <1>4 DEF TypeOK
<1> QED  BY <1>1, <1>2, <1>5, <1>6, <1>7 DEF Exists

-------------------------------------------------------------------------------
\* A login: a family of its own, which nobody else can have met.
LEMMA LoginInv ==
  ASSUME IInv, NEW d \in Devices, NEW lost \in BOOLEAN, Login(d, lost)
  PROVE  IInv'
<1> USE DEF IInv
<1>0. PICK n \in Ids : n = issued + 1
  BY TokenAssumption DEF Login, TypeOK, Ids
<1>1. n = issued + 1 /\ n \in Nat /\ issued \in Nat /\ now \in 0 .. MaxNow
  BY <1>0 DEF TypeOK, Ids
<1>2. NewRow(n) \in Row /\ NewRow(n) # NoRow /\ NewRow(n).family = n
      /\ ~NewRow(n).used /\ ~NewRow(n).revoked
  BY <1>1, NewRowType
<1>3. /\ rows'[n] = NewRow(n) /\ ~Exists(n)
      /\ \A u \in Ids \ {n} : rows'[u] = rows[u] /\ (Exists(u)' <=> Exists(u))
      /\ \A u \in Ids \ {n} : Exists(u) => u <= issued /\ rows[u].family <= issued
  BY <1>1 DEF Login, TypeOK, Exists, History, Ids, Row
<1>4. Exists(n)'
  BY <1>2, <1>3 DEF Exists
<1>5. TypeOK'
  <2>1. rows' \in [Ids -> Row \union {NoRow}]
    BY <1>1, <1>2 DEF Login, TypeOK
  <2>2. issued' \in 0 .. MaxTokens /\ now' \in 0 .. MaxNow /\ ended' = ended
    BY <1>1, TokenAssumption DEF Login
  <2>3. Access(n) \in [family : Ids, until : Nat]
    BY <1>1, TokenAssumption DEF Access
  <2>4. held' \in [Devices -> 0 .. MaxTokens] /\ doubt' \subseteq Devices
    BY <1>1, TokenAssumption DEF Login, Reply, TypeOK, Ids
  <2> QED  BY <1>1, <2>1, <2>2, <2>3, <2>4 DEF Login, TypeOK
<1>6. History'
  <2>1. \A t \in Ids : Exists(t)' => t <= issued' /\ rows'[t].family <= t
    BY <1>1, <1>2, <1>3 DEF Login, History
  <2>2. \A a \in access' : a.family <= issued' /\ a.until <= now' + AccessTTL
    BY <1>1, TokenAssumption DEF Login, History, Access, TypeOK, Ids
  <2>3. \A f \in Ids : ended'[f] # Never => f <= issued'
    BY <1>1 DEF Login, History, Ids
  <2>4. \A e \in Devices : held'[e] <= issued'
    BY <1>1 DEF Login, History, Reply, TypeOK
  <2> QED  BY <2>1, <2>2, <2>3, <2>4 DEF History
<1>7. FamiliesAreChains'
  <2> SUFFICES ASSUME NEW t \in Ids, NEW u \in Ids, Exists(t)', Exists(u)',
                      rows'[t].family = rows'[u].family, t < u
               PROVE  rows'[t].used /\ rows'[t].replaced_by \in (t + 1) .. u
    BY DEF FamiliesAreChains
  <2>1. t # n /\ u # n
    BY <1>1, <1>2, <1>3 DEF Ids
  <2> QED  BY <1>3, <2>1 DEF FamiliesAreChains
<1>8. EndedFamiliesAreDead'
  <2> SUFFICES ASSUME NEW f \in Ids, ended[f] # Never
               PROVE  /\ \A t \in Family(f)' : rows'[t].revoked
                      /\ \A a \in access' : a.family = f => a.until <= ended[f] + AccessTTL
    BY DEF EndedFamiliesAreDead, Login
  <2>1. f # n
    BY <1>1 DEF History, Ids
  <2>2. \A t \in Family(f)' : t # n /\ t \in Family(f) /\ rows'[t] = rows[t]
    BY <1>2, <1>3, <2>1 DEF Family
  <2>3. \A a \in access' : a.family = f => a \in access
    BY <1>1, <2>1 DEF Login, Access
  <2> QED  BY <2>2, <2>3 DEF EndedFamiliesAreDead
<1>9. Alone'
  <2> SUFFICES ASSUME NEW c \in Devices \ doubt', NEW e \in Devices, c # e,
                      held'[c] # Nothing, held'[e] # Nothing, rows'[held'[e]] # NoRow
               PROVE  rows'[held'[e]].family # rows'[held'[c]].family
    BY DEF Alone, Exists
  <2>1. \A x \in Devices : held'[x] = held[x] \/ (x = d /\ held'[x] = n)
    BY <1>1 DEF Login, Reply, TypeOK
  <2>2. \A x \in Devices : held[x] <= issued /\ held[x] \in 0 .. MaxTokens
    BY DEF History, TypeOK
  <2>3. \A x \in Devices : held[x] # Nothing => held[x] \in Ids /\ held[x] # n
    BY <1>1, <2>2 DEF Ids, Nothing
  <2>4. \A x \in Devices \ doubt : held[x] # Nothing => Exists(held[x])
    BY DEF CarefulDevicesStayIn
  <2>5. CASE held'[c] = held[c] /\ held'[e] = held[e]
    <3>1. c \notin doubt \/ held'[c] = n
      BY <1>1 DEF Login, Reply, TypeOK
    <3>2. rows'[held[c]] = rows[held[c]] /\ rows'[held[e]] = rows[held[e]] /\ Exists(held[e])
      BY <1>3, <2>3, <2>5 DEF Exists
    <3>3. c \notin doubt
      BY <3>1, <2>3, <2>5
    <3> QED  BY <2>5, <3>2, <3>3 DEF Alone
  <2>6. CASE c = d /\ held'[c] = n /\ held'[e] = held[e]
    <3>1. rows[held[e]].family <= issued
      BY <1>3, <2>3, <2>6 DEF Exists
    <3>2. rows'[held'[e]].family = rows[held[e]].family /\ rows'[held'[c]].family = n
      BY <1>2, <1>3, <2>3, <2>6
    <3> QED  BY <1>1, <3>1, <3>2
  <2>7. CASE e = d /\ held'[e] = n /\ held'[c] = held[c]
    <3>1. c \notin doubt
      BY <2>7 DEF Login
    <3>2. held[c] \in Ids \ {n} /\ Exists(held[c])
      BY <2>3, <2>4, <2>7, <3>1
    <3>3. rows[held[c]].family <= issued
      BY <1>3, <3>2
    <3>4. rows'[held'[c]].family = rows[held[c]].family /\ rows'[held'[e]].family = n
      BY <1>2, <1>3, <2>7, <3>2
    <3> QED  BY <1>1, <3>3, <3>4
  <2> QED  BY <2>1, <2>5, <2>6, <2>7
<1>10. CarefulDevicesStayIn'
  <2> SUFFICES ASSUME NEW c \in Devices \ doubt', held'[c] # Nothing
               PROVE  rows'[held'[c]] # NoRow /\ ~rows'[held'[c]].used /\ ~rows'[held'[c]].revoked
    BY DEF CarefulDevicesStayIn, Exists
  <2>1. CASE c = d /\ ~lost
    BY <1>1, <1>2, <1>3, <2>1 DEF Login, Reply, TypeOK
  <2>2. CASE c # d \/ lost
    <3>1. held'[c] = held[c] /\ c \notin doubt
      BY <2>2 DEF Login, Reply, TypeOK
    <3>2. held[c] \in Ids /\ held[c] # n
      BY <1>1, <3>1 DEF History, TypeOK, Ids, Nothing
    <3> QED  BY <1>3, <3>1, <3>2 DEF CarefulDevicesStayIn, Exists
  <2> QED  BY <2>1, <2>2
<1> QED  BY <1>5, <1>6, <1>7, <1>8, <1>9, <1>10

\* A refresh.  The token that is rotated is unused and so the newest of its
\* family, which makes the chain longer at its end.
LEMMA RefreshInv ==
  ASSUME IInv, NEW d \in Devices, NEW lost \in BOOLEAN, Refresh(d, lost)
  PROVE  IInv'
<1> USE DEF IInv
<1>0. PICK n \in Ids, t \in Ids : n = issued + 1 /\ t = held[d]
  <2>1. issued + 1 \in Ids
    BY TokenAssumption DEF Refresh, TypeOK, Ids
  <2>2. held[d] \in 0 .. MaxTokens /\ held[d] # 0
    BY DEF Refresh, TypeOK, Nothing
  <2> QED  BY <2>1, <2>2, TokenAssumption DEF Ids
<1>1. /\ n = issued + 1 /\ n \in Nat /\ issued \in Nat /\ now \in 0 .. MaxNow
      /\ t \in Nat /\ t = held[d] /\ t <= issued /\ t # n /\ issued < MaxTokens
  BY <1>0 DEF TypeOK, Ids, History, Refresh
<1>2. Exists(t) /\ ~rows[t].revoked /\ ~rows[t].used
  BY <1>1 DEF Refresh, Accepted
<1> DEFINE f == rows[t].family
<1>3. f \in Ids /\ rows[t] \in Row
  BY <1>2 DEF TypeOK, Exists, Row
<1>4. /\ NewRow(f) \in Row /\ NewRow(f) # NoRow /\ NewRow(f).family = f
      /\ ~NewRow(f).used /\ ~NewRow(f).revoked
  BY <1>1, <1>3, NewRowType
<1>5. rows' = Rotated(t)
  BY <1>1 DEF Refresh
<1>6. /\ rows' \in [Ids -> Row \union {NoRow}]
      /\ rows'[n] = NewRow(f)
      /\ \A u \in Ids \ {n} :
           /\ Exists(u)' <=> Exists(u)
           /\ Exists(u) => /\ rows'[u].family = rows[u].family
                           /\ rows'[u].revoked = rows[u].revoked
           /\ u # t => rows'[u] = rows[u]
      /\ rows'[t].used /\ rows'[t].replaced_by = n
  BY <1>1, <1>2, <1>5, RotatedType
<1>7. \A u \in Ids \ {n} : Exists(u) => u <= issued /\ rows[u].family <= u
  BY DEF History
<1>8. \A u \in Ids \ {n} : (Exists(u) /\ rows[u].family = f) => u <= t
  BY <1>1, <1>2 DEF FamiliesAreChains, Ids
<1>9. ended[f] = Never
  BY <1>2, <1>3 DEF EndedFamiliesAreDead, Family
<1>10. \A x \in Devices : held'[x] = held[x] \/ (x = d /\ held'[x] = n /\ ~lost)
  BY <1>1 DEF Refresh, Reply, TypeOK
<1>11. \A x \in Devices : held[x] # Nothing => held[x] \in Ids \ {n}
  BY <1>1 DEF History, TypeOK, Ids, Nothing
<1>12. Access(f) \in [family : Ids, until : Nat] /\ access' = access \union {Access(f)}
       /\ Access(f).family = f /\ Access(f).until = now + AccessTTL
       /\ issued' = n /\ ended' = ended /\ now' = now /\ doubt \subseteq doubt'
  BY <1>1, <1>3, TokenAssumption DEF Access, Refresh
<1>13. TypeOK'
  <2>1. issued' \in 0 .. MaxTokens /\ held' \in [Devices -> 0 .. MaxTokens]
    BY <1>1, <1>10, <1>12, TokenAssumption DEF Refresh, Reply, TypeOK, Ids
  <2>2. doubt' \subseteq Devices
    BY DEF Refresh, TypeOK
  <2> QED  BY <1>6, <1>12, <2>1, <2>2 DEF TypeOK
<1>14. History'
  <2>1. \A u \in Ids : Exists(u)' => u <= issued' /\ rows'[u].family <= u
    BY <1>1, <1>2, <1>3, <1>4, <1>6, <1>7, <1>12 DEF Ids, Row
  <2>2. \A a \in access' : a.family <= issued' /\ a.until <= now' + AccessTTL
    BY <1>1, <1>2, <1>3, <1>7, <1>12, TokenAssumption DEF History, TypeOK, Ids
  <2>3. \A g \in Ids : ended'[g] # Never => g <= issued'
    BY <1>1, <1>12 DEF History, Ids
  <2>4. \A e \in Devices : held'[e] <= issued'
    BY <1>1, <1>10, <1>12 DEF History, TypeOK
  <2> QED  BY <2>1, <2>2, <2>3, <2>4 DEF History
<1>15. FamiliesAreChains'
  <2> SUFFICES ASSUME NEW u \in Ids, NEW v \in Ids, rows'[u] # NoRow, rows'[v] # NoRow,
                      rows'[u].family = rows'[v].family, u < v
               PROVE  rows'[u].used /\ rows'[u].replaced_by \in (u + 1) .. v
    BY DEF FamiliesAreChains, Exists
  <2>1. u # n
    BY <1>1, <1>6, <1>7 DEF Exists, Ids
  <2>2. Exists(u) /\ rows[u].family = rows'[u].family
    BY <1>6, <2>1 DEF Exists
  <2>3. CASE v # n
    <3>1. Exists(v) /\ rows[v].family = rows[u].family
      BY <1>6, <2>2, <2>3 DEF Exists
    <3>2. rows[u].used /\ rows[u].replaced_by \in (u + 1) .. v
      BY <2>2, <3>1 DEF FamiliesAreChains
    <3>3. u # t
      BY <1>2, <3>2
    <3> QED  BY <1>6, <2>1, <3>2, <3>3
  <2>4. CASE v = n
    <3>1. rows[u].family = f /\ u <= t
      BY <1>4, <1>6, <1>8, <2>1, <2>2, <2>4
    <3>2. CASE u = t
      BY <1>1, <1>6, <2>4, <3>2
    <3>3. CASE u < t
      <4>1. rows[u].used /\ rows[u].replaced_by \in (u + 1) .. t
        BY <1>2, <2>2, <3>1, <3>3 DEF FamiliesAreChains
      <4> QED  BY <1>1, <1>6, <2>1, <2>4, <3>3, <4>1 DEF Ids
    <3> QED  BY <1>1, <3>1, <3>2, <3>3 DEF Ids
  <2> QED  BY <2>3, <2>4
<1>16. EndedFamiliesAreDead'
  <2> SUFFICES ASSUME NEW g \in Ids, ended[g] # Never
               PROVE  /\ \A u \in Family(g)' : rows'[u].revoked
                      /\ \A a \in access' : a.family = g => a.until <= ended[g] + AccessTTL
    BY <1>12 DEF EndedFamiliesAreDead
  <2>1. g # f
    BY <1>9
  <2>2. \A u \in Family(g)' : u # n /\ u \in Family(g) /\ rows'[u].revoked = rows[u].revoked
    BY <1>4, <1>6, <2>1 DEF Family
  <2>3. \A a \in access' : a.family = g => a \in access
    BY <1>12, <2>1
  <2> QED  BY <2>2, <2>3 DEF EndedFamiliesAreDead
<1>17. Alone'
  <2> SUFFICES ASSUME NEW c \in Devices \ doubt', NEW e \in Devices, c # e,
                      held'[c] # Nothing, held'[e] # Nothing, rows'[held'[e]] # NoRow
               PROVE  rows'[held'[e]].family # rows'[held'[c]].family
    BY DEF Alone, Exists
  <2>1. \A x \in Devices : held'[x] # Nothing =>
          /\ held[x] # Nothing
          /\ Exists(held[x]) => rows'[held'[x]].family = rows[held[x]].family
          /\ rows'[held'[x]] # NoRow => Exists(held[x])
    <3> SUFFICES ASSUME NEW x \in Devices, held'[x] # Nothing
                 PROVE  /\ held[x] # Nothing
                        /\ Exists(held[x]) => rows'[held'[x]].family = rows[held[x]].family
                        /\ rows'[held'[x]] # NoRow => Exists(held[x])
      OBVIOUS
    <3>1. CASE held'[x] = held[x]
      BY <1>6, <1>11, <3>1 DEF Exists
    <3>2. CASE x = d /\ held'[x] = n
      BY <1>1, <1>2, <1>4, <1>6, <3>2 DEF Ids, Nothing
    <3> QED  BY <1>10, <3>1, <3>2
  <2>2. c \notin doubt /\ Exists(held[c])
    BY <1>12, <2>1 DEF CarefulDevicesStayIn
  <2> QED  BY <2>1, <2>2 DEF Alone
<1>18. CarefulDevicesStayIn'
  <2> SUFFICES ASSUME NEW c \in Devices \ doubt', held'[c] # Nothing
               PROVE  rows'[held'[c]] # NoRow /\ ~rows'[held'[c]].used /\ ~rows'[held'[c]].revoked
    BY DEF CarefulDevicesStayIn, Exists
  <2>1. c \notin doubt
    BY <1>12
  <2>2. CASE c = d
    <3>1. ~lost /\ held'[c] = n
      BY <1>1, <2>2 DEF Refresh, Reply, TypeOK
    <3> QED  BY <1>4, <1>6, <3>1
  <2>3. CASE c # d
    <3>1. held'[c] = held[c] /\ held[c] \in Ids \ {n}
      BY <1>10, <1>11, <2>3
    <3>2. Exists(held[c]) /\ ~rows[held[c]].used /\ ~rows[held[c]].revoked
      BY <2>1, <3>1 DEF CarefulDevicesStayIn
    <3>3. held[c] # t
      BY <1>1, <1>2, <2>1, <2>3, <3>1 DEF Alone, Nothing, Ids
    <3> QED  BY <1>6, <3>1, <3>2, <3>3 DEF Exists
  <2> QED  BY <2>2, <2>3
<1> QED  BY <1>13, <1>14, <1>15, <1>16, <1>17, <1>18

\* Marking a family revoked keeps everything but a careful member of it.
LEMMA RevokedInv ==
  ASSUME IInv, NEW t \in Ids, Exists(t), rows' = Revoked(t), End(rows[t].family),
         UNCHANGED <<issued, access, doubt, now>>,
         \A e \in Devices : held'[e] \in {held[e], Nothing},
         held' \in [Devices -> 0 .. MaxTokens],
         \A e \in Devices \ doubt :
           (held'[e] # Nothing /\ Exists(held[e])) => rows[held[e]].family # rows[t].family
  PROVE  IInv'
<1> USE DEF IInv
<1> DEFINE f == rows[t].family
<1>1. f \in Ids
  BY DEF TypeOK, Exists, Row
<1>2. /\ rows' \in [Ids -> Row \union {NoRow}]
      /\ \A u \in Ids :
           /\ Exists(u)' <=> Exists(u)
           /\ Exists(u) => /\ rows'[u].family = rows[u].family
                           /\ rows'[u].used = rows[u].used
                           /\ rows'[u].replaced_by = rows[u].replaced_by
                           /\ rows'[u].revoked <=> (rows[u].revoked \/ rows[u].family = f)
  BY RevokedType
<1>3. ended' \in [Ids -> 0 .. MaxNow \union {Never}]
      /\ \A g \in Ids : /\ g # f => ended'[g] = ended[g]
                        /\ ended'[g] # Never => (g = f \/ ended[g] # Never)
                        /\ ended'[f] = IF ended[f] = Never THEN now ELSE ended[f]
  BY <1>1, TokenAssumption DEF End, TypeOK
<1> HIDE DEF f
<1>4. TypeOK'
  BY <1>2, <1>3 DEF TypeOK
<1>5. f <= issued
  BY <1>1 DEF History, f, TypeOK, Exists, Row, Ids
<1>6. History'
  BY <1>2, <1>3, <1>5 DEF History, Nothing, TypeOK
<1>7. FamiliesAreChains'
  BY <1>2 DEF FamiliesAreChains
<1>8. EndedFamiliesAreDead'
  <2> SUFFICES ASSUME NEW g \in Ids, ended'[g] # Never
               PROVE  /\ \A u \in Family(g)' : rows'[u].revoked
                      /\ \A a \in access : a.family = g => a.until <= ended'[g] + AccessTTL
    BY DEF EndedFamiliesAreDead
  <2>1. \A u \in Family(g)' : rows'[u].revoked
    BY <1>2, <1>3 DEF Family, EndedFamiliesAreDead
  <2>2. CASE g # f \/ ended[f] # Never
    BY <1>1, <1>3, <2>1, <2>2 DEF EndedFamiliesAreDead
  <2>3. CASE g = f /\ ended[f] = Never
    BY <1>1, <1>3, <2>1, <2>3 DEF History
  <2> QED  BY <2>2, <2>3
<1>9. \A e \in Devices : held'[e] # Nothing => held'[e] = held[e] /\ held[e] \in Ids
  BY DEF TypeOK, Ids, Nothing
<1>10. Alone'
  <2> SUFFICES ASSUME NEW c \in Devices \ doubt, NEW e \in Devices, c # e,
                      held'[c] # Nothing, held'[e] # Nothing, rows'[held'[e]] # NoRow
               PROVE  rows'[held'[e]].family # rows'[held'[c]].family
    BY DEF Alone, Exists
  <2>1. Exists(held[c]) /\ Exists(held[e])
    BY <1>2, <1>9 DEF CarefulDevicesStayIn, Exists
  <2> QED  BY <1>2, <1>9, <2>1 DEF Alone
<1>11. CarefulDevicesStayIn'
  <2> SUFFICES ASSUME NEW c \in Devices \ doubt, held'[c] # Nothing
               PROVE  rows'[held'[c]] # NoRow /\ ~rows'[held'[c]].used /\ ~rows'[held'[c]].revoked
    BY DEF CarefulDevicesStayIn, Exists
  <2>1. Exists(held[c]) /\ ~rows[held[c]].used /\ ~rows[held[c]].revoked
        /\ rows[held[c]].family # f
    BY <1>9 DEF CarefulDevicesStayIn, f
  <2> QED  BY <1>2, <1>9, <2>1 DEF Exists
<1> QED  BY <1>4, <1>6, <1>7, <1>8, <1>10, <1>11

\* The reuse of a token revokes a family that no careful device is in.
LEMMA ReuseInv == ASSUME IInv, NEW d \in Devices, Reuse(d) PROVE IInv'
<1>1. PICK t \in Ids : t = held[d]
  BY TokenAssumption DEF Reuse, IInv, TypeOK, Ids, Nothing
<1>2. Exists(t) /\ rows[t].used /\ rows' = Revoked(t) /\ End(rows[t].family)
      /\ UNCHANGED <<issued, access, held, doubt, now>>
  BY <1>1 DEF Reuse, Accepted
<1>3. ASSUME NEW e \in Devices \ doubt, held[e] # Nothing, Exists(held[e])
      PROVE  rows[held[e]].family # rows[t].family
  <2>1. e # d
    BY <1>1, <1>2, <1>3 DEF IInv, CarefulDevicesStayIn
  <2> QED  BY <1>1, <1>2, <1>3, <2>1, TokenAssumption DEF IInv, Alone, Ids, Nothing
<1>4. held' \in [Devices -> 0 .. MaxTokens] /\ \A e \in Devices : held'[e] = held[e]
  BY <1>2 DEF IInv, TypeOK
<1> QED  BY <1>2, <1>3, <1>4, RevokedInv

\* A logout revokes the family of the device that asks for it, and no other
\* careful device is in it.
LEMMA LogoutInv == ASSUME IInv, NEW d \in Devices, Logout(d) PROVE IInv'
<1>1. PICK t \in Ids : t = held[d]
  BY TokenAssumption DEF Logout, IInv, TypeOK, Ids, Nothing
<1>2. held' = [held EXCEPT ![d] = Nothing] /\ UNCHANGED <<issued, access, doubt, now>>
  BY <1>1 DEF Logout
<1>3. /\ held' \in [Devices -> 0 .. MaxTokens]
      /\ \A e \in Devices : held'[e] \in {held[e], Nothing} /\ (held'[e] # Nothing => e # d)
  BY <1>2, TokenAssumption DEF IInv, TypeOK, Nothing
<1>4. CASE Exists(t)
  <2>1. rows' = Revoked(t) /\ End(rows[t].family)
    BY <1>1, <1>4 DEF Logout
  <2>2. ASSUME NEW e \in Devices \ doubt, held'[e] # Nothing, Exists(held[e])
        PROVE  rows[held[e]].family # rows[t].family
    <3>1. e # d /\ held[e] # Nothing /\ t # Nothing
      BY <1>3, <2>2, TokenAssumption DEF Ids, Nothing
    <3> QED  BY <1>1, <1>4, <3>1 DEF IInv, Alone
  <2> QED  BY <1>2, <1>3, <1>4, <2>1, <2>2, RevokedInv
<1>5. CASE ~Exists(t)
  <2>1. UNCHANGED <<rows, ended>>
    BY <1>1, <1>5 DEF Logout
  <2>2. TypeOK' /\ FamiliesAreChains' /\ EndedFamiliesAreDead'
    BY <1>2, <1>3, <2>1 DEF IInv, TypeOK, FamiliesAreChains, EndedFamiliesAreDead, Exists, Family
  <2>3. History'
    BY <1>2, <1>3, <2>1 DEF IInv, TypeOK, History, Exists, Nothing
  <2>4. Alone' /\ CarefulDevicesStayIn'
    BY <1>2, <1>3, <2>1 DEF IInv, Alone, CarefulDevicesStayIn, Exists
  <2> QED  BY <2>2, <2>3, <2>4 DEF IInv
<1> QED  BY <1>4, <1>5

-------------------------------------------------------------------------------
\* Whoever shares is in doubt.
LEMMA ShareInv ==
  ASSUME IInv, NEW d \in Devices, NEW e \in Devices, Share(d, e) PROVE IInv'
<1> USE DEF IInv, Share
<1>1. /\ held' \in [Devices -> 0 .. MaxTokens]
      /\ \A x \in Devices : held'[x] = IF x = e THEN held[d] ELSE held[x]
  BY DEF TypeOK
<1>2. TypeOK' /\ FamiliesAreChains' /\ EndedFamiliesAreDead'
  BY <1>1 DEF TypeOK, FamiliesAreChains, EndedFamiliesAreDead, Exists, Family
<1>3. History'
  BY <1>1 DEF History, Exists
<1>4. Alone'
  BY <1>1 DEF Alone, Exists
<1>5. CarefulDevicesStayIn'
  BY <1>1 DEF CarefulDevicesStayIn, Exists
<1> QED  BY <1>2, <1>3, <1>4, <1>5

\* After a restart there is no row, and no device that is sure of its token.
LEMMA RestartInv == ASSUME IInv, Restart PROVE IInv'
<1> USE DEF IInv, Restart
<1>1. \A t \in Ids : rows'[t] = NoRow
  OBVIOUS
<1>2. \A f \in Ids : ended'[f] = IF Family(f) # {} /\ ended[f] = Never THEN now ELSE ended[f]
  OBVIOUS
<1>3. TypeOK'
  BY <1>1, <1>2, TokenAssumption DEF TypeOK
<1>4. \A f \in Ids : Family(f) # {} => f <= issued
  BY DEF History, Family, Ids, TypeOK, Row, Exists
<1>5. History'
  BY <1>1, <1>2, <1>4 DEF History, Exists
<1>6. FamiliesAreChains' /\ Alone' /\ CarefulDevicesStayIn'
  BY <1>1 DEF FamiliesAreChains, Alone, CarefulDevicesStayIn, Exists
<1>7. EndedFamiliesAreDead'
  <2> SUFFICES ASSUME NEW f \in Ids, ended'[f] # Never
               PROVE  /\ Family(f)' = {}
                      /\ \A a \in access : a.family = f => a.until <= ended'[f] + AccessTTL
    BY DEF EndedFamiliesAreDead
  <2>1. Family(f)' = {}
    BY <1>1 DEF Family, Exists
  <2>2. CASE ended[f] = Never
    BY <1>2, <2>1, <2>2 DEF History
  <2>3. CASE ended[f] # Never
    BY <1>2, <2>1, <2>3 DEF EndedFamiliesAreDead
  <2> QED  BY <2>2, <2>3
<1> QED  BY <1>3, <1>5, <1>6, <1>7

\* Time only widens the gap to the access tokens.
LEMMA TickInv == ASSUME IInv, Tick PROVE IInv'
<1> USE DEF IInv, Tick
<1>1. TypeOK'
  BY TokenAssumption DEF TypeOK
<1>2. History'
  BY TokenAssumption DEF History, TypeOK, Exists
<1>3. /\ FamiliesAreChains' /\ EndedFamiliesAreDead'
      /\ Alone' /\ CarefulDevicesStayIn'
  BY DEF FamiliesAreChains, EndedFamiliesAreDead, Alone, CarefulDevicesStayIn,
         Exists, Family
<1> QED  BY <1>1, <1>2, <1>3

LEMMA NextInv == IInv /\ [Next]_vars => IInv'
<1> SUFFICES ASSUME IInv, [Next]_vars PROVE IInv'
  OBVIOUS
<1>1. CASE UNCHANGED vars
  BY <1>1 DEF vars, IInv, TypeOK, History, FamiliesAreChains, EndedFamiliesAreDead,
              Alone, CarefulDevicesStayIn, Exists, Family
<1>2. ASSUME NEW d \in Devices, NEW lost \in BOOLEAN, Login(d, lost) PROVE IInv'
  BY <1>2, LoginInv
<1>3. ASSUME NEW d \in Devices, NEW lost \in BOOLEAN, Refresh(d, lost) PROVE IInv'
  BY <1>3, RefreshInv
<1>4. ASSUME NEW d \in Devices, Reuse(d) PROVE IInv'
  BY <1>4, ReuseInv
<1>5. ASSUME NEW d \in Devices, Logout(d) PROVE IInv'
  BY <1>5, LogoutInv
<1>6. ASSUME NEW d \in Devices, NEW e \in Devices, Share(d, e) PROVE IInv'
  BY <1>6, ShareInv
<1>7. CASE Restart
  BY <1>7, RestartInv
<1>8. CASE Tick
  BY <1>8, TickInv
<1> QED  BY <1>1, <1>2, <1>3, <1>4, <1>5, <1>6, <1>7, <1>8 DEF Next

LEMMA Invariance == Spec => []IInv
BY InitInv, NextInv, PTL DEF Spec

-------------------------------------------------------------------------------
\* The tables hold what the code puts there.
THEOREM TypeCorrect == Spec => []TypeOK
<1>1. IInv => TypeOK
  BY DEF IInv
<1> QED  BY <1>1, Invariance, PTL

\* rotate_refresh_token: a family is a chain with one unused end.
THEOREM RotationsAreChains == Spec => []FamiliesAreChains
<1>1. IInv => FamiliesAreChains
  BY DEF IInv
<1> QED  BY <1>1, Invariance, PTL

\* revoke_token_family: a revocation cannot be outrun by a refresh.
THEOREM RevocationIsFinal == Spec => []EndedFamiliesAreDead
<1>1. IInv => EndedFamiliesAreDead
  BY DEF IInv
<1> QED  BY <1>1, Invariance, PTL

\* refresh: the detection of reuse logs out nobody who did nothing wrong.
THEOREM NoFalseAlarms == Spec => []CarefulDevicesStayIn
<1>1. IInv => CarefulDevicesStayIn
  BY DEF IInv
<1> QED  BY <1>1, Invariance, PTL
===============================================================================
