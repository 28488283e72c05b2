---------------------------- MODULE FileKeysProofs ----------------------------
(***************************************************************************)
(* What FileKeys promises for any number of accounts, files, chats, values *)
(* of MASTER_KEK and replaced DEKs.                                        *)
(*                                                                         *)
(* Memory and disk are each sound by themselves (Sound): what is a finished*)
(* upload and not lost has the key that its owner's row names (Match), and *)
(* every DEK in use was made (Known), so that a new one opens nothing old. *)
(* Between them, finished uploads agree (Saved), and a DEK that is not on  *)
(* disk has sealed nothing that is stored (Unsaved).  In one run of the    *)
(* server an upload's owner keeps a DEK that unwraps (Uploading), and what *)
(* is being sent belongs to an upload without a row (Sending).             *)
(***************************************************************************)
EXTENDS FileKeys, FiniteSetTheorems, WellFoundedInduction, TLAPS

Here(us) == {u \in UserIds : us[u] # NoUser}

TypedUsers(us) == us \in [UserIds -> User \union {NoUser}]
TypedFiles(fs) == fs \in [FileIds -> File \union {NoFile}]

\* Accounts are numbered one after the other.
InARow(us) ==
  \E k \in 0 .. MaxUsers : \A u \in UserIds : u \in Here(us) <=> u <= k

OneAccount(us) ==
  \A c \in Chats : \A u, v \in Here(us) : us[u].chat = c /\ us[v].chat = c => u = v

Owned(us, fs) == \A n \in Stored(fs) : fs[n].owner \in Here(us)

Within(fs, m) ==
  \A n \in Stored(fs) : n <= m /\ (fs[n].row # NoRow => fs[n].row.node <= m)

IsKnown(us, r, d) == d <= MaxUsers + r /\ (d <= MaxUsers => d \in Here(us))

KnownSecret(us, r, s) == s.kind = "dek" => IsKnown(us, r, s.id)

Known(us, fs, r) ==
  /\ \A u \in Here(us) : us[u].wrapped # NoDek => IsKnown(us, r, us[u].wrapped.dek)
  /\ \A n \in Stored(fs) : fs[n].row # NoRow => KnownSecret(us, r, fs[n].row.secret)

\* The row is sealed with the DEK that is wrapped, under the MASTER_KEK it was
\* wrapped under; or, for an account without a DEK, with the MASTER_KEK.
Match(w, row) ==
  IF w = NoDek THEN row.secret = [kind |-> "kek", id |-> row.under]
  ELSE row.secret = [kind |-> "dek", id |-> w.dek] /\ row.under = w.under

IsOriginal(fs, n) ==
  /\ fs[n] # NoFile /\ fs[n].state = "ready" /\ fs[n].row # NoRow
  /\ fs[n].row.node = n /\ fs[n].row.secret.kind # "plain"

Matched(us, fs) ==
  \A n \in FileIds : (IsOriginal(fs, n) /\ ~fs[n].lost) =>
    Match(us[fs[n].owner].wrapped, fs[n].row)

Sound(us, fs, m, r) ==
  /\ TypedUsers(us) /\ TypedFiles(fs)
  /\ InARow(us) /\ OneAccount(us)
  /\ Owned(us, fs) /\ Within(fs, m) /\ Known(us, fs, r) /\ Matched(us, fs)

Typed ==
  /\ uploads \in [FileIds -> UserIds \union {Nobody}]
  /\ sending \in [FileIds -> Secret \union {NoSecret}]
  /\ bots \subseteq {n \in FileIds : uploads[n] # Nobody}
  /\ kek \in Keks
  /\ made \in 0 .. MaxFiles
  /\ rekeys \in 0 .. MaxRekeys

SameUsers == Here(disk.users) = Here(users)

Unwraps(w) == w = NoDek \/ w.under = kek

Uploading ==
  \A n \in FileIds : uploads[n] # Nobody =>
    /\ files[n] # NoFile /\ files[n].state = "uploading"
    /\ files[n].row # NoRow => files[n].row.under = kek
    /\ uploads[n] \in Here(users)
    /\ Unwraps(users[uploads[n]].wrapped)

Sending ==
  \A n \in FileIds : sending[n] # NoSecret =>
    /\ uploads[n] # Nobody
    /\ files[n].row = NoRow
    /\ KnownSecret(users, rekeys, sending[n])

SameFile(f, g) == f.owner = g.owner /\ f.state = g.state /\ f.row = g.row

Saved ==
  \A n \in FileIds : IsOriginal(files, n) =>
    disk.files[n] # NoFile /\ SameFile(disk.files[n], files[n])

OpensNothing(fs, d) ==
  \A n \in Stored(fs) : fs[n].row # NoRow =>
    fs[n].row.secret # [kind |-> "dek", id |-> d]

Unsaved ==
  \A u \in Here(users) : users[u].wrapped # disk.users[u].wrapped =>
    /\ users[u].wrapped # NoDek /\ users[u].wrapped.under = kek
    /\ OpensNothing(files, users[u].wrapped.dek)

OnDisk ==
  /\ disk \in [users : [UserIds -> User \union {NoUser}],
               files : [FileIds -> File \union {NoFile}]]
  /\ Sound(disk.users, disk.files, made, rekeys)
  /\ SameUsers /\ Saved /\ Unsaved

InMemory == Sound(users, files, made, rekeys)

IInv == Typed /\ InMemory /\ OnDisk /\ Uploading /\ Sending

-------------------------------------------------------------------------------
\* What follows from the invariant.

LEMMA TypesFollow == IInv => TypeOK
BY DEF IInv, Typed, InMemory, OnDisk, Sound, TypedUsers, TypedFiles, TypeOK

LEMMA ReadableFollows == IInv => UploadsStayReadable
<1> SUFFICES ASSUME IInv, NEW n \in FileIds, Original(n), ~files[n].lost,
                    files[n].row.under = kek
             PROVE  Opens(n)
  BY DEF UploadsStayReadable
<1>1. IsOriginal(files, n)
  BY DEF Original, IsOriginal
<1>2. Match(users[files[n].owner].wrapped, files[n].row)
  BY <1>1 DEF IInv, InMemory, Sound, Matched
<1>3. files[n].row.secret = SecretIn(users, files[n].owner)
  BY <1>2 DEF Match, SecretIn
<1> QED  BY <1>1, <1>3 DEF Opens, OpensIn, IsOriginal

LEMMA DiskFollows == IInv => ReadableFilesAreOnDisk
<1> SUFFICES ASSUME IInv, NEW n \in FileIds, Original(n), Opens(n)
             PROVE  OpensIn(disk.users, disk.files, n)
  BY DEF ReadableFilesAreOnDisk
<1>1. IsOriginal(files, n)
  BY DEF Original, IsOriginal
<1>2. disk.files[n] # NoFile /\ SameFile(disk.files[n], files[n])
  BY <1>1 DEF IInv, OnDisk, Saved
<1> DEFINE u == files[n].owner
<1>3. n \in Stored(files) /\ u \in Here(users)
  BY <1>1 DEF IInv, InMemory, Sound, Owned, Stored, IsOriginal
<1>4. files[n].row.secret = SecretIn(users, u)
  BY DEF Opens, OpensIn
<1>5. users[u].wrapped = disk.users[u].wrapped
  <2> SUFFICES ASSUME users[u].wrapped # disk.users[u].wrapped PROVE FALSE
    OBVIOUS
  <2>1. /\ users[u].wrapped # NoDek /\ users[u].wrapped.under = kek
        /\ OpensNothing(files, users[u].wrapped.dek)
    BY <1>3 DEF IInv, OnDisk, Unsaved
  <2>2. files[n].row.secret = [kind |-> "dek", id |-> users[u].wrapped.dek]
    BY <2>1, <1>4 DEF SecretIn
  <2> QED  BY <2>1, <2>2, <1>1, <1>3 DEF OpensNothing, IsOriginal
<1>6. SecretIn(disk.users, u) = SecretIn(users, u)
  BY <1>5 DEF SecretIn
<1> QED  BY <1>1, <1>2, <1>4, <1>6 DEF OpensIn, IsOriginal, SameFile

LEMMA OneAccountFollows == IInv => ChatsHaveOneAccount
<1> SUFFICES ASSUME IInv, NEW c \in Chats
             PROVE  Cardinality(Holders(c)) <= 1
  BY DEF ChatsHaveOneAccount
<1>1. \A u, v \in Holders(c) : u = v
  BY DEF IInv, InMemory, Sound, OneAccount, Holders, Present, Here
<1>2. CASE Holders(c) = {}
  BY <1>2, FS_EmptySet
<1>3. CASE Holders(c) # {}
  <2>1. PICK u : u \in Holders(c)
    BY <1>3
  <2>2. Holders(c) = {u}
    BY <1>1, <2>1
  <2> QED  BY <2>2, FS_Singleton
<1> QED  BY <1>2, <1>3

-------------------------------------------------------------------------------
\* Accounts.

LEMMA Bounds ==
  /\ MaxUsers \in Nat /\ MaxFiles \in Nat /\ MaxRekeys \in Nat
  /\ \A u \in UserIds : u \in Nat /\ u # Nobody /\ u <= MaxUsers
  /\ \A n \in FileIds : n \in Nat
BY KeysAssumption DEF UserIds, FileIds, Nobody

LEMMA FirstIsIn ==
  ASSUME NEW S, S \subseteq UserIds, S # {}
  PROVE  First(S) \in S /\ First(S) \in UserIds /\ First(S) # Nobody
<1>1. S \subseteq Nat
  BY Bounds
<1> DEFINE less == {p \in Nat \X Nat : p[1] < p[2]}
<1>2. PICK u \in S : \A v \in S : ~ (<<v, u>> \in less)
  <2>1. IsWellFoundedOn(less, Nat)
    BY ONLY NatLessThanWellFounded DEF OpToRel
  <2> HIDE DEF less
  <2> QED  BY <1>1, <2>1, WFMin
<1>3. \A v \in S : u <= v
  <2> SUFFICES ASSUME NEW v \in S, v < u PROVE FALSE
    BY <1>1
  <2>1. <<v, u>> \in less
    BY <1>1
  <2> QED  BY <1>2, <2>1
<1>4. First(S) = CHOOSE w \in S : \A v \in S : w <= v
  BY DEF First
<1>5. First(S) \in S
  BY <1>3, <1>4
<1> QED  BY <1>5, Bounds

LEMMA NewcomerIsNext ==
  ASSUME InARow(users)
  PROVE  \A v \in UserIds : v \in Here(users) <=> v < Newcomer
<1>1. PICK k \in 0 .. MaxUsers : \A u \in UserIds : u \in Here(users) <=> u <= k
  BY DEF InARow
<1>2. Present = 1 .. k
  BY <1>1, Bounds DEF Present, Here, UserIds
<1>3. Cardinality(Present) = k
  BY <1>1, <1>2, FS_Interval, Bounds
<1> QED  BY <1>1, <1>3, Bounds DEF Newcomer

\* us2 is us and one account more.
Joined(us, us2, u) ==
  /\ u \in UserIds /\ u \notin Here(us)
  /\ \A v \in UserIds : v \in Here(us) <=> v < u
  /\ Here(us2) = Here(us) \union {u}
  /\ \A v \in Here(us) : us2[v] = us[v]
  /\ us2[u].wrapped # NoDek => us2[u].wrapped.dek = u
  /\ \A c \in Chats : us2[u].chat = c => \A v \in Here(us) : us[v].chat # c

LEMMA JoinedIsSound ==
  ASSUME NEW us, NEW us2, NEW fs, NEW m \in Nat, NEW r \in Nat, NEW u,
         Sound(us, fs, m, r), TypedUsers(us2), Joined(us, us2, u)
  PROVE  Sound(us2, fs, m, r)
<1>0. u \in UserIds /\ u \in Nat /\ u <= MaxUsers /\ Here(us) \subseteq UserIds
  BY Bounds DEF Joined, Here
<1>1. InARow(us2)
  <2>1. \A v \in UserIds : v \in Here(us2) <=> v <= u
    BY Bounds, <1>0 DEF Joined
  <2> QED  BY <2>1, <1>0, Bounds DEF InARow
<1>2. OneAccount(us2)
  <2> SUFFICES ASSUME NEW c \in Chats, NEW v \in Here(us2), NEW w \in Here(us2),
                      us2[v].chat = c, us2[w].chat = c
               PROVE  v = w
    BY DEF OneAccount
  <2>1. CASE v \in Here(us) /\ w \in Here(us)
    BY <2>1 DEF Sound, OneAccount, Joined
  <2>2. CASE v = u \/ w = u
    BY <2>2 DEF Joined
  <2> QED  BY <2>1, <2>2 DEF Joined
<1>3. Owned(us2, fs)
  BY DEF Sound, Owned, Joined
<1>4. Known(us2, fs, r)
  <2>1. \A d : IsKnown(us, r, d) => IsKnown(us2, r, d)
    BY DEF IsKnown, Joined
  <2>2. IsKnown(us2, r, u)
    BY <1>0, Bounds DEF IsKnown, Joined
  <2>3. ASSUME NEW v \in Here(us2), us2[v].wrapped # NoDek
        PROVE  IsKnown(us2, r, us2[v].wrapped.dek)
    <3>1. CASE v = u
      BY <2>2, <2>3, <3>1 DEF Joined
    <3>2. CASE v \in Here(us)
      BY <2>1, <2>3, <3>2 DEF Joined, Sound, Known
    <3> QED  BY <3>1, <3>2 DEF Joined
  <2> QED  BY <2>1, <2>3 DEF Sound, Known, KnownSecret
<1>5. Matched(us2, fs)
  <2> SUFFICES ASSUME NEW n \in FileIds, IsOriginal(fs, n), ~fs[n].lost
               PROVE  Match(us2[fs[n].owner].wrapped, fs[n].row)
    BY DEF Matched
  <2>1. fs[n].owner \in Here(us)
    BY DEF Sound, Owned, Stored, IsOriginal
  <2>2. us2[fs[n].owner] = us[fs[n].owner]
    BY <2>1 DEF Joined
  <2> QED  BY <2>2 DEF Sound, Matched
<1> QED  BY <1>1, <1>2, <1>3, <1>4, <1>5 DEF Sound

\* Chats and roots may change hands.
Relabelled(us, us2) ==
  /\ Here(us2) = Here(us)
  /\ \A v \in Here(us) : us2[v].wrapped = us[v].wrapped

LEMMA RelabelledIsSound ==
  ASSUME NEW us, NEW us2, NEW fs, NEW m \in Nat, NEW r \in Nat,
         Sound(us, fs, m, r), TypedUsers(us2), Relabelled(us, us2), OneAccount(us2)
  PROVE  Sound(us2, fs, m, r)
<1>1. InARow(us2)
  BY DEF Sound, InARow, Relabelled
<1>2. Owned(us2, fs)
  BY DEF Sound, Owned, Relabelled
<1>3. Known(us2, fs, r)
  <2>1. \A d : IsKnown(us, r, d) <=> IsKnown(us2, r, d)
    BY DEF IsKnown, Relabelled
  <2> QED  BY <2>1 DEF Sound, Known, KnownSecret, Relabelled
<1>4. Matched(us2, fs)
  <2> SUFFICES ASSUME NEW n \in FileIds, IsOriginal(fs, n), ~fs[n].lost
               PROVE  Match(us2[fs[n].owner].wrapped, fs[n].row)
    BY DEF Matched
  <2>1. fs[n].owner \in Here(us)
    BY DEF Sound, Owned, Stored, IsOriginal
  <2> QED  BY <2>1 DEF Relabelled, Sound, Matched
<1> QED  BY <1>1, <1>2, <1>3, <1>4 DEF Sound

\* With everything saved, the disk is as sound as the memory.
LEMMA SaveIsOnDisk ==
  ASSUME InMemory', Save
  PROVE  OnDisk'
<1>1. disk'.users = users' /\ disk'.files = files'
  BY DEF Save
<1>2. disk' \in [users : [UserIds -> User \union {NoUser}],
                files : [FileIds -> File \union {NoFile}]]
  BY <1>1 DEF Save, InMemory, Sound, TypedUsers, TypedFiles
<1>3. SameUsers' /\ Saved' /\ Unsaved'
  BY <1>1 DEF SameUsers, Saved, Unsaved, SameFile, IsOriginal
<1> QED  BY <1>1, <1>2, <1>3 DEF OnDisk, InMemory

LEMMA CreateUserKeepsInv ==
  ASSUME IInv, NEW kind \in Kinds, NEW chat \in Chats \union {NoChat},
         chat # NoChat => Holders(chat) = {}, CreateUser(kind, chat)
  PROVE  IInv'
<1> DEFINE u == Newcomer
           row == [kind |-> kind, chat |-> chat, root |-> u, wrapped |-> NoDek]
           full == [row EXCEPT !.wrapped = [dek |-> u, under |-> kek]]
           saved == [users EXCEPT ![u] = row]
<1>0. /\ u \in UserIds
      /\ disk' = [users |-> saved, files |-> files]
      /\ users' = [users EXCEPT ![u] = full]
      /\ UNCHANGED <<files, uploads, sending, bots, kek, made, rekeys>>
  BY DEF CreateUser
<1> HIDE DEF u
<1>1. /\ Sound(users, files, made, rekeys) /\ made \in Nat /\ rekeys \in Nat
      /\ kek \in Keks /\ users \in [UserIds -> User \union {NoUser}]
  BY Bounds DEF IInv, InMemory, Typed, Sound, TypedUsers
<1>2. row \in User /\ full \in User /\ row # NoUser /\ full # NoUser
  <2>1. u \in Deks
    BY <1>0, KeysAssumption DEF UserIds, Deks
  <2> QED  BY <1>0, <1>1, <2>1, SentinelAssumption DEF User
<1>3. TypedUsers(saved) /\ TypedUsers(users')
  BY <1>0, <1>1, <1>2 DEF TypedUsers
<1>4. \A v \in UserIds : v \in Here(users) <=> v < u
  BY <1>1, NewcomerIsNext DEF Sound, u
<1>5. u \notin Here(users) /\ u \in Nat
  BY <1>0, <1>4, Bounds
<1>6. \A c \in Chats : chat = c => \A v \in Here(users) : users[v].chat # c
  BY SentinelAssumption DEF Holders, Present, Here
<1>7. Joined(users, saved, u)
  <2>1. saved[u] = row /\ (\A v \in UserIds : v # u => saved[v] = users[v])
    BY <1>0, <1>1
  <2>2. Here(saved) = Here(users) \union {u}
    BY <1>0, <1>2, <2>1 DEF Here
  <2> QED  BY <1>0, <1>4, <1>5, <1>6, <2>1, <2>2 DEF Joined, Here
<1>8. /\ users'[u] = full /\ \A v \in UserIds : v # u => users'[v] = users[v]
      /\ Here(users') = Here(users) \union {u}
  BY <1>0, <1>1, <1>2 DEF Here
<1>9. Joined(users, users', u)
  BY <1>0, <1>4, <1>5, <1>6, <1>8 DEF Joined, Here
<1>10. Sound(users', files, made, rekeys) /\ Sound(saved, files, made, rekeys)
  <2> HIDE DEF saved
  <2> QED  BY <1>1, <1>3, <1>7, <1>9, JoinedIsSound
<1>11. InMemory'
  BY <1>0, <1>10 DEF InMemory
<1>12. OnDisk'
  <2>1. disk'.users = saved /\ disk'.files = files /\ files' = files
    BY <1>0
  <2>2. disk' \in [users : [UserIds -> User \union {NoUser}],
                  files : [FileIds -> File \union {NoFile}]]
    BY <1>0, <1>1, <1>3 DEF Sound, TypedUsers, TypedFiles
  <2>3. SameUsers'
    BY <1>7, <1>9, <2>1 DEF Joined, SameUsers
  <2>4. Saved'
    BY <2>1 DEF Saved, SameFile, IsOriginal
  <2>5. Unsaved'
    <3> SUFFICES ASSUME NEW v \in Here(users'), users'[v].wrapped # saved[v].wrapped
                 PROVE  /\ users'[v].wrapped # NoDek /\ users'[v].wrapped.under = kek'
                        /\ OpensNothing(files', users'[v].wrapped.dek)
      BY <2>1 DEF Unsaved
    <3>1. v = u
      BY <1>7, <1>9 DEF Joined
    <3>2. users'[v].wrapped = [dek |-> u, under |-> kek]
      BY <3>1, <1>8
    <3>3. users'[v].wrapped # NoDek
      <4>1. [dek |-> u, under |-> kek] \in [dek : Deks, under : Keks]
        BY <1>0, <1>1, KeysAssumption DEF UserIds, Deks
      <4> QED  BY <3>2, <4>1, SentinelAssumption
    <3>4. OpensNothing(files, u)
      BY <1>0, <1>1, <1>5, Bounds DEF OpensNothing, Sound, Known, KnownSecret, IsKnown
    <3> QED  BY <1>0, <3>2, <3>3, <3>4
  <2> QED  BY <1>0, <1>10, <2>1, <2>2, <2>3, <2>4, <2>5 DEF OnDisk
<1>13. Typed'
  BY <1>0 DEF IInv, Typed
<1>14. Uploading'
  <2> SUFFICES ASSUME NEW n \in FileIds, uploads[n] # Nobody
               PROVE  /\ files[n] # NoFile /\ files[n].state = "uploading"
                      /\ files[n].row # NoRow => files[n].row.under = kek
                      /\ uploads[n] \in Here(users')
                      /\ Unwraps(users'[uploads[n]].wrapped)
    BY <1>0 DEF Uploading, Unwraps
  <2>1. uploads[n] \in Here(users)
    BY DEF IInv, Uploading
  <2>2. uploads[n] \in Here(users') /\ users'[uploads[n]] = users[uploads[n]]
    BY <1>9, <2>1 DEF Joined
  <2> QED  BY <2>2 DEF IInv, Uploading
<1>15. Sending'
  BY <1>0, <1>9 DEF IInv, Sending, Joined, KnownSecret, IsKnown
<1> QED  BY <1>11, <1>12, <1>13, <1>14, <1>15 DEF IInv

\* Files change hands, and are lost with that.
Handed(us, fs, fs2) ==
  \A n \in FileIds :
    \/ fs2[n] = fs[n]
    \/ /\ fs[n] # NoFile /\ fs2[n] # NoFile
       /\ fs2[n].row = fs[n].row /\ fs2[n].state = fs[n].state
       /\ fs2[n].lost /\ fs2[n].owner \in Here(us)

LEMMA HandedIsSound ==
  ASSUME NEW us, NEW fs, NEW fs2, NEW m \in Nat, NEW r \in Nat,
         Sound(us, fs, m, r), TypedFiles(fs2), Handed(us, fs, fs2)
  PROVE  Sound(us, fs2, m, r)
<1>1. Stored(fs2) = Stored(fs)
  BY DEF Stored, Handed
<1>2. \A n \in Stored(fs) : fs2[n].row = fs[n].row
  BY DEF Stored, Handed
<1>3. Owned(us, fs2)
  BY <1>1 DEF Sound, Owned, Handed, Stored
<1>4. Within(fs2, m) /\ Known(us, fs2, r)
  BY <1>1, <1>2 DEF Sound, Within, Known
<1>5. Matched(us, fs2)
  BY DEF Sound, Matched, Handed, IsOriginal
<1> QED  BY <1>3, <1>4, <1>5 DEF Sound

\* Accounts are linked or merged, and everything is saved.
LEMMA RelinkKeepsInv ==
  ASSUME IInv, TypedUsers(users'), TypedFiles(files'), OneAccount(users'),
         Relabelled(users, users'), Handed(users, files, files'), Save,
         UNCHANGED <<uploads, sending, bots, kek, made, rekeys>>
  PROVE  IInv'
<1>1. InMemory'
  <2>1. Sound(users, files, made, rekeys) /\ made \in Nat /\ rekeys \in Nat
    BY Bounds DEF IInv, InMemory, Typed
  <2>2. Sound(users, files', made, rekeys)
    BY <2>1, HandedIsSound
  <2>3. Sound(users', files', made, rekeys)
    BY <2>1, <2>2, RelabelledIsSound
  <2> QED  BY <2>3 DEF InMemory
<1>2. OnDisk'
  BY <1>1, SaveIsOnDisk
<1>3. Typed'
  BY DEF IInv, Typed
<1>4. Uploading'
  <2> SUFFICES ASSUME NEW n \in FileIds, uploads[n] # Nobody
               PROVE  /\ files'[n] # NoFile /\ files'[n].state = "uploading"
                      /\ files'[n].row # NoRow => files'[n].row.under = kek
                      /\ uploads[n] \in Here(users')
                      /\ Unwraps(users'[uploads[n]].wrapped)
    BY DEF Uploading, Unwraps
  <2>1. /\ files[n] # NoFile /\ files[n].state = "uploading"
        /\ files[n].row # NoRow => files[n].row.under = kek
        /\ uploads[n] \in Here(users)
        /\ Unwraps(users[uploads[n]].wrapped)
    BY DEF IInv, Uploading
  <2> QED  BY <2>1 DEF Relabelled, Handed
<1>5. Sending'
  <2> SUFFICES ASSUME NEW n \in FileIds, sending[n] # NoSecret
               PROVE  /\ uploads[n] # Nobody
                      /\ files'[n].row = NoRow
                      /\ KnownSecret(users', rekeys, sending[n])
    BY DEF Sending, KnownSecret, IsKnown
  <2>1. /\ uploads[n] # Nobody
        /\ files[n].row = NoRow
        /\ KnownSecret(users, rekeys, sending[n])
    BY DEF IInv, Sending
  <2> QED  BY <2>1 DEF Relabelled, Handed, KnownSecret, IsKnown
<1> QED  BY <1>1, <1>2, <1>3, <1>4, <1>5 DEF IInv

LEMMA LinkAccountKeepsInv ==
  ASSUME IInv, NEW c \in Chats, NEW u \in UserIds, LinkAccount(c, u)
  PROVE  IInv'
<1>1. u \in Here(users) /\ users' = Linked(c, u) /\ files' = files
  BY DEF LinkAccount, Present, Here
<1>2. /\ users \in [UserIds -> User \union {NoUser}] /\ OneAccount(users)
      /\ TypedFiles(files)
  BY DEF IInv, InMemory, Sound, TypedUsers
<1>3. \A v \in UserIds :
        users'[v] = IF v = u THEN [users[v] EXCEPT !.chat = c]
                    ELSE IF v \in Here(users) /\ users[v].chat = c
                      THEN [users[v] EXCEPT !.chat = NoChat] ELSE users[v]
  BY <1>1 DEF Linked, Holders, Present, Here
<1>4. \A v \in Here(users) : users[v] \in User
  BY <1>2 DEF Here
<1>6. /\ \A v \in Here(users) : /\ users'[v] \in User /\ users'[v].wrapped = users[v].wrapped
                                /\ users'[v].chat =
                                     IF v = u THEN c
                                     ELSE IF users[v].chat = c THEN NoChat
                                     ELSE users[v].chat
      /\ \A v \in UserIds \ Here(users) : users'[v] = NoUser
  <2>1. \A v \in Here(users) : /\ users'[v] \in User /\ users'[v].wrapped = users[v].wrapped
                               /\ users'[v].chat =
                                    IF v = u THEN c
                                    ELSE IF users[v].chat = c THEN NoChat
                                    ELSE users[v].chat
    <3> TAKE v \in Here(users)
    <3>1. v \in UserIds /\ users[v] \in User
      BY <1>4 DEF Here
    <3>2. CASE v = u
      <4>1. users'[v] = [users[v] EXCEPT !.chat = c]
        BY <1>3, <3>1, <3>2
      <4> QED  BY <3>1, <3>2, <4>1 DEF User
    <3>3. CASE v # u /\ users[v].chat = c
      <4>1. users'[v] = [users[v] EXCEPT !.chat = NoChat]
        BY <1>3, <3>1, <3>3
      <4> QED  BY <3>1, <3>3, <4>1 DEF User
    <3>4. CASE v # u /\ users[v].chat # c
      BY <1>3, <3>1, <3>4
    <3> QED  BY <3>2, <3>3, <3>4
  <2> QED  BY <1>1, <1>3, <2>1 DEF Here
<1>7. TypedUsers(users') /\ Relabelled(users, users')
  <2>1. users' = [v \in UserIds |-> users'[v]]
    BY <1>1 DEF Linked
  <2>2. \A v \in UserIds : users'[v] \in User \union {NoUser}
    BY <1>6
  <2>3. Here(users') = Here(users)
    BY <1>6, SentinelAssumption DEF Here
  <2> QED  BY <2>1, <2>2, <2>3, <1>6 DEF TypedUsers, Relabelled
<1>8. OneAccount(users')
  BY <1>2, <1>6, <1>7, SentinelAssumption DEF OneAccount, Relabelled
<1>9. Handed(users, files, files')
  BY <1>1 DEF Handed
<1> QED
  BY <1>1, <1>2, <1>7, <1>8, <1>9, RelinkKeepsInv DEF LinkAccount

\* Rows keep their DEK and stay of users; only their chats and roots change.
LEMMA RelabelledPointwise ==
  ASSUME NEW us, NEW us2, TypedUsers(us), us2 = [v \in UserIds |-> us2[v]],
         \A v \in Here(us) : us2[v] \in User /\ us2[v].wrapped = us[v].wrapped,
         \A v \in UserIds \ Here(us) : us2[v] = NoUser
  PROVE  TypedUsers(us2) /\ Relabelled(us, us2)
<1>1. \A v \in UserIds : us2[v] \in User \union {NoUser}
  OBVIOUS
<1>2. Here(us2) = Here(us)
  BY SentinelAssumption DEF Here
<1> QED  BY <1>1, <1>2 DEF TypedUsers, Relabelled

LEMMA UnifyKeepsInv ==
  ASSUME IInv, NEW c \in Chats, NEW u \in Here(users), NEW p \in Here(users),
         u # p, users[u].chat = c, Unify(c, u, p)
  PROVE  IInv'
<1>1. /\ users' = [HandedOver(u, p) EXCEPT ![u].chat = NoChat, ![p].chat = c]
      /\ files' = [n \in FileIds |->
                     IF files[n] # NoFile /\ files[n].owner = u
                       THEN [files[n] EXCEPT !.owner = p, !.lost = TRUE]
                       ELSE files[n]]
      /\ Save /\ UNCHANGED <<uploads, sending, bots, kek, made, rekeys>>
  BY DEF Unify
<1>2. /\ users \in [UserIds -> User \union {NoUser}] /\ OneAccount(users)
      /\ files \in [FileIds -> File \union {NoFile}]
      /\ u \in UserIds /\ p \in UserIds
  BY DEF IInv, InMemory, Sound, TypedUsers, TypedFiles, Here
<1> DEFINE rooted(v) == IF users[v].root = u THEN [users[v] EXCEPT !.root = p] ELSE users[v]
<1>3. \A v \in Here(users) :
        /\ rooted(v) \in User /\ rooted(v).wrapped = users[v].wrapped
        /\ rooted(v).chat = users[v].chat
  <2> TAKE v \in Here(users)
  <2>1. users[v] \in User
    BY <1>2 DEF Here
  <2>2. [users[v] EXCEPT !.root = p] \in User
    BY <1>2, <2>1 DEF User
  <2> QED  BY <2>1, <2>2 DEF User
<1>4. HandedOver(u, p) = [v \in UserIds |-> IF v \in Here(users) THEN rooted(v) ELSE NoUser]
  BY <1>2 DEF HandedOver, Here
<1> HIDE DEF rooted
<1> DEFINE base == [v \in UserIds |-> IF v \in Here(users) THEN rooted(v) ELSE NoUser]
<1>5. users' = [[base EXCEPT ![u] = [rooted(u) EXCEPT !.chat = NoChat]]
                   EXCEPT ![p] = [rooted(p) EXCEPT !.chat = c]]
  BY <1>1, <1>2, <1>4
<1>6. \A v \in UserIds :
        users'[v] = IF v = p THEN [rooted(p) EXCEPT !.chat = c]
                    ELSE IF v = u THEN [rooted(u) EXCEPT !.chat = NoChat]
                    ELSE IF v \in Here(users) THEN rooted(v) ELSE NoUser
  BY <1>2, <1>5
<1>7. users' = [v \in UserIds |-> users'[v]]
  BY <1>5
<1>8. \A v \in Here(users) :
        /\ users'[v] \in User /\ users'[v].wrapped = users[v].wrapped
        /\ users'[v].chat = IF v = p THEN c ELSE IF v = u THEN NoChat ELSE users[v].chat
  <2> TAKE v \in Here(users)
  <2>0. v \in UserIds
    BY DEF Here
  <2>1. CASE v = p
    <3>1. users'[v] = [rooted(v) EXCEPT !.chat = c]
      BY <1>6, <2>0, <2>1
    <3> QED  BY <1>3, <2>1, <3>1 DEF User
  <2>2. CASE v = u
    <3>1. users'[v] = [rooted(v) EXCEPT !.chat = NoChat]
      BY <1>6, <2>0, <2>2
    <3> QED  BY <1>3, <2>2, <3>1 DEF User
  <2>3. CASE v # p /\ v # u
    BY <1>3, <1>6, <2>0, <2>3
  <2> QED  BY <2>1, <2>2, <2>3
<1>9. \A v \in UserIds \ Here(users) : users'[v] = NoUser
  BY <1>6
<1>10. TypedUsers(users') /\ Relabelled(users, users')
  <2> HIDE DEF base
  <2> QED  BY <1>2, <1>7, <1>8, <1>9, RelabelledPointwise DEF TypedUsers
<1>11. OneAccount(users')
  <2> SUFFICES ASSUME NEW d \in Chats, NEW v \in Here(users), NEW w \in Here(users),
                      users'[v].chat = d, users'[w].chat = d
               PROVE  v = w
    BY <1>10 DEF OneAccount, Relabelled
  <2>1. \A x \in Here(users) : x # u => users[x].chat # c
    BY <1>2 DEF OneAccount
  <2>2. d # NoChat
    BY SentinelAssumption
  <2> QED  BY <1>2, <1>8, <2>1, <2>2 DEF OneAccount
<1>12. \A n \in FileIds :
         \/ files'[n] = files[n]
         \/ /\ files[n] \in File /\ files'[n] = [files[n] EXCEPT !.owner = p, !.lost = TRUE]
  BY <1>1, <1>2
<1>13. TypedFiles(files') /\ Handed(users, files, files')
  <2>1. \A n \in FileIds :
          /\ files'[n] \in File \union {NoFile}
          /\ \/ files'[n] = files[n]
             \/ /\ files[n] # NoFile /\ files'[n] # NoFile
                /\ files'[n].row = files[n].row /\ files'[n].state = files[n].state
                /\ files'[n].lost /\ files'[n].owner \in Here(users)
    <3> TAKE n \in FileIds
    <3>1. CASE files'[n] = files[n]
      BY <1>2, <3>1
    <3>2. CASE files[n] \in File /\ files'[n] = [files[n] EXCEPT !.owner = p, !.lost = TRUE]
      <4>1. files'[n] \in File
        BY <1>2, <3>2 DEF File
      <4>2. /\ files'[n].row = files[n].row /\ files'[n].state = files[n].state
            /\ files'[n].lost /\ files'[n].owner = p
        BY <3>2 DEF File
      <4> QED  BY <3>2, <4>1, <4>2, SentinelAssumption
    <3> QED  BY <1>12, <3>1, <3>2
  <2>2. files' = [n \in FileIds |-> files'[n]]
    BY <1>1
  <2> QED  BY <2>1, <2>2 DEF TypedFiles, Handed
<1> QED
  <2> HIDE DEF base
  <2> QED  BY <1>1, <1>10, <1>11, <1>13, RelinkKeepsInv

LEMMA AutoLinkKeepsInv ==
  ASSUME IInv, NEW c \in Chats, NEW p \in Here(users), Holders(c) = {},
         users' = [users EXCEPT ![p].chat = c], Save,
         UNCHANGED <<files, uploads, sending, bots, kek, made, rekeys>>
  PROVE  IInv'
<1>1. /\ users \in [UserIds -> User \union {NoUser}] /\ OneAccount(users)
      /\ TypedFiles(files) /\ p \in UserIds
      /\ \A v \in Here(users) : users[v] \in User /\ users[v].chat # c
  BY DEF IInv, InMemory, Sound, TypedUsers, Here, Holders, Present
<1>2. users' = [users EXCEPT ![p] = [users[p] EXCEPT !.chat = c]]
  BY <1>1
<1>3. \A v \in Here(users) :
        /\ users'[v] \in User /\ users'[v].wrapped = users[v].wrapped
        /\ users'[v].chat = IF v = p THEN c ELSE users[v].chat
  <2> TAKE v \in Here(users)
  <2>0. v \in UserIds
    BY DEF Here
  <2>1. CASE v = p
    <3>1. users'[v] = [users[v] EXCEPT !.chat = c]
      BY <1>1, <1>2, <2>1
    <3> QED  BY <1>1, <2>1, <3>1 DEF User
  <2>2. CASE v # p
    BY <1>1, <1>2, <2>0, <2>2
  <2> QED  BY <2>1, <2>2
<1>4. users' = [v \in UserIds |-> users'[v]]
  BY <1>1, <1>2
<1>5. \A v \in UserIds \ Here(users) : users'[v] = NoUser
  BY <1>1, <1>2 DEF Here
<1>6. TypedUsers(users') /\ Relabelled(users, users')
  BY <1>1, <1>3, <1>4, <1>5, RelabelledPointwise DEF TypedUsers
<1>7. OneAccount(users')
  <2> SUFFICES ASSUME NEW d \in Chats, NEW v \in Here(users), NEW w \in Here(users),
                      users'[v].chat = d, users'[w].chat = d
               PROVE  v = w
    BY <1>6 DEF OneAccount, Relabelled
  <2> QED  BY <1>1, <1>3 DEF OneAccount
<1>8. Handed(users, files, files') /\ TypedFiles(files')
  BY <1>1 DEF Handed
<1> QED  BY <1>6, <1>7, <1>8, RelinkKeepsInv

LEMMA LookUpKeepsInv ==
  ASSUME IInv, NEW c \in Chats, LookUp(c)
  PROVE  IInv'
<1> DEFINE u == First(Holders(c))
           p == Primary
           heir == IF p # Nobody THEN p
                   ELSE IF Cardinality(Present) = 1 THEN First(Present) ELSE Nobody
<1>1. Holders(c) \subseteq Present /\ Present = Here(users) /\ Present \subseteq UserIds
  BY DEF Holders, Present, Here
<1>2. \A S \in SUBSET Present : First(S) # Nobody => First(S) \in S
  <2> TAKE S \in SUBSET Present
  <2>1. CASE S = {}
    BY <2>1 DEF First
  <2>2. CASE S # {}
    BY <1>1, <2>2, FirstIsIn
  <2> QED  BY <2>1, <2>2
<1>3. p # Nobody => p \in Here(users)
  <2> DEFINE main == {v \in Present : users[v].kind = "main"}
             owning == {v \in Present : HasFiles(v)}
             web == {v \in Present : users[v].kind # "tg"}
  <2>1. p = IF main # {} THEN First(main) ELSE IF owning # {} THEN First(owning)
            ELSE First(web)
    BY DEF Primary
  <2>2. main \in SUBSET Present /\ owning \in SUBSET Present /\ web \in SUBSET Present
    OBVIOUS
  <2> HIDE DEF main, owning, web, p
  <2> QED  BY <1>1, <1>2, <2>1, <2>2
<1>4. heir # Nobody => heir \in Here(users)
  <2> HIDE DEF p
  <2> QED  BY <1>1, <1>2, <1>3
<1>5. u # Nobody => u \in Here(users) /\ users[u].chat = c
  BY <1>1, <1>2 DEF Holders
<1>6. u = Nobody => Holders(c) = {}
  BY <1>1, FirstIsIn
<1>7. CASE Merges(u, p) /\ Unify(c, u, p)
  <2> HIDE DEF u, p
  <2> QED  BY <1>3, <1>5, <1>7, UnifyKeepsInv DEF Merges
<1>8. CASE /\ u = Nobody /\ heir # Nobody
           /\ users' = [users EXCEPT ![heir].chat = c]
           /\ UNCHANGED <<files, uploads, sending, bots, kek, made, rekeys>>
           /\ Save
  <2> HIDE DEF u, heir
  <2> QED  BY <1>4, <1>6, <1>8, AutoLinkKeepsInv
<1>9. CASE u = Nobody /\ heir = Nobody /\ CreateUser("tg", c)
  <2> HIDE DEF u, heir
  <2> QED  BY <1>6, <1>9, CreateUserKeepsInv DEF Kinds
<1> QED
  <2>1. \/ Merges(u, p) /\ Unify(c, u, p)
        \/ /\ u = Nobody /\ heir # Nobody
           /\ users' = [users EXCEPT ![heir].chat = c]
           /\ UNCHANGED <<files, uploads, sending, bots, kek, made, rekeys>>
           /\ Save
        \/ u = Nobody /\ heir = Nobody /\ CreateUser("tg", c)
    BY DEF LookUp
  <2> HIDE DEF u, p, heir
  <2> QED  BY <2>1, <1>7, <1>8, <1>9

-------------------------------------------------------------------------------
\* Uploads.

LEMMA SoundGrows ==
  ASSUME NEW us, NEW fs, NEW m \in Nat, NEW r \in Nat, NEW m2 \in Nat, NEW r2 \in Nat,
         m <= m2, r <= r2, Sound(us, fs, m, r)
  PROVE  Sound(us, fs, m2, r2)
<1>1. Within(fs, m2)
  <2> SUFFICES ASSUME NEW n \in Stored(fs)
               PROVE  n <= m2 /\ (fs[n].row # NoRow => fs[n].row.node <= m2)
    BY DEF Within
  <2>1. n <= m /\ (fs[n].row # NoRow => fs[n].row.node <= m) /\ n \in FileIds
    BY DEF Sound, Within, Stored
  <2>2. fs[n].row # NoRow => fs[n].row.node \in FileIds
    BY <2>1 DEF Sound, TypedFiles, Stored, File, Row
  <2> QED  BY <2>1, <2>2, Bounds
<1>2. \A d \in Deks : IsKnown(us, r, d) => IsKnown(us, r2, d)
  BY Bounds DEF IsKnown, Deks
<1>3. \A u \in Here(us) : us[u].wrapped # NoDek => IsKnown(us, r2, us[u].wrapped.dek)
  <2> SUFFICES ASSUME NEW u \in Here(us), us[u].wrapped # NoDek
               PROVE  IsKnown(us, r2, us[u].wrapped.dek)
    OBVIOUS
  <2>1. us[u] \in User
    BY DEF Sound, TypedUsers, Here
  <2>2. us[u].wrapped \in [dek : Deks, under : Keks]
    BY <2>1 DEF User
  <2>3. us[u].wrapped.dek \in Deks
    BY <2>2
  <2> QED  BY <1>2, <2>3 DEF Sound, Known
<1>4. \A n \in Stored(fs) : fs[n].row # NoRow => KnownSecret(us, r2, fs[n].row.secret)
  <2> SUFFICES ASSUME NEW n \in Stored(fs), fs[n].row # NoRow, fs[n].row.secret.kind = "dek"
               PROVE  IsKnown(us, r2, fs[n].row.secret.id)
    BY DEF KnownSecret
  <2>1. fs[n] \in File
    BY DEF Sound, TypedFiles, Stored
  <2>2. fs[n].row \in Row
    BY <2>1 DEF File
  <2>3. fs[n].row.secret \in Secret
    BY <2>2 DEF Row
  <2>4. fs[n].row.secret.id \in Deks
    BY <2>3 DEF Secret
  <2>5. IsKnown(us, r, fs[n].row.secret.id)
    BY DEF Sound, Known, KnownSecret
  <2> QED  BY <1>2, <2>4, <2>5
<1> QED  BY <1>1, <1>3, <1>4 DEF Sound, Known

\* fs2 is fs and one file more, which is not a finished upload.
Added(us, fs, fs2, m, r) ==
  /\ m + 1 \in FileIds
  /\ \A n \in FileIds : n # m + 1 => fs2[n] = fs[n]
  /\ fs2[m + 1] \in File
  /\ fs2[m + 1].owner \in Here(us)
  /\ fs2[m + 1].row # NoRow =>
       fs2[m + 1].row.node <= m + 1 /\ KnownSecret(us, r, fs2[m + 1].row.secret)
  /\ ~IsOriginal(fs2, m + 1)

LEMMA AddedIsSound ==
  ASSUME NEW us, NEW fs, NEW fs2, NEW m \in Nat, NEW r \in Nat,
         Sound(us, fs, m, r), TypedFiles(fs2), Added(us, fs, fs2, m, r)
  PROVE  Sound(us, fs2, m + 1, r)
<1>0. Sound(us, fs, m + 1, r)
  BY SoundGrows
<1>1. \A n \in Stored(fs2) : n = m + 1 \/ (n # m + 1 /\ n \in Stored(fs) /\ fs2[n] = fs[n])
  BY DEF Stored, Added
<1>2. Owned(us, fs2)
  BY <1>0, <1>1 DEF Sound, Owned, Added
<1>3. Within(fs2, m + 1)
  BY <1>0, <1>1 DEF Sound, Within, Added
<1>4. Known(us, fs2, r)
  BY <1>0, <1>1 DEF Sound, Known, Added
<1>5. Matched(us, fs2)
  BY DEF Sound, Matched, Added, IsOriginal
<1> QED  BY <1>0, <1>2, <1>3, <1>4, <1>5 DEF Sound

\* A step that saves nothing and finishes no upload.
LEMMA QuietStep ==
  ASSUME IInv, Typed', InMemory', Uploading', Sending', Unsaved',
         Here(users') = Here(users), made <= made', rekeys <= rekeys', disk' = disk,
         \A n \in FileIds : IsOriginal(files', n) =>
           files[n] # NoFile /\ SameFile(files[n], files'[n])
  PROVE  IInv'
<1>1. /\ made \in Nat /\ made' \in Nat /\ rekeys \in Nat /\ rekeys' \in Nat
  BY Bounds DEF IInv, Typed
<1>2. Sound(disk.users, disk.files, made', rekeys')
  BY <1>1, SoundGrows DEF IInv, OnDisk
<1>3. SameUsers'
  BY DEF IInv, OnDisk, SameUsers
<1>4. Saved'
  BY DEF IInv, OnDisk, Saved, SameFile, IsOriginal
<1> QED  BY <1>2, <1>3, <1>4 DEF IInv, OnDisk

\* Nothing is stored yet under the next number, and nothing uses it.
LEMMA NextIsFree ==
  ASSUME IInv, made < MaxFiles
  PROVE  /\ made + 1 \in FileIds /\ files[made + 1] = NoFile
         /\ uploads[made + 1] = Nobody /\ sending[made + 1] = NoSecret
         /\ made + 1 \in 0 .. MaxFiles /\ made \in Nat /\ rekeys \in Nat
<1>1. /\ made + 1 \in FileIds /\ made \in Nat /\ rekeys \in Nat
      /\ made + 1 \in 0 .. MaxFiles
  BY Bounds DEF IInv, Typed, FileIds
<1>2. made + 1 \notin Stored(files)
  BY <1>1 DEF IInv, InMemory, Sound, Within
<1>3. files[made + 1] = NoFile
  BY <1>1, <1>2 DEF Stored
<1> QED  BY <1>1, <1>3 DEF IInv, Uploading, Sending

\* The DEK that the owner is left with unwraps, and nothing in memory is sealed
\* with it if it is new.
LEMMA DekStep ==
  ASSUME IInv, NEW u \in Here(users), UserDek(u), NEW fs2, fs2 = FilesAfterDek(u),
         kek' = kek
  PROVE  /\ rekeys' \in 0 .. MaxRekeys /\ rekeys <= rekeys'
         /\ Sound(users', fs2, made, rekeys')
         /\ Here(users') = Here(users)
         /\ Unwraps(users'[u].wrapped)
         /\ \A v \in Here(users) : v # u => users'[v] = users[v]
         /\ \A n \in FileIds : \/ fs2[n] = files[n]
                               \/ /\ files[n] # NoFile /\ fs2[n] # NoFile
                                  /\ SameFile(files[n], fs2[n])
         /\ \A v \in Here(users) : users'[v].wrapped # disk.users[v].wrapped =>
              /\ users'[v].wrapped # NoDek /\ users'[v].wrapped.under = kek
              /\ OpensNothing(fs2, users'[v].wrapped.dek)
<1>0. /\ Sound(users, files, made, rekeys) /\ made \in Nat /\ rekeys \in 0 .. MaxRekeys
      /\ rekeys \in Nat /\ kek \in Keks /\ u \in UserIds
      /\ users \in [UserIds -> User \union {NoUser}]
      /\ files \in [FileIds -> File \union {NoFile}]
  BY Bounds DEF IInv, InMemory, Typed, Sound, TypedUsers, TypedFiles, Here
<1>1. CASE ~Replaces(u)
  <2>1. users' = users /\ rekeys' = rekeys
    BY <1>1 DEF UserDek
  <2>2. fs2 = [n \in FileIds |-> files[n]]
    BY <1>1 DEF FilesAfterDek
  <2>3. fs2 = files
    BY <1>0, <2>2
  <2>4. Unwraps(users[u].wrapped)
    BY <1>1 DEF Replaces, Unwraps
  <2> QED  BY <1>0, <2>1, <2>3, <2>4 DEF IInv, OnDisk, Unsaved
<1>2. CASE Replaces(u)
  <2> DEFINE d == MaxUsers + rekeys + 1
             old == [kind |-> "dek", id |-> users[u].wrapped.dek]
             w == [dek |-> d, under |-> kek]
  <2>1. /\ rekeys < MaxRekeys /\ rekeys' = rekeys + 1
        /\ users' = [users EXCEPT ![u].wrapped = w]
        /\ users[u].wrapped # NoDek /\ users[u] \in User
    BY <1>0, <1>2 DEF UserDek, Replaces, Here
  <2>2. w \in [dek : Deks, under : Keks] /\ d \in Nat /\ d > MaxUsers + rekeys
    BY <1>0, <2>1, KeysAssumption DEF Deks
  <2>3. /\ rekeys' \in 0 .. MaxRekeys /\ rekeys' \in Nat /\ rekeys <= rekeys'
    BY <1>0, <2>1, Bounds
  <2>4. /\ w # NoDek /\ w.dek = d /\ w.under = kek
    BY <2>2, SentinelAssumption
  <2>5. users' = [users EXCEPT ![u] = [users[u] EXCEPT !.wrapped = w]]
    BY <1>0, <2>1
  <2> HIDE DEF w, d
  <2>6. /\ users'[u] = [users[u] EXCEPT !.wrapped = w]
        /\ \A v \in UserIds : v # u => users'[v] = users[v]
    BY <1>0, <2>5
  <2>7. /\ users'[u] \in User /\ users'[u].wrapped = w /\ users'[u].chat = users[u].chat
    BY <2>1, <2>2, <2>6 DEF User
  <2>8. TypedUsers(users')
    BY <1>0, <2>5, <2>7 DEF TypedUsers
  <2>9. Here(users') = Here(users)
    BY <1>0, <2>6, <2>7, SentinelAssumption DEF Here
  <2>10. InARow(users') /\ OneAccount(users')
    <3>1. \A v \in Here(users) : v \in UserIds /\ users'[v].chat = users[v].chat
      BY <2>6, <2>7 DEF Here
    <3> QED  BY <1>0, <2>9, <3>1 DEF Sound, InARow, OneAccount
  <2>11. \A n \in FileIds :
           \/ /\ fs2[n] = files[n]
              /\ (files[n] # NoFile /\ files[n].row # NoRow) => files[n].row.secret # old
           \/ /\ files[n] # NoFile /\ files[n] \in File
              /\ fs2[n] = [files[n] EXCEPT !.lost = TRUE]
    BY <1>0, <1>2 DEF FilesAfterDek
  <2>12. \A n \in FileIds :
           \/ /\ fs2[n] = files[n]
              /\ (files[n] # NoFile /\ files[n].row # NoRow) => files[n].row.secret # old
           \/ /\ files[n] # NoFile /\ fs2[n] \in File /\ fs2[n].lost
              /\ SameFile(files[n], fs2[n])
    <3> TAKE n \in FileIds
    <3>1. CASE files[n] # NoFile /\ files[n] \in File
               /\ fs2[n] = [files[n] EXCEPT !.lost = TRUE]
      BY <3>1 DEF File, SameFile
    <3> QED  BY <2>11, <3>1
  <2>13. TypedFiles(fs2)
    <3>1. fs2 = [n \in FileIds |-> fs2[n]]
      BY DEF FilesAfterDek
    <3>2. \A n \in FileIds : fs2[n] \in File \union {NoFile}
      BY <1>0, <2>12
    <3> QED  BY <3>1, <3>2 DEF TypedFiles
  <2>14. \A n \in FileIds : \/ fs2[n] = files[n]
                            \/ /\ files[n] # NoFile /\ fs2[n] # NoFile
                               /\ SameFile(files[n], fs2[n])
    BY <2>12, SentinelAssumption
  <2>15. Stored(fs2) = Stored(files)
         /\ \A n \in Stored(files) : /\ fs2[n].row = files[n].row
                                     /\ fs2[n].owner = files[n].owner
    BY <2>14 DEF Stored, SameFile
  <2>16. Owned(users', fs2) /\ Within(fs2, made)
    BY <1>0, <2>9, <2>15 DEF Sound, Owned, Within
  <2>17. Sound(users, files, made, rekeys')
    BY <1>0, <2>3, SoundGrows
  <2>18. Known(users', fs2, rekeys')
    <3>1. \A x : IsKnown(users, rekeys', x) <=> IsKnown(users', rekeys', x)
      BY <2>9 DEF IsKnown
    <3>2. IsKnown(users', rekeys', d)
      BY <1>0, <2>1, Bounds DEF IsKnown, d
    <3>3. \A v \in Here(users') :
            users'[v].wrapped # NoDek => IsKnown(users', rekeys', users'[v].wrapped.dek)
      <4> TAKE v \in Here(users')
      <4>1. CASE v = u
        BY <3>2, <2>4, <2>7, <4>1
      <4>2. CASE v # u
        BY <2>6, <2>9, <2>17, <3>1, <4>2 DEF Sound, Known, Here
      <4> QED  BY <4>1, <4>2
    <3>4. \A n \in Stored(fs2) :
            fs2[n].row # NoRow => KnownSecret(users', rekeys', fs2[n].row.secret)
      BY <2>15, <2>17, <3>1 DEF Sound, Known, KnownSecret
    <3> QED  BY <3>3, <3>4 DEF Known
  <2>19. Matched(users', fs2)
    <3> SUFFICES ASSUME NEW n \in FileIds, IsOriginal(fs2, n), ~fs2[n].lost
                 PROVE  Match(users'[fs2[n].owner].wrapped, fs2[n].row)
      BY DEF Matched
    <3>1. fs2[n] = files[n] /\ files[n].row.secret # old
      BY <2>12 DEF IsOriginal
    <3>2. IsOriginal(files, n) /\ ~files[n].lost
      BY <3>1 DEF IsOriginal
    <3>3. Match(users[files[n].owner].wrapped, files[n].row)
      BY <1>0, <3>2 DEF Sound, Matched
    <3>4. files[n].owner # u
      BY <2>1, <3>1, <3>3 DEF Match
    <3>5. files[n].owner \in UserIds
      BY <1>0, <3>2 DEF IsOriginal, Sound, Owned, Stored, Here
    <3> QED  BY <2>6, <3>1, <3>3, <3>4, <3>5
  <2>20. Sound(users', fs2, made, rekeys')
    BY <2>8, <2>10, <2>13, <2>16, <2>18, <2>19 DEF Sound
  <2>21. OpensNothing(fs2, d)
    <3> SUFFICES ASSUME NEW n \in Stored(fs2), fs2[n].row # NoRow,
                        fs2[n].row.secret = [kind |-> "dek", id |-> d]
                 PROVE  FALSE
      BY DEF OpensNothing
    <3>1. KnownSecret(users, rekeys, fs2[n].row.secret)
      BY <1>0, <2>15 DEF Sound, Known
    <3>2. d <= MaxUsers + rekeys
      BY <3>1 DEF KnownSecret, IsKnown
    <3> QED  BY <3>2, <2>2, <1>0, Bounds
  <2>22. \A x : OpensNothing(files, x) => OpensNothing(fs2, x)
    BY <2>15 DEF OpensNothing
  <2>23. ASSUME NEW v \in Here(users), users'[v].wrapped # disk.users[v].wrapped
         PROVE  /\ users'[v].wrapped # NoDek /\ users'[v].wrapped.under = kek
                /\ OpensNothing(fs2, users'[v].wrapped.dek)
    <3>1. CASE v = u
      BY <3>1, <2>4, <2>7, <2>21
    <3>2. CASE v # u
      BY <3>2, <2>6, <2>22, <2>23 DEF IInv, OnDisk, Unsaved, Here
    <3> QED  BY <3>1, <3>2
  <2>24. Unwraps(users'[u].wrapped)
    BY <2>4, <2>7 DEF Unwraps
  <2>25. \A v \in Here(users) : v # u => users'[v] = users[v]
    BY <2>6 DEF Here
  <2> QED  BY <2>3, <2>9, <2>14, <2>20, <2>23, <2>24, <2>25
<1> QED  BY <1>1, <1>2

\* The secret that the owner's row names now was made.
LEMMA SecretIsKnown ==
  ASSUME NEW us, NEW fs, NEW m, NEW r, NEW u \in Here(us), Sound(us, fs, m, r),
         kek \in Keks
  PROVE  SecretIn(us, u) \in Secret /\ KnownSecret(us, r, SecretIn(us, u))
<1>1. us[u] \in User
  BY DEF Sound, TypedUsers, Here
<1>2. us[u].wrapped \in [dek : Deks, under : Keks] \union {NoDek}
  BY <1>1 DEF User
<1>3. CASE us[u].wrapped # NoDek /\ us[u].wrapped.under = kek
  <2>1. SecretIn(us, u) = [kind |-> "dek", id |-> us[u].wrapped.dek]
    BY <1>3 DEF SecretIn
  <2>2. us[u].wrapped.dek \in Deks
    BY <1>2, <1>3
  <2>3. IsKnown(us, r, us[u].wrapped.dek)
    BY <1>3 DEF Sound, Known
  <2> QED  BY <2>1, <2>2, <2>3 DEF Secret, KnownSecret
<1>4. CASE ~(us[u].wrapped # NoDek /\ us[u].wrapped.under = kek)
  <2>1. SecretIn(us, u) = [kind |-> "kek", id |-> kek]
    BY <1>4 DEF SecretIn
  <2> QED  BY <2>1 DEF Secret, KnownSecret
<1> QED  BY <1>3, <1>4

LEMMA BeginKeepsInv ==
  ASSUME IInv, NEW u \in UserIds, NEW r \in UserIds, NEW bot \in BOOLEAN, Begin(u, r, bot)
  PROVE  IInv'
<1> DEFINE n == made + 1
           fs == FilesAfterDek(u)
           f == NewFile(u, r, "uploading", NoRow)
<1>1. /\ u \in Here(users) /\ made < MaxFiles /\ n = made'
      /\ UserDek(u)
      /\ files' = [fs EXCEPT ![n] = f]
      /\ uploads' = [uploads EXCEPT ![n] = u]
      /\ bots' \subseteq bots \union {n}
      /\ UNCHANGED <<disk, sending, kek>>
  BY DEF Begin, Present, Here
<1>2. /\ n \in FileIds /\ files[n] = NoFile /\ uploads[n] = Nobody
      /\ sending[n] = NoSecret /\ n \in 0 .. MaxFiles /\ made \in Nat
  BY <1>1, NextIsFree
<1>3. /\ rekeys' \in 0 .. MaxRekeys /\ rekeys <= rekeys' /\ rekeys' \in Nat
      /\ Sound(users', fs, made, rekeys')
      /\ Here(users') = Here(users)
      /\ Unwraps(users'[u].wrapped)
      /\ \A v \in Here(users) : v # u => users'[v] = users[v]
      /\ \A k \in FileIds : \/ fs[k] = files[k]
                            \/ /\ files[k] # NoFile /\ fs[k] # NoFile
                               /\ SameFile(files[k], fs[k])
      /\ \A v \in Here(users) : users'[v].wrapped # disk.users[v].wrapped =>
           /\ users'[v].wrapped # NoDek /\ users'[v].wrapped.under = kek
           /\ OpensNothing(fs, users'[v].wrapped.dek)
  BY <1>1, DekStep, Bounds
<1>4. /\ f \in File /\ f # NoFile /\ f.owner = u /\ f.state = "uploading" /\ f.row = NoRow
  <2> DEFINE g == [owner |-> u, root |-> r, state |-> "uploading", row |-> NoRow,
                   lost |-> FALSE]
  <2>1. f = g
    BY DEF NewFile
  <2>2. g \in File
    BY DEF File
  <2> HIDE DEF f
  <2> QED  BY <2>1, <2>2, SentinelAssumption
<1>5. /\ fs \in [FileIds -> File \union {NoFile}]
      /\ uploads \in [FileIds -> UserIds \union {Nobody}]
  BY <1>3 DEF IInv, Typed, Sound, TypedFiles
<1> HIDE DEF fs, f, n
<1>6. files'[n] = f /\ \A k \in FileIds : k # n => files'[k] = fs[k]
  BY <1>1, <1>2, <1>5
<1>7. uploads'[n] = u /\ \A k \in FileIds : k # n => uploads'[k] = uploads[k]
  BY <1>1, <1>2, <1>5
<1>8. Typed'
  <2>1. uploads' \in [FileIds -> UserIds \union {Nobody}]
    BY <1>1, <1>5
  <2>2. bots' \subseteq {k \in FileIds : uploads'[k] # Nobody}
    BY <1>1, <1>2, <1>7, Bounds DEF IInv, Typed
  <2> QED  BY <1>1, <1>2, <1>3, <2>1, <2>2 DEF IInv, Typed
<1>9. InMemory'
  <2>1. TypedFiles(files')
    BY <1>1, <1>4, <1>5 DEF TypedFiles
  <2>2. Added(users', fs, files', made, rekeys')
    BY <1>1, <1>2, <1>3, <1>4, <1>6 DEF Added, IsOriginal, n
  <2> QED  BY <1>1, <1>2, <1>3, <2>1, <2>2, AddedIsSound DEF InMemory, n
<1>10. Uploading'
  <2> SUFFICES ASSUME NEW k \in FileIds, uploads'[k] # Nobody
               PROVE  /\ files'[k] # NoFile /\ files'[k].state = "uploading"
                      /\ files'[k].row # NoRow => files'[k].row.under = kek
                      /\ uploads'[k] \in Here(users')
                      /\ Unwraps(users'[uploads'[k]].wrapped)
    BY <1>1 DEF Uploading, Unwraps
  <2>1. CASE k = n
    BY <1>1, <1>3, <1>4, <1>6, <1>7, <2>1
  <2>2. CASE k # n
    <3>1. /\ files[k] # NoFile /\ files[k].state = "uploading"
          /\ files[k].row # NoRow => files[k].row.under = kek
          /\ uploads[k] \in Here(users)
          /\ Unwraps(users[uploads[k]].wrapped)
      BY <1>7, <2>2 DEF IInv, Uploading
    <3>2. /\ files'[k] # NoFile /\ files'[k].state = "uploading"
          /\ files'[k].row # NoRow => files'[k].row.under = kek
      BY <1>3, <1>6, <2>2, <3>1 DEF SameFile
    <3>3. Unwraps(users'[uploads[k]].wrapped)
      BY <1>3, <3>1
    <3> QED  BY <1>3, <1>7, <2>2, <3>1, <3>2, <3>3
  <2> QED  BY <2>1, <2>2
<1>11. Sending'
  <2> SUFFICES ASSUME NEW k \in FileIds, sending[k] # NoSecret
               PROVE  /\ uploads'[k] # Nobody
                      /\ files'[k].row = NoRow
                      /\ KnownSecret(users', rekeys', sending[k])
    BY <1>1 DEF Sending, KnownSecret, IsKnown
  <2>1. /\ uploads[k] # Nobody
        /\ files[k].row = NoRow
        /\ KnownSecret(users, rekeys, sending[k])
    BY DEF IInv, Sending
  <2>2. k # n
    BY <1>2
  <2>3. files'[k].row = NoRow
    BY <1>3, <1>6, <2>1, <2>2 DEF SameFile
  <2>4. KnownSecret(users', rekeys', sending[k])
    <3>1. sending[k] \in Secret
      BY DEF IInv, Typed
    <3>2. sending[k].kind = "dek" => sending[k].id \in Deks
      BY <3>1 DEF Secret
    <3>3. rekeys \in Nat
      BY Bounds DEF IInv, Typed
    <3> QED  BY <1>3, <2>1, <3>2, <3>3, Bounds DEF KnownSecret, IsKnown, Deks
  <2> QED  BY <1>7, <2>1, <2>2, <2>3, <2>4
<1>12. Unsaved'
  <2>1. \A x : OpensNothing(fs, x) => OpensNothing(files', x)
    BY <1>4, <1>6 DEF OpensNothing, Stored
  <2> QED  BY <1>1, <1>3, <2>1 DEF Unsaved
<1>13. \A k \in FileIds : IsOriginal(files', k) =>
         files[k] # NoFile /\ SameFile(files[k], files'[k])
  <2> SUFFICES ASSUME NEW k \in FileIds, IsOriginal(files', k)
               PROVE  files[k] # NoFile /\ SameFile(files[k], files'[k])
    OBVIOUS
  <2>1. k # n
    BY <1>4, <1>6 DEF IsOriginal
  <2>2. files'[k] = fs[k] /\ fs[k] # NoFile
    BY <1>6, <2>1 DEF IsOriginal
  <2> QED  BY <1>3, <2>2 DEF SameFile
<1>14. made <= made'
  BY <1>1, <1>2 DEF n
<1> QED
  BY <1>1, <1>3, <1>8, <1>9, <1>10, <1>11, <1>12, <1>13, <1>14, QuietStep

LEMMA SealKeepsInv ==
  ASSUME IInv, NEW n \in FileIds, Seal(n)
  PROVE  IInv'
<1> DEFINE u == uploads[n]
           fs == FilesAfterDek(u)
           s == SecretIn(users', u)
<1>1. /\ u # Nobody /\ files[n].row = NoRow
      /\ UserDek(u)
      /\ files' = fs
      /\ sending' = [sending EXCEPT ![n] = s]
      /\ UNCHANGED <<disk, uploads, bots, kek, made>>
  BY DEF Seal
<1>2. u \in Here(users) /\ files[n] # NoFile
  BY <1>1 DEF IInv, Uploading
<1>3. /\ rekeys' \in 0 .. MaxRekeys /\ rekeys <= rekeys' /\ rekeys' \in Nat
      /\ Sound(users', fs, made, rekeys')
      /\ Here(users') = Here(users)
      /\ Unwraps(users'[u].wrapped)
      /\ \A v \in Here(users) : v # u => users'[v] = users[v]
      /\ \A k \in FileIds : \/ fs[k] = files[k]
                            \/ /\ files[k] # NoFile /\ fs[k] # NoFile
                               /\ SameFile(files[k], fs[k])
      /\ \A v \in Here(users) : users'[v].wrapped # disk.users[v].wrapped =>
           /\ users'[v].wrapped # NoDek /\ users'[v].wrapped.under = kek
           /\ OpensNothing(fs, users'[v].wrapped.dek)
  BY <1>1, <1>2, DekStep, Bounds
<1>4. /\ sending \in [FileIds -> Secret \union {NoSecret}] /\ kek \in Keks
      /\ made \in Nat /\ rekeys \in Nat
  BY Bounds DEF IInv, Typed
<1>5. s \in Secret /\ KnownSecret(users', rekeys', s)
  <2> HIDE DEF fs
  <2> QED  BY <1>2, <1>3, <1>4, SecretIsKnown
<1> HIDE DEF fs, s, u
<1>6. sending'[n] = s /\ \A k \in FileIds : k # n => sending'[k] = sending[k]
  BY <1>1, <1>4
<1>7. Typed'
  <2>1. sending' \in [FileIds -> Secret \union {NoSecret}]
    BY <1>1, <1>4, <1>5
  <2> QED  BY <1>1, <1>3, <2>1 DEF IInv, Typed
<1>8. InMemory'
  BY <1>1, <1>3 DEF InMemory
<1>9. Uploading'
  <2> SUFFICES ASSUME NEW k \in FileIds, uploads[k] # Nobody
               PROVE  /\ files'[k] # NoFile /\ files'[k].state = "uploading"
                      /\ files'[k].row # NoRow => files'[k].row.under = kek
                      /\ uploads[k] \in Here(users')
                      /\ Unwraps(users'[uploads[k]].wrapped)
    BY <1>1 DEF Uploading, Unwraps
  <2>1. /\ files[k] # NoFile /\ files[k].state = "uploading"
        /\ files[k].row # NoRow => files[k].row.under = kek
        /\ uploads[k] \in Here(users)
        /\ Unwraps(users[uploads[k]].wrapped)
    BY DEF IInv, Uploading
  <2>2. /\ files'[k] # NoFile /\ files'[k].state = "uploading"
        /\ files'[k].row # NoRow => files'[k].row.under = kek
    BY <1>1, <1>3, <2>1 DEF SameFile
  <2>3. Unwraps(users'[uploads[k]].wrapped)
    BY <1>3, <2>1
  <2> QED  BY <1>3, <2>1, <2>2, <2>3
<1>10. Sending'
  <2> SUFFICES ASSUME NEW k \in FileIds, sending'[k] # NoSecret
               PROVE  /\ uploads[k] # Nobody
                      /\ files'[k].row = NoRow
                      /\ KnownSecret(users', rekeys', sending'[k])
    BY <1>1 DEF Sending, KnownSecret, IsKnown
  <2>1. CASE k = n
    BY <1>1, <1>2, <1>3, <1>5, <1>6, <2>1 DEF SameFile, u
  <2>2. CASE k # n
    <3>1. /\ uploads[k] # Nobody
          /\ files[k].row = NoRow
          /\ KnownSecret(users, rekeys, sending[k])
      BY <1>6, <2>2 DEF IInv, Sending
    <3>2. files'[k].row = NoRow
      BY <1>1, <1>3, <3>1 DEF SameFile
    <3>3. sending[k] \in Secret
      BY <1>4, <1>6, <2>2
    <3>4. sending[k].kind = "dek" => sending[k].id \in Deks
      BY <3>3 DEF Secret
    <3>5. KnownSecret(users', rekeys', sending[k])
      BY <1>3, <1>4, <3>1, <3>4, Bounds DEF KnownSecret, IsKnown, Deks
    <3> QED  BY <1>6, <2>2, <3>1, <3>2, <3>5
  <2> QED  BY <2>1, <2>2
<1>11. Unsaved'
  BY <1>1, <1>3 DEF Unsaved
<1>12. \A k \in FileIds : IsOriginal(files', k) =>
         files[k] # NoFile /\ SameFile(files[k], files'[k])
  BY <1>1, <1>3 DEF IsOriginal, SameFile
<1>13. made <= made'
  BY <1>1, <1>4
<1> QED
  BY <1>1, <1>3, <1>7, <1>8, <1>9, <1>10, <1>11, <1>12, <1>13, QuietStep

\* The same for a step that leaves the accounts and the sending as they are and
\* adds a file that is nobody's upload.
LEMMA AddedKeepsSessions ==
  ASSUME IInv, made < MaxFiles, UNCHANGED <<users, uploads, sending, kek, rekeys>>,
         \A n \in FileIds : n # made + 1 => files'[n] = files[n]
  PROVE  Uploading' /\ Sending'
<1>1. uploads[made + 1] = Nobody /\ sending[made + 1] = NoSecret
  BY NextIsFree
<1>2. \A n \in FileIds : uploads[n] # Nobody => files'[n] = files[n]
  BY <1>1
<1>3. \A n \in FileIds : sending[n] # NoSecret => files'[n] = files[n]
  BY <1>1
<1>4. Uploading'
  BY <1>2 DEF IInv, Uploading, Unwraps
<1>5. Sending'
  BY <1>3 DEF IInv, Sending, KnownSecret, IsKnown
<1> QED  BY <1>4, <1>5

LEMMA CopyKeepsInv ==
  ASSUME IInv, NEW n \in FileIds, Copy(n)
  PROVE  IInv'
<1> DEFINE k == made + 1
<1>1. /\ files[n] # NoFile /\ made < MaxFiles /\ made' = k
      /\ files' = [files EXCEPT ![k] = files[n]]
      /\ UNCHANGED <<users, disk, uploads, sending, bots, kek, rekeys>>
  BY DEF Copy
<1>2. /\ k \in FileIds /\ files[k] = NoFile /\ k \in 0 .. MaxFiles
      /\ made \in Nat /\ rekeys \in Nat
  BY <1>1, NextIsFree
<1>3. /\ files \in [FileIds -> File \union {NoFile}] /\ n \in Stored(files)
      /\ Sound(users, files, made, rekeys)
  BY <1>1 DEF IInv, InMemory, Sound, TypedFiles, Stored
<1>4. /\ files'[k] = files[n] /\ \A j \in FileIds : j # k => files'[j] = files[j]
      /\ files' \in [FileIds -> File \union {NoFile}]
  BY <1>1, <1>2, <1>3
<1>5. /\ files[n] \in File /\ files[n].owner \in Here(users)
      /\ files[n].row # NoRow => /\ files[n].row \in Row
                                 /\ files[n].row.node <= made
                                 /\ KnownSecret(users, rekeys, files[n].row.secret)
  <2>1. files[n] \in File
    BY <1>1, <1>3
  <2>2. files[n].row # NoRow => files[n].row \in Row
    BY <2>1 DEF File
  <2> QED  BY <1>3, <2>1, <2>2 DEF Sound, Owned, Within, Known
<1>6. files[n].row # NoRow => files[n].row.node \in Nat /\ files[n].row.node # k
  BY <1>2, <1>5, Bounds DEF Row
<1>7. InMemory'
  <2>1. Added(users, files, files', made, rekeys)
    BY <1>2, <1>4, <1>5, <1>6 DEF Added, IsOriginal
  <2>2. Sound(users, files', made + 1, rekeys)
    BY <1>2, <1>3, <1>4, <2>1, AddedIsSound DEF TypedFiles
  <2> QED  BY <1>1, <2>2 DEF InMemory
<1>8. Uploading' /\ Sending'
  BY <1>1, <1>4, AddedKeepsSessions
<1>9. Typed'
  BY <1>1, <1>2 DEF IInv, Typed
<1>10. Unsaved'
  <2>1. \A x : OpensNothing(files, x) => OpensNothing(files', x)
    BY <1>3, <1>4 DEF OpensNothing, Stored
  <2> QED  BY <1>1, <2>1 DEF IInv, OnDisk, Unsaved
<1>11. \A j \in FileIds : IsOriginal(files', j) =>
         files[j] # NoFile /\ SameFile(files[j], files'[j])
  BY <1>4, <1>6 DEF IsOriginal, SameFile
<1>12. made <= made' /\ rekeys <= rekeys'
  BY <1>1, <1>2
<1> QED  BY <1>1, <1>7, <1>8, <1>9, <1>10, <1>11, <1>12, QuietStep

\* A step that saves is sound when the memory is.
LEMMA SavingStep ==
  ASSUME Typed', InMemory', Uploading', Sending', Save
  PROVE  IInv'
BY SaveIsOnDisk DEF IInv

LEMMA BotFallbackKeepsInv ==
  ASSUME IInv, NEW n \in FileIds, BotFallback(n)
  PROVE  IInv'
<1> DEFINE u == uploads[n]
           k == made + 1
           row == [secret |-> [kind |-> "plain", id |-> 0], node |-> k, under |-> kek]
           f == NewFile(u, files[n].root, "ready", row)
<1>1. /\ n \in bots /\ bots' = bots \ {n}
      /\ UNCHANGED <<uploads, sending, kek, rekeys>>
      /\ \/ /\ made < MaxFiles /\ made' = k
            /\ files' = [files EXCEPT ![k] = f]
            /\ users' = users /\ Save
         \/ UNCHANGED <<users, files, disk, made>>
  BY DEF BotFallback
<1>2. CASE /\ made < MaxFiles /\ made' = k
           /\ files' = [files EXCEPT ![k] = f]
           /\ users' = users /\ Save
  <2>1. /\ k \in FileIds /\ files[k] = NoFile /\ k \in 0 .. MaxFiles
        /\ made \in Nat /\ rekeys \in Nat
    BY <1>2, NextIsFree
  <2>2. /\ uploads[n] # Nobody /\ uploads[n] \in UserIds
        /\ files \in [FileIds -> File \union {NoFile}]
        /\ Sound(users, files, made, rekeys) /\ kek \in Keks
    BY <1>1 DEF IInv, Typed, InMemory, Sound, TypedFiles
  <2>3. u \in Here(users) /\ files[n] \in File
    BY <2>2 DEF IInv, Uploading
  <2>4. row \in Row /\ row # NoRow /\ row.secret.kind = "plain" /\ row.node = k
    <3>1. [kind |-> "plain", id |-> 0] \in Secret
      BY DEF Secret
    <3>2. row \in Row
      BY <2>1, <2>2, <3>1 DEF Row
    <3> QED  BY <3>2, SentinelAssumption
  <2> HIDE DEF row
  <2>5. f \in File /\ f.owner = u /\ f.state = "ready" /\ f.row = row
    <3> DEFINE g == [owner |-> u, root |-> files[n].root, state |-> "ready", row |-> row,
                     lost |-> FALSE]
    <3>1. files[n].root \in UserIds
      BY <2>3 DEF File
    <3>2. f = g
      BY DEF NewFile
    <3>3. g \in File
      BY <2>2, <2>4, <3>1 DEF File
    <3> HIDE DEF f
    <3> QED  BY <3>2, <3>3
  <2> HIDE DEF f, u
  <2>6. /\ files'[k] = f /\ \A j \in FileIds : j # k => files'[j] = files[j]
        /\ files' \in [FileIds -> File \union {NoFile}]
    BY <1>2, <2>1, <2>2, <2>5
  <2>7. InMemory'
    <3>1. KnownSecret(users, rekeys, row.secret) /\ row.node <= made + 1
      BY <2>1, <2>4, Bounds DEF KnownSecret
    <3>2. ~IsOriginal(files', k)
      BY <2>4, <2>5, <2>6 DEF IsOriginal
    <3>3. Added(users, files, files', made, rekeys)
      BY <2>1, <2>3, <2>5, <2>6, <3>1, <3>2 DEF Added
    <3>4. Sound(users, files', made + 1, rekeys)
      BY <2>1, <2>2, <2>6, <3>3, AddedIsSound DEF TypedFiles
    <3> QED  BY <1>1, <1>2, <3>4 DEF InMemory
  <2>8. Uploading' /\ Sending'
    BY <1>1, <1>2, <2>6, AddedKeepsSessions
  <2>9. Typed'
    BY <1>1, <1>2, <2>1 DEF IInv, Typed
  <2> QED  BY <1>2, <2>7, <2>8, <2>9, SavingStep
<1>3. CASE UNCHANGED <<users, files, disk, made>>
  <2>1. Typed'
    BY <1>1, <1>3 DEF IInv, Typed
  <2>2. InMemory' /\ OnDisk'
    BY <1>1, <1>3 DEF IInv, InMemory, OnDisk, SameUsers, Saved, Unsaved
  <2>3. Uploading' /\ Sending'
    BY <1>1, <1>3 DEF IInv, Uploading, Sending, Unwraps
  <2> QED  BY <2>1, <2>2, <2>3 DEF IInv
<1> QED  BY <1>1, <1>2, <1>3

\* One file of an upload changes, to what is sound for its owner.
LEMMA ChangedIsSound ==
  ASSUME NEW us, NEW fs, NEW n \in FileIds, NEW f \in File, NEW m \in Nat, NEW r \in Nat,
         NEW fs2, fs2 = [fs EXCEPT ![n] = f],
         Sound(us, fs, m, r), fs[n] # NoFile, f.owner = fs[n].owner,
         f.row # NoRow => f.row.node <= m /\ KnownSecret(us, r, f.row.secret),
         IsOriginal(fs2, n) => Match(us[f.owner].wrapped, f.row)
  PROVE  Sound(us, fs2, m, r)
<1>1. fs \in [FileIds -> File \union {NoFile}]
  BY DEF Sound, TypedFiles
<1>2. /\ fs2 \in [FileIds -> File \union {NoFile}] /\ fs2[n] = f
      /\ \A j \in FileIds : j # n => fs2[j] = fs[j]
  BY <1>1
<1>3. Stored(fs2) = Stored(fs)
  BY <1>2, SentinelAssumption DEF Stored
<1>4. Owned(us, fs2)
  BY <1>2, <1>3 DEF Sound, Owned, Stored
<1>5. n <= m
  BY DEF Sound, Within, Stored
<1>6. Within(fs2, m) /\ Known(us, fs2, r)
  BY <1>2, <1>3, <1>5 DEF Sound, Within, Known, Stored
<1>7. Matched(us, fs2)
  BY <1>2 DEF Sound, Matched, IsOriginal
<1> QED  BY <1>2, <1>4, <1>6, <1>7 DEF Sound, TypedFiles

LEMMA StoreKeepsInv ==
  ASSUME IInv, NEW n \in FileIds, Store(n)
  PROVE  IInv'
<1> DEFINE row == [secret |-> sending[n], node |-> n, under |-> kek]
           f == [files[n] EXCEPT !.row = row]
<1>1. /\ sending[n] # NoSecret
      /\ files' = [files EXCEPT ![n] = f]
      /\ sending' = [sending EXCEPT ![n] = NoSecret]
      /\ users' = users /\ Save
      /\ UNCHANGED <<uploads, bots, kek, made, rekeys>>
  <2>1. files' = [files EXCEPT ![n].row = row]
    BY DEF Store
  <2> QED  BY <2>1 DEF Store
<1>2. /\ files \in [FileIds -> File \union {NoFile}] /\ kek \in Keks
      /\ sending \in [FileIds -> Secret \union {NoSecret}]
      /\ Sound(users, files, made, rekeys) /\ made \in Nat /\ rekeys \in Nat
  BY Bounds DEF IInv, Typed, InMemory, Sound, TypedFiles
<1>3. /\ uploads[n] # Nobody /\ KnownSecret(users, rekeys, sending[n])
      /\ files[n] # NoFile /\ files[n].state = "uploading" /\ files[n] \in File
  BY <1>1, <1>2 DEF IInv, Sending, Uploading
<1>4. row \in Row /\ row # NoRow /\ row.node = n /\ row.under = kek
      /\ row.secret = sending[n]
  <2>1. row \in Row
    BY <1>1, <1>2 DEF Row
  <2> QED  BY <2>1, SentinelAssumption
<1> HIDE DEF row
<1>5. f \in File /\ f.owner = files[n].owner /\ f.state = "uploading" /\ f.row = row
  BY <1>3, <1>4 DEF File
<1> HIDE DEF f
<1>6. /\ files'[n] = f /\ \A k \in FileIds : k # n => files'[k] = files[k]
      /\ sending'[n] = NoSecret /\ \A k \in FileIds : k # n => sending'[k] = sending[k]
      /\ sending' \in [FileIds -> Secret \union {NoSecret}]
  BY <1>1, <1>2
<1>7. InMemory'
  <2>1. n <= made
    BY <1>2, <1>3 DEF Sound, Within, Stored
  <2>2. ~IsOriginal(files', n)
    BY <1>5, <1>6 DEF IsOriginal
  <2>3. Sound(users, files', made, rekeys)
    BY <1>1, <1>2, <1>3, <1>4, <1>5, <2>1, <2>2, ChangedIsSound
  <2> QED  BY <1>1, <2>3 DEF InMemory
<1>8. Typed'
  BY <1>1, <1>6 DEF IInv, Typed
<1>9. Uploading'
  <2> SUFFICES ASSUME NEW k \in FileIds, uploads[k] # Nobody
               PROVE  /\ files'[k] # NoFile /\ files'[k].state = "uploading"
                      /\ files'[k].row # NoRow => files'[k].row.under = kek
                      /\ uploads[k] \in Here(users)
                      /\ Unwraps(users[uploads[k]].wrapped)
    BY <1>1 DEF Uploading, Unwraps
  <2>1. CASE k = n
    BY <1>3, <1>4, <1>5, <1>6, <2>1, SentinelAssumption DEF IInv, Uploading
  <2>2. CASE k # n
    BY <1>6, <2>2 DEF IInv, Uploading
  <2> QED  BY <2>1, <2>2
<1>10. Sending'
  <2> SUFFICES ASSUME NEW k \in FileIds, sending'[k] # NoSecret
               PROVE  /\ uploads[k] # Nobody
                      /\ files'[k].row = NoRow
                      /\ KnownSecret(users, rekeys, sending'[k])
    BY <1>1 DEF Sending, KnownSecret, IsKnown
  <2> QED  BY <1>6 DEF IInv, Sending
<1> QED  BY <1>1, <1>7, <1>8, <1>9, <1>10, SavingStep

LEMMA FailKeepsInv ==
  ASSUME IInv, NEW n \in FileIds, Fail(n)
  PROVE  IInv'
<1>1. /\ sending' = [sending EXCEPT ![n] = NoSecret]
      /\ UNCHANGED <<users, files, disk, uploads, bots, kek, made, rekeys>>
  BY DEF Fail
<1>2. /\ sending' \in [FileIds -> Secret \union {NoSecret}]
      /\ \A k \in FileIds : sending'[k] # NoSecret => sending'[k] = sending[k]
  BY <1>1 DEF IInv, Typed
<1>3. Typed'
  BY <1>1, <1>2 DEF IInv, Typed
<1>4. InMemory' /\ OnDisk'
  BY <1>1 DEF IInv, InMemory, OnDisk, SameUsers, Saved, Unsaved
<1>5. Uploading'
  BY <1>1 DEF IInv, Uploading, Unwraps
<1>6. Sending'
  BY <1>1, <1>2 DEF IInv, Sending, KnownSecret, IsKnown
<1> QED  BY <1>3, <1>4, <1>5, <1>6 DEF IInv

LEMMA CompleteKeepsInv ==
  ASSUME IInv, NEW n \in FileIds, Complete(n)
  PROVE  IInv'
<1> DEFINE u == uploads[n]
           f == [files[n] EXCEPT !.state = "ready"]
<1>1. /\ u # Nobody /\ n \notin bots /\ files[n].row # NoRow
      /\ files[n].row.secret = SecretIn(users, u) /\ files[n].owner = u
      /\ files' = [files EXCEPT ![n] = f]
      /\ uploads' = [uploads EXCEPT ![n] = Nobody]
      /\ users' = users /\ Save
      /\ UNCHANGED <<sending, bots, kek, made, rekeys>>
  <2>1. files' = [files EXCEPT ![n].state = "ready"]
    BY DEF Complete, Finalized
  <2> QED  BY <2>1 DEF Complete, Finalized
<1>2. /\ files \in [FileIds -> File \union {NoFile}]
      /\ uploads \in [FileIds -> UserIds \union {Nobody}]
      /\ Sound(users, files, made, rekeys) /\ made \in Nat /\ rekeys \in Nat
  BY Bounds DEF IInv, Typed, InMemory, Sound, TypedFiles
<1>3. /\ files[n] # NoFile /\ files[n] \in File /\ files[n].row.under = kek
      /\ Unwraps(users[u].wrapped)
  BY <1>1, <1>2 DEF IInv, Uploading
<1>4. f \in File /\ f.owner = u /\ f.row = files[n].row
  BY <1>1, <1>3 DEF File
<1>5. Match(users[u].wrapped, f.row)
  BY <1>1, <1>3, <1>4 DEF Match, SecretIn, Unwraps
<1>6. f.row # NoRow => f.row.node <= made /\ KnownSecret(users, rekeys, f.row.secret)
  BY <1>2, <1>3, <1>4 DEF Sound, Within, Known, Stored
<1> HIDE DEF f, u
<1>7. /\ \A k \in FileIds : k # n => files'[k] = files[k]
      /\ uploads'[n] = Nobody /\ \A k \in FileIds : k # n => uploads'[k] = uploads[k]
      /\ uploads' \in [FileIds -> UserIds \union {Nobody}]
  BY <1>1, <1>2
<1>8. InMemory'
  <2>1. Match(users[f.owner].wrapped, f.row) /\ f.owner = files[n].owner
    BY <1>1, <1>4, <1>5
  <2>2. Sound(users, files', made, rekeys)
    BY <1>1, <1>2, <1>3, <1>4, <1>6, <2>1, ChangedIsSound
  <2> QED  BY <1>1, <2>2 DEF InMemory
<1>9. Typed'
  BY <1>1, <1>7 DEF IInv, Typed
<1>10. Uploading'
  BY <1>1, <1>7 DEF IInv, Uploading, Unwraps
<1>11. Sending'
  BY <1>1, <1>7 DEF IInv, Sending, KnownSecret, IsKnown
<1> QED  BY <1>1, <1>8, <1>9, <1>10, <1>11, SavingStep

-------------------------------------------------------------------------------
\* The process.

LEMMA SaveStateKeepsInv ==
  ASSUME IInv, SaveState
  PROVE  IInv'
<1>1. /\ UNCHANGED <<users, files, uploads, sending, bots, kek, made, rekeys>> /\ Save
  BY DEF SaveState, Save
<1>2. Typed' /\ InMemory'
  BY <1>1 DEF IInv, Typed, InMemory
<1>3. Uploading' /\ Sending'
  BY <1>1 DEF IInv, Uploading, Sending, Unwraps
<1> QED  BY <1>1, <1>2, <1>3, SavingStep

LEMMA RestartKeepsInv ==
  ASSUME IInv, Restart
  PROVE  IInv'
<1>1. /\ users' = disk.users /\ files' = disk.files
      /\ uploads' = [n \in FileIds |-> Nobody]
      /\ sending' = [n \in FileIds |-> NoSecret]
      /\ bots' = {} /\ kek' \in Keks
      /\ UNCHANGED <<disk, made, rekeys>>
  BY DEF Restart
<1>2. Typed'
  BY <1>1 DEF IInv, Typed
<1>3. InMemory'
  BY <1>1 DEF IInv, OnDisk, InMemory
<1>4. OnDisk'
  BY <1>1 DEF IInv, OnDisk, SameUsers, Saved, SameFile, Unsaved, IsOriginal
<1>5. Uploading' /\ Sending'
  BY <1>1 DEF Uploading, Sending
<1> QED  BY <1>2, <1>3, <1>4, <1>5 DEF IInv

LEMMA InitInv == Init => IInv
<1> SUFFICES ASSUME Init PROVE IInv
  OBVIOUS
<1>1. /\ users = [u \in UserIds |-> NoUser] /\ files = [n \in FileIds |-> NoFile]
      /\ disk = [users |-> users, files |-> files]
      /\ uploads = [n \in FileIds |-> Nobody]
      /\ sending = [n \in FileIds |-> NoSecret]
      /\ bots = {} /\ kek \in Keks /\ made = 0 /\ rekeys = 0
  BY DEF Init
<1>2. Typed
  BY <1>1, Bounds DEF Typed
<1>3. Here(users) = {} /\ Stored(files) = {}
  BY <1>1 DEF Here, Stored
<1>4. InARow(users)
  <2>1. \A u \in UserIds : ~(u <= 0)
    BY DEF UserIds
  <2>2. 0 \in 0 .. MaxUsers
    BY Bounds
  <2> QED  BY <1>3, <2>1, <2>2 DEF InARow
<1>5. TypedUsers(users) /\ TypedFiles(files)
  BY <1>1 DEF TypedUsers, TypedFiles
<1>6. OneAccount(users) /\ Owned(users, files) /\ Within(files, made)
      /\ Known(users, files, rekeys) /\ Matched(users, files)
  BY <1>1, <1>3 DEF OneAccount, Owned, Within, Known, Matched, IsOriginal
<1>7. InMemory
  BY <1>4, <1>5, <1>6 DEF InMemory, Sound
<1>8. OnDisk
  <2>1. disk.users = users /\ disk.files = files
    BY <1>1
  <2>2. SameUsers /\ Saved /\ Unsaved
    BY <2>1 DEF SameUsers, Saved, SameFile, Unsaved, IsOriginal
  <2> QED  BY <1>1, <1>5, <1>7, <2>1, <2>2 DEF OnDisk, InMemory, TypedUsers, TypedFiles
<1>9. Uploading /\ Sending
  BY <1>1 DEF Uploading, Sending
<1> QED  BY <1>2, <1>7, <1>8, <1>9 DEF IInv

LEMMA NextInv == IInv /\ [Next]_vars => IInv'
<1> SUFFICES ASSUME IInv, [Next]_vars PROVE IInv'
  OBVIOUS
<1>1. ASSUME NEW kind \in {"main", "web"}, Register(kind) PROVE IInv'
  BY <1>1, CreateUserKeepsInv DEF Register, Kinds
<1>2. ASSUME NEW c \in Chats, MiniAppLogin(c) PROVE IInv'
  BY <1>2, CreateUserKeepsInv DEF MiniAppLogin, Kinds
<1>3. ASSUME NEW c \in Chats, BotFile(c) PROVE IInv'
  <2> DEFINE u == First(Holders(c))
  <2>1. \/ Begin(u, users[u].root, TRUE)
        \/ Begin(u, u, TRUE)
    BY <1>3 DEF BotFile
  <2>2. u \in UserIds
    BY <2>1 DEF Begin, Present
  <2>3. Begin(u, users[u].root, TRUE) => users[u].root \in UserIds
    BY DEF Begin, Present
  <2> HIDE DEF u
  <2> QED  BY <2>1, <2>2, <2>3, BeginKeepsInv
<1>4. ASSUME NEW u \in UserIds, NEW r \in UserIds, Begin(u, r, FALSE) PROVE IInv'
  BY <1>4, BeginKeepsInv
<1>5. CASE UNCHANGED vars
  <2>1. UNCHANGED <<users, files, disk, uploads, sending, bots, kek, made, rekeys>>
    BY <1>5 DEF vars
  <2>2. Typed' /\ InMemory'
    BY <2>1 DEF IInv, Typed, InMemory
  <2>3. OnDisk'
    BY <2>1 DEF IInv, OnDisk, SameUsers, Saved, Unsaved
  <2>4. Uploading' /\ Sending'
    BY <2>1 DEF IInv, Uploading, Sending, Unwraps
  <2> QED  BY <2>2, <2>3, <2>4 DEF IInv
<1> QED
  BY <1>1, <1>2, <1>3, <1>4, <1>5, LookUpKeepsInv, LinkAccountKeepsInv, SealKeepsInv,
     StoreKeepsInv, FailKeepsInv, CompleteKeepsInv, BotFallbackKeepsInv, CopyKeepsInv,
     SaveStateKeepsInv, RestartKeepsInv
  DEF Next

LEMMA Invariant == Spec => []IInv
BY InitInv, NextInv, PTL DEF Spec

-------------------------------------------------------------------------------
\* What the runs check, for every value of the constants.

\* Accounts, files, the snapshot, uploads and what is being sent have the shape
\* that the code gives them, whoever is merged and whatever crashes.
THEOREM TypeCorrect == Spec => []TypeOK
BY Invariant, TypesFollow, PTL

\* A finished upload opens with what its owner's row names now, through crashes,
\* registrations, links and re-uploads, unless its DEK was replaced, its owner
\* was changed, or the server runs with another MASTER_KEK than it was sealed
\* under.
THEOREM UploadsAreReadable == Spec => []UploadsStayReadable
BY Invariant, ReadableFollows, PTL

\* A crash takes no readable upload with it: the DEK that create_user and
\* _user_dek do not save is on disk before the first chunk that needs it is.
THEOREM DiskIsEnough == Spec => []ReadableFilesAreOnDisk
BY Invariant, DiskFollows, PTL

\* Whatever the bot links and merges, a Telegram user has one account at most.
THEOREM OneAccountPerChat == Spec => []ChatsHaveOneAccount
BY Invariant, OneAccountFollows, PTL
==============================================================================
