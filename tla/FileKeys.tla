------------------------------ MODULE FileKeys -------------------------------
(***************************************************************************)
(* Whose key a file is sealed with, and whose key it is opened with: the   *)
(* wrapped DEKs of AuthService, UploadService and the bot, the snapshot on *)
(* disk, restarts with the same or another MASTER_KEK, and the bot's       *)
(* merging of accounts.                                                    *)
(*                                                                         *)
(* A file has one chunk.  What AES-GCM and HKDF promise is taken as it is: *)
(* a chunk opens under the very secret, salt and associated data that it   *)
(* was sealed with, and under nothing else.  The salt and the associated   *)
(* data name the node, so that a sealed chunk is a secret and a node.      *)
(* Zero-knowledge files, which the server never opens, are left out.       *)
(***************************************************************************)
EXTENDS Integers, FiniteSets

CONSTANTS
  MaxUsers,  \* bound on the accounts,
  MaxFiles,  \* on the files,
  MaxRekeys, \* and on the DEKs that replace one that does not unwrap
  Chats,     \* Telegram users that talk to the bot
  Keks,      \* values that MASTER_KEK may have in one run of the server or another
  NoChat, NoUser, NoFile, NoDek, NoRow, NoSecret

ASSUME KeysAssumption ==
  /\ MaxUsers \in Nat \ {0}
  /\ MaxFiles \in Nat
  /\ MaxRekeys \in Nat
  /\ Keks \subseteq Nat /\ Keks # {}

UserIds == 1 .. MaxUsers
FileIds == 1 .. MaxFiles
Deks == 1 .. (MaxUsers + MaxRekeys)
Nobody == 0

VARIABLES
  users,   \* repo.users, with the owner of each one's root node
  files,   \* repo.nodes of kind file, each with its row in repo.chunks
  disk,    \* the snapshot
  uploads, \* repo.upload_sessions: the owner of each unfinished upload
  sending, \* what put_chunk has sealed and not yet stored
  bots,    \* uploads that a handler of the bot drives
  kek,     \* settings.master_kek
  made,    \* how many nodes were made
  rekeys   \* how many DEKs were replaced

vars == <<users, files, disk, uploads, sending, bots, kek, made, rekeys>>

-------------------------------------------------------------------------------
\* main: the address user@teledrive.dev; tg: tg_...@teledrive.dev, made by the
\* bot; mini: no address, made by a Mini App login.
Kinds == {"main", "web", "tg", "mini"}

User == [kind : Kinds, chat : Chats \union {NoChat}, root : UserIds,
         wrapped : [dek : Deks, under : Keks] \union {NoDek}]

Secret == [kind : {"dek"}, id : Deks] \union [kind : {"kek"}, id : Keks]
            \union {[kind |-> "plain", id |-> 0]}

\* lost marks a file whose DEK was replaced or whose owner was changed; under is
\* the MASTER_KEK at the time of sealing (history).
Row == [secret : Secret, node : FileIds, under : Keks]

File == [owner : UserIds, root : UserIds, state : {"uploading", "ready"},
         row : Row \union {NoRow}, lost : BOOLEAN]

ASSUME SentinelAssumption ==
  /\ NoChat \notin Chats /\ NoUser \notin User /\ NoFile \notin File
  /\ NoDek \notin [dek : Deks, under : Keks]
  /\ NoRow \notin Row /\ NoSecret \notin Secret

Present == {u \in UserIds : users[u] # NoUser}
Newcomer == Cardinality(Present) + 1
Stored(fs) == {n \in FileIds : fs[n] # NoFile}
HasFiles(u) == \E n \in Stored(files) : files[n].owner = u

\* The DEK that _user_dek arrives at: unwrapped, or derived from MASTER_KEK.
SecretIn(us, u) ==
  IF us[u].wrapped # NoDek /\ us[u].wrapped.under = kek
    THEN [kind |-> "dek", id |-> us[u].wrapped.dek]
    ELSE [kind |-> "kek", id |-> kek]

\* DownloadService.stream: the file is opened with what its owner's DEK is now.
OpensIn(us, fs, n) ==
  /\ fs[n] # NoFile /\ fs[n].state = "ready" /\ fs[n].row # NoRow
  /\ fs[n].row.node = n
  /\ fs[n].row.secret = SecretIn(us, fs[n].owner)

Opens(n) == OpensIn(users, files, n)

Save == disk' = [users |-> users', files |-> files']

Init ==
  /\ users = [u \in UserIds |-> NoUser]
  /\ files = [n \in FileIds |-> NoFile]
  /\ disk = [users |-> users, files |-> files]
  /\ uploads = [n \in FileIds |-> Nobody]
  /\ sending = [n \in FileIds |-> NoSecret]
  /\ bots = {}
  /\ kek \in Keks
  /\ made = 0
  /\ rekeys = 0

-------------------------------------------------------------------------------
\* Accounts.

\* create_user saves the row and the root; set_user_wrapped_dek comes after it
\* and saves nothing.
CreateUser(kind, chat) ==
  LET u == Newcomer
      row == [kind |-> kind, chat |-> chat, root |-> u, wrapped |-> NoDek] IN
  /\ u \in UserIds
  /\ disk' = [users |-> [users EXCEPT ![u] = row], files |-> files]
  /\ users' = [users EXCEPT ![u] =
                 [row EXCEPT !.wrapped = [dek |-> u, under |-> kek]]]
  /\ UNCHANGED <<files, uploads, sending, bots, kek, made, rekeys>>

Register(kind) ==
  /\ kind = "main" => \A u \in Present : users[u].kind # "main"
  /\ CreateUser(kind, NoChat)

Holders(c) == {u \in Present : users[u].chat = c}
First(S) == IF S = {} THEN Nobody ELSE CHOOSE u \in S : \A v \in S : u <= v

\* Mutant: a later login gives a DEK to an account that has none.
MiniAppLoginRepairing(c) ==
  \/ Holders(c) = {} /\ CreateUser("mini", c)
  \/ \E u \in Holders(c) :
       /\ users[u].wrapped = NoDek
       /\ users' = [users EXCEPT ![u].wrapped = [dek |-> u, under |-> kek]]
       /\ UNCHANGED <<files, disk, uploads, sending, bots, kek, made, rekeys>>

\* login_with_telegram
MiniAppLogin(c) == Holders(c) = {} /\ CreateUser("mini", c)

\* Mutant: whoever had the chat before keeps it.
LinkedToBoth(c, u) == [users EXCEPT ![u].chat = c]

Linked(c, u) ==
  [v \in UserIds |->
     IF v = u THEN [users[v] EXCEPT !.chat = c]
     ELSE IF v \in Holders(c) THEN [users[v] EXCEPT !.chat = NoChat]
     ELSE users[v]]

\* /link in the bot
LinkAccount(c, u) ==
  /\ u \in Present
  /\ users' = Linked(c, u)
  /\ UNCHANGED <<files, uploads, sending, bots, kek, made, rekeys>>
  /\ Save

\* The account that _get_or_create_user takes for the owner of the deployment.
Primary ==
  LET main == {u \in Present : users[u].kind = "main"}
      owning == {u \in Present : HasFiles(u)}
      web == {u \in Present : users[u].kind # "tg"} IN
  IF main # {} THEN First(main) ELSE IF owning # {} THEN First(owning)
  ELSE First(web)

\* Every node of u, its root also, is given to p.
HandedOver(u, p) ==
  [v \in UserIds |->
     IF users[v] # NoUser /\ users[v].root = u
       THEN [users[v] EXCEPT !.root = p] ELSE users[v]]

Unify(c, u, p) ==
  /\ users' = [HandedOver(u, p) EXCEPT ![u].chat = NoChat, ![p].chat = c]
  /\ files' = [n \in FileIds |->
                 IF files[n] # NoFile /\ files[n].owner = u
                   THEN [files[n] EXCEPT !.owner = p, !.lost = TRUE]
                   ELSE files[n]]
  /\ Save
  /\ UNCHANGED <<uploads, sending, bots, kek, made, rekeys>>

Merges(u, p) ==
  u # Nobody /\ p # Nobody /\ u # p /\ (~HasFiles(u) \/ users[u].kind = "tg")

\* _get_or_create_user: the first thing any command of the bot does.
LookUp(c) ==
  LET u == First(Holders(c))
      p == Primary
      heir == IF p # Nobody THEN p
              ELSE IF Cardinality(Present) = 1 THEN First(Present) ELSE Nobody IN
  \/ Merges(u, p) /\ Unify(c, u, p)
  \/ u = Nobody /\ heir # Nobody
     /\ users' = [users EXCEPT ![heir].chat = c]
     /\ UNCHANGED <<files, uploads, sending, bots, kek, made, rekeys>>
     /\ Save
  \/ u = Nobody /\ heir = Nobody /\ CreateUser("tg", c)

-------------------------------------------------------------------------------
\* Uploads.

\* Upload's _user_dek replaces a DEK that does not unwrap under this MASTER_KEK.
Replaces(u) == users[u].wrapped # NoDek /\ users[u].wrapped.under # kek

UserDek(u) ==
  IF Replaces(u)
    THEN /\ rekeys < MaxRekeys
         /\ rekeys' = rekeys + 1
         /\ users' = [users EXCEPT ![u].wrapped =
                        [dek |-> MaxUsers + rekeys + 1, under |-> kek]]
    ELSE UNCHANGED <<users, rekeys>>

\* The files sealed with the old DEK are lost with it.  Nothing is saved.
FilesAfterDek(u) ==
  [n \in FileIds |->
     IF Replaces(u) /\ files[n] # NoFile /\ files[n].row # NoRow
        /\ files[n].row.secret = [kind |-> "dek", id |-> users[u].wrapped.dek]
       THEN [files[n] EXCEPT !.lost = TRUE] ELSE files[n]]

NewFile(u, r, state, row) ==
  [owner |-> u, root |-> r, state |-> state, row |-> row, lost |-> FALSE]

\* create_session, under a root that the owner has; it asks for the DEK, too.
Begin(u, r, bot) ==
  /\ u \in Present /\ r \in Present /\ users[r].root = u
  /\ made < MaxFiles
  /\ made' = made + 1
  /\ UserDek(u)
  /\ files' = [FilesAfterDek(u) EXCEPT
                 ![made + 1] = NewFile(u, r, "uploading", NoRow)]
  /\ uploads' = [uploads EXCEPT ![made + 1] = u]
  /\ bots' = IF bot THEN bots \union {made + 1} ELSE bots
  /\ UNCHANGED <<disk, sending, kek>>

\* A file sent to the bot, by a chat whose account is settled.
BotFile(c) ==
  LET u == First(Holders(c)) IN
  /\ u # Nobody /\ ~Merges(u, Primary)
  /\ Begin(u, users[u].root, TRUE) \/ Begin(u, u, TRUE)

\* put_chunk up to the send: the chunk is sealed with the DEK of the session's
\* owner, replaced first if need be.
Seal(n) ==
  /\ uploads[n] # Nobody /\ sending[n] = NoSecret /\ files[n].row = NoRow
  /\ UserDek(uploads[n])
  /\ files' = FilesAfterDek(uploads[n])
  /\ sending' = [sending EXCEPT ![n] = SecretIn(users', uploads[n])]
  /\ UNCHANGED <<disk, uploads, bots, kek, made>>

\* After the send: insert_chunk saves everything there is.
Store(n) ==
  /\ sending[n] # NoSecret
  /\ files' = [files EXCEPT ![n].row =
                 [secret |-> sending[n], node |-> n, under |-> kek]]
  /\ sending' = [sending EXCEPT ![n] = NoSecret]
  /\ UNCHANGED users
  /\ Save
  /\ UNCHANGED <<uploads, bots, kek, made, rekeys>>

\* The send fails.
Fail(n) ==
  /\ sending[n] # NoSecret
  /\ sending' = [sending EXCEPT ![n] = NoSecret]
  /\ UNCHANGED <<users, files, disk, uploads, bots, kek, made, rekeys>>

\* Mutant: the node is marked in memory and nothing is saved.
FinalizedInMemory(n) ==
  /\ files' = [files EXCEPT ![n].state = "ready"]
  /\ UNCHANGED <<users, disk>>

\* Mutant: the node gets the word that the session has.
FinalizedAsCompleted(n) ==
  /\ files' = [files EXCEPT ![n].state = "completed"]
  /\ UNCHANGED users
  /\ Save

\* finalize_file_node
Finalized(n) ==
  /\ files' = [files EXCEPT ![n].state = "ready"]
  /\ UNCHANGED users
  /\ Save

\* complete: the chunk is read back with the DEK of the session's owner; then
\* finalize_file_node wants the node to be that owner's still.
Complete(n) ==
  LET u == uploads[n] IN
  /\ u # Nobody /\ n \notin bots
  /\ files[n].row # NoRow
  /\ files[n].row.secret = SecretIn(users, u)
  /\ files[n].owner = u
  /\ Finalized(n)
  /\ uploads' = [uploads EXCEPT ![n] = Nobody]
  /\ UNCHANGED <<sending, bots, kek, made, rekeys>>

\* The bot calls finish_upload, which UploadService does not have; whatever
\* went before, it then makes a second node, with a row that names the message
\* in the chat: plain bytes, a zero iv and a zero tag.
BotFallback(n) ==
  LET u == uploads[n] IN
  /\ n \in bots /\ sending[n] = NoSecret
  /\ bots' = bots \ {n}
  /\ IF users[files[n].root].root = u
       THEN /\ made < MaxFiles
            /\ made' = made + 1
            /\ files' = [files EXCEPT ![made + 1] =
                 NewFile(u, files[n].root, "ready",
                         [secret |-> [kind |-> "plain", id |-> 0],
                          node |-> made + 1, under |-> kek])]
            /\ UNCHANGED users
            /\ Save
       ELSE UNCHANGED <<users, files, disk, made>>
  /\ UNCHANGED <<uploads, sending, kek, rekeys>>

\* copy_file_node: the clone has the state and the row of its source; not saved.
Copy(n) ==
  /\ files[n] # NoFile
  /\ made < MaxFiles
  /\ made' = made + 1
  /\ files' = [files EXCEPT ![made + 1] = files[n]]
  /\ UNCHANGED <<users, disk, uploads, sending, bots, kek, rekeys>>

-------------------------------------------------------------------------------
\* The process.

\* Any operation that saves the snapshot and changes nothing else here, such as
\* a rename, a star, the trash, or the end of the process.
SaveState ==
  /\ disk' = [users |-> users, files |-> files]
  /\ UNCHANGED <<users, files, uploads, sending, bots, kek, made, rekeys>>

\* A crash, and a start with what is on disk and in the environment.
Restart ==
  /\ users' = disk.users
  /\ files' = disk.files
  /\ uploads' = [n \in FileIds |-> Nobody]
  /\ sending' = [n \in FileIds |-> NoSecret]
  /\ bots' = {}
  /\ kek' \in Keks
  /\ UNCHANGED <<disk, made, rekeys>>

Next ==
  \/ \E kind \in {"main", "web"} : Register(kind)
  \/ \E c \in Chats : MiniAppLogin(c) \/ LookUp(c) \/ BotFile(c)
  \/ \E c \in Chats, u \in UserIds : LinkAccount(c, u)
  \/ \E u, r \in UserIds : Begin(u, r, FALSE)
  \/ \E n \in FileIds :
       Seal(n) \/ Store(n) \/ Fail(n) \/ Complete(n) \/ BotFallback(n) \/ Copy(n)
  \/ SaveState
  \/ Restart

Spec == Init /\ [][Next]_vars

-------------------------------------------------------------------------------
\* Properties.

TypeOK ==
  /\ users \in [UserIds -> User \union {NoUser}]
  /\ files \in [FileIds -> File \union {NoFile}]
  /\ disk \in [users : [UserIds -> User \union {NoUser}],
               files : [FileIds -> File \union {NoFile}]]
  /\ uploads \in [FileIds -> UserIds \union {Nobody}]
  /\ sending \in [FileIds -> Secret \union {NoSecret}]
  /\ bots \subseteq FileIds
  /\ kek \in Keks
  /\ made \in 0 .. MaxFiles
  /\ rekeys \in 0 .. MaxRekeys

\* A finished upload, as opposed to a copy or to what the bot stored.
Original(n) ==
  /\ files[n] # NoFile /\ files[n].state = "ready" /\ files[n].row # NoRow
  /\ files[n].row.node = n /\ files[n].row.secret.kind # "plain"

\* A finished upload opens, now and after any number of crashes, although the
\* DEK of a new account is not on disk and an account can lose it: the only
\* ways to make it unreadable are another MASTER_KEK, for as long as it lasts; an
\* upload under another MASTER_KEK, which replaces the DEK; and the bot's merging
\* of accounts, which gives the file to an owner with another DEK.
UploadsStayReadable ==
  \A n \in FileIds :
    (Original(n) /\ ~files[n].lost /\ files[n].row.under = kek) => Opens(n)

\* What was uploaded and opens would open after a crash at this very moment: the
\* snapshot never holds a file without the key it needs.
ReadableFilesAreOnDisk ==
  \A n \in FileIds :
    (Original(n) /\ Opens(n)) => OpensIn(disk.users, disk.files, n)

\* A chat leads to one account, so that who its files belong to does not depend
\* on the order of the table, whatever is linked, merged and created.
ChatsHaveOneAccount == \A c \in Chats : Cardinality(Holders(c)) <= 1
===============================================================================
