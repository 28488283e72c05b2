-------------------------------- MODULE Upload --------------------------------
(***************************************************************************)
(* The resumable chunked upload: UploadService of services/upload.py over  *)
(* the in-memory repository of db/memory.py, with Telegram as a store of   *)
(* messages that is written before the chunk row is.                       *)
(*                                                                         *)
(* The server is one asyncio process and the repository never suspends, so *)
(* a request is atomic between two awaits that really yield: the wait for  *)
(* an upload slot, the Telegram send, and the reads of the whole-file      *)
(* digest.  Each such stretch is one action.                               *)
(*                                                                         *)
(* One owner and one folder (the live root).  An upload session, the node  *)
(* it creates and the file it fills have one identity, an element of Files.*)
(* A body is the content of a chunk of the right length; a SHA-256 is what *)
(* it hashes, so a file digest is the function from indices to bodies.     *)
(***************************************************************************)
EXTENDS Integers, FiniteSets, Sequences, FiniteSetsExt, ChunkPlan

CONSTANTS
  Files,        \* identities a create_session call may be given by new_id()
  Names,        \* file names, already folded to lower case
  Sizes,        \* declared sizes
  ChunkSize,    \* bytes per chunk
  Bodies,       \* chunk contents
  Keys,         \* idempotency keys
  Modes,        \* encryption modes that clients ask for
  Declared,     \* whole-file digests that clients declare
  Putters,      \* PUT requests that can be in flight together
  Finishers,    \* POST .../complete requests that can be in flight together
  Quota,        \* the owner's quota_bytes, 0 = unlimited
  MaxUploads,   \* settings.max_concurrent_uploads
  MaxAttempts,  \* max_attempts of execute_with_retry
  MaxPuts,      \* bound of the model: chunks handed to a storage pool
  ClientOps,    \* what the clients of this instance do besides uploading
  NoNode, NoSession, Idle, NoKey, NoDigest

AllModes == {"server_managed", "zero_knowledge"}
AllOps == {"overwrite", "abort", "trash", "restore", "purge"}

AllIndices == UNION {Indices(size, ChunkSize) : size \in Sizes}
Digest == UNION {[Indices(size, ChunkSize) -> Bodies] : size \in Sizes}

ASSUME SizesAssumption == Sizes \subseteq Nat /\ ChunkSize \in Nat \ {0}
ASSUME ModesAssumption == Modes \subseteq AllModes
ASSUME OpsAssumption == ClientOps \subseteq AllOps
ASSUME DigestAssumption == Declared \subseteq Digest \union {NoDigest}
ASSUME BoundsAssumption ==
  /\ IsFiniteSet(Files) /\ IsFiniteSet(Putters)
  /\ Quota \in Nat
  /\ MaxUploads \in Nat \ {0}
  /\ MaxAttempts \in Nat \ {0}
  /\ MaxPuts \in Nat

VARIABLES
  node,      \* repo.nodes: the file nodes
  session,   \* repo.upload_sessions
  rows,      \* repo.chunks: the chunk index
  messages,  \* what the Telegram channel holds, in the order it arrived
  used,      \* users[owner].used_bytes
  booked,    \* storage_pools[...].chunk_count: chunks handed to a channel
  gcJobs,    \* repo.jobs: nodes named by gc_orphan_chunks jobs
  slots,     \* the value of the semaphore _upload_slots
  put,       \* the PUT requests in flight
  completing,\* the complete requests that are computing a digest
  acked      \* history: chunks for which put_chunk returned a receipt

vars == <<node, session, rows, messages, used, booked, gcJobs, slots, put,
          completing, acked>>

putVars == <<messages, booked, slots, put, acked>>

-------------------------------------------------------------------------------
\* Types.

Node == [name : Names, size : Sizes, state : {"uploading", "ready"},
         trashed : BOOLEAN, sha256 : Digest \union {NoDigest}]

Session == [status : {"pending", "completed", "aborted"}, size : Sizes,
            mode : AllModes, expected : Digest \union {NoDigest},
            key : Keys \union {NoKey}, received : Nat]

Message == [file : Files, index : AllIndices, body : Bodies]

Row == [file : Files, index : AllIndices, body : Bodies, msg : Nat]

PutRequest == [stage : {"waiting", "sending", "stored"}, file : Files,
               index : AllIndices, body : Bodies, attempt : Nat, msg : Nat]

CompleteRequest == [file : Files, seen : SUBSET Row,
                    want : Digest \union {NoDigest}]

TypeOK ==
  /\ node \in [Files -> Node \union {NoNode}]
  /\ session \in [Files -> Session \union {NoSession}]
  /\ rows \in SUBSET Row
  /\ messages \in Seq(Message)
  /\ booked \in Nat
  /\ gcJobs \in SUBSET Files
  /\ slots \in Nat
  /\ put \in [Putters -> PutRequest \union {Idle}]
  /\ completing \in [Finishers -> CompleteRequest \union {Idle}]
  /\ acked \in SUBSET Message

\* The sentinels are not values of the kind they stand in for.
ASSUME SentinelAssumption ==
  /\ NoNode \notin Node /\ NoSession \notin Session /\ NoDigest \notin Digest
  /\ Idle \notin PutRequest \union CompleteRequest /\ NoKey \notin Keys

-------------------------------------------------------------------------------
\* Queries of the repository.

Exists(f) == node[f] # NoNode
Live(f) == Exists(f) /\ ~node[f].trashed
Pending(f) == session[f] # NoSession /\ session[f].status = "pending"

\* find_child_by_name sees live nodes only.
Siblings(name) == {g \in Files : Live(g) /\ node[g].name = name}

RowsOf(f) == {r \in rows : r.file = f}
RowAt(f, i) == {r \in rows : r.file = f /\ r.index = i}
Stored(f) == {r.index : r \in RowsOf(f)}
Plan(f) == Indices(session[f].size, ChunkSize)
Missing(f) == Plan(f) \ Stored(f)
ReceivedBytes(f) ==
  MapThenSumSet(LAMBDA r : SizeOf(session[f].size, ChunkSize, r.index), RowsOf(f))

\* recompute_usage: the bytes of the owner's live files, whatever their state.
Usage(nodes) ==
  MapThenSumSet(LAMBDA f : nodes[f].size,
                {f \in Files : nodes[f] # NoNode /\ ~nodes[f].trashed})

\* Mutant: the room is looked for before the new bytes are added.
FitsQuotaBefore(size) == Quota = 0 \/ used <= Quota

FitsQuota(size) == Quota = 0 \/ used + size <= Quota

-------------------------------------------------------------------------------
\* The initial state: an empty drive.

Init ==
  /\ node = [f \in Files |-> NoNode]
  /\ session = [f \in Files |-> NoSession]
  /\ rows = {}
  /\ messages = <<>>
  /\ used = 0
  /\ booked = 0
  /\ gcJobs = {}
  /\ slots = MaxUploads
  /\ put = [p \in Putters |-> Idle]
  /\ completing = [c \in Finishers |-> Idle]
  /\ acked = {}

-------------------------------------------------------------------------------
\* create_session: one stretch with no await that yields.

\* A replayed idempotency key answers with the old session and changes nothing.
KeyIsNew(key) ==
  key \notin {session[f].key : f \in {g \in Files : session[g] # NoSession}} \ {NoKey}

\* _release_node_chunks: the rows go, and a job that holds only the node id.
ReleaseNodeChunks(f) ==
  /\ gcJobs' = gcJobs \union {f}
  /\ rows' = rows \ RowsOf(f)

\* reserve_quota, create_file_node and create_upload_session.
OpenUpload(f, name, size, mode, expected, key) ==
  /\ FitsQuota(size)
  /\ used' = used + size
  /\ node' = [node EXCEPT ![f] =
       [name |-> name, size |-> size, state |-> "uploading",
        trashed |-> FALSE, sha256 |-> NoDigest]]
  /\ session' = [session EXCEPT ![f] =
       [status |-> "pending", size |-> size, mode |-> mode,
        expected |-> expected, key |-> key, received |-> 0]]

CreateSession(f, name, size, mode, expected, key) ==
  /\ session[f] = NoSession
  /\ KeyIsNew(key)
  /\ Siblings(name) = {}
  /\ OpenUpload(f, name, size, mode, expected, key)
  /\ UNCHANGED <<putVars, rows, gcJobs, completing>>

\* overwrite=True: the chunks of the file in the way are dropped first, its
\* node is kept.  (If there are several, the oldest; here, any.)
OverwriteSession(f, old, size, mode, expected, key) ==
  /\ "overwrite" \in ClientOps
  /\ session[f] = NoSession
  /\ KeyIsNew(key)
  /\ Live(old)
  /\ ReleaseNodeChunks(old)
  /\ OpenUpload(f, node[old].name, size, mode, expected, key)
  /\ UNCHANGED <<putVars, completing>>

\* overwrite=True, and the quota refuses after the chunks have been dropped.
OverwriteRefused(old, size) ==
  /\ "overwrite" \in ClientOps
  /\ Live(old)
  /\ ~FitsQuota(size)
  /\ ReleaseNodeChunks(old)
  /\ UNCHANGED <<putVars, node, session, used, completing>>

-------------------------------------------------------------------------------
\* put_chunk.

\* The checks, the seal and the choice of a storage pool, up to the semaphore.
BeginPut(p, f, i, b) ==
  /\ put[p] = Idle
  /\ Pending(f)
  /\ i \in Plan(f)
  /\ RowAt(f, i) = {}
  /\ booked < MaxPuts
  /\ booked' = booked + 1
  /\ put' = [put EXCEPT ![p] =
       [stage |-> "waiting", file |-> f, index |-> i, body |-> b,
        attempt |-> 1, msg |-> 0]]
  /\ UNCHANGED <<node, session, rows, messages, used, gcJobs, slots,
                 completing, acked>>

\* The chunk is there with the same digest: the old receipt, "already_present".
ReplayPut(f, i, b) ==
  /\ Pending(f)
  /\ \E r \in RowAt(f, i) : r.body = b
  /\ acked' = acked \union {[file |-> f, index |-> i, body |-> b]}
  /\ UNCHANGED <<node, session, rows, messages, used, booked, gcJobs, slots,
                 put, completing>>

\* Mutant: a send that does not wait for a slot.
AcquireSlotAtOnce(p) ==
  /\ put[p] # Idle /\ put[p].stage = "waiting"
  /\ slots' = slots - 1
  /\ put' = [put EXCEPT ![p].stage = "sending"]
  /\ UNCHANGED <<node, session, rows, messages, used, booked, gcJobs,
                 completing, acked>>

AcquireSlot(p) ==
  /\ put[p] # Idle /\ put[p].stage = "waiting"
  /\ slots > 0
  /\ slots' = slots - 1
  /\ put' = [put EXCEPT ![p].stage = "sending"]
  /\ UNCHANGED <<node, session, rows, messages, used, booked, gcJobs,
                 completing, acked>>

\* Mutants: the id of the message before; a receipt ahead of the index.
DeliverOffByOne(p) ==
  /\ put[p] # Idle /\ put[p].stage = "sending"
  /\ messages' = Append(messages,
       [file |-> put[p].file, index |-> put[p].index, body |-> put[p].body])
  /\ put' = [put EXCEPT ![p].stage = "stored", ![p].msg = Len(messages)]
  /\ UNCHANGED <<node, session, rows, used, booked, gcJobs, slots,
                 completing, acked>>

DeliverAndAnswer(p) ==
  /\ put[p] # Idle /\ put[p].stage = "sending"
  /\ messages' = Append(messages,
       [file |-> put[p].file, index |-> put[p].index, body |-> put[p].body])
  /\ put' = [put EXCEPT ![p].stage = "stored", ![p].msg = Len(messages) + 1]
  /\ acked' = acked \union
       {[file |-> put[p].file, index |-> put[p].index, body |-> put[p].body]}
  /\ UNCHANGED <<node, session, rows, used, booked, gcJobs, slots, completing>>

\* Telegram stores the document; the answer is still on its way.
Deliver(p) ==
  /\ put[p] # Idle /\ put[p].stage = "sending"
  /\ messages' = Append(messages,
       [file |-> put[p].file, index |-> put[p].index, body |-> put[p].body])
  /\ put' = [put EXCEPT ![p].stage = "stored", ![p].msg = Len(messages) + 1]
  /\ UNCHANGED <<node, session, rows, used, booked, gcJobs, slots,
                 completing, acked>>

\* An attempt fails, before or after Telegram stored the document, and
\* execute_with_retry sends it again.
RetrySend(p) ==
  /\ put[p] # Idle /\ put[p].stage \in {"sending", "stored"}
  /\ put[p].attempt < MaxAttempts
  /\ put' = [put EXCEPT ![p].stage = "sending", ![p].msg = 0,
                        ![p].attempt = @ + 1]
  /\ UNCHANGED <<node, session, rows, messages, used, booked, gcJobs, slots,
                 completing, acked>>

\* Mutant: the way out that forgets the slot.
GiveUpKeepingSlot(p) ==
  /\ put[p] # Idle /\ put[p].stage \in {"sending", "stored"}
  /\ put' = [put EXCEPT ![p] = Idle]
  /\ UNCHANGED <<node, session, rows, messages, used, booked, gcJobs, slots,
                 completing, acked>>

\* A permanent error, no session to be had, or the last attempt has failed.
GiveUp(p) ==
  /\ put[p] # Idle /\ put[p].stage \in {"sending", "stored"}
  /\ slots' = slots + 1
  /\ put' = [put EXCEPT ![p] = Idle]
  /\ UNCHANGED <<node, session, rows, messages, used, booked, gcJobs,
                 completing, acked>>

\* bump_upload_progress.
Bumped(f) == [session EXCEPT ![f].received = @ + 1]

\* Mutant: an insert with no ON CONFLICT.
CommitChunkBlindly(p) ==
  LET f == put[p].file
      i == put[p].index
  IN  /\ put[p] # Idle /\ put[p].stage = "stored"
      /\ rows' = rows \union
           {[file |-> f, index |-> i, body |-> put[p].body, msg |-> put[p].msg]}
      /\ session' = Bumped(f)
      /\ acked' = acked \union {[file |-> f, index |-> i, body |-> put[p].body]}
      /\ slots' = slots + 1
      /\ put' = [put EXCEPT ![p] = Idle]
      /\ UNCHANGED <<node, messages, used, booked, gcJobs, completing>>

\* insert_chunk (ON CONFLICT DO NOTHING) and the receipt.  Neither the session
\* nor the node is looked at again after the send.
CommitChunk(p) ==
  LET f == put[p].file
      i == put[p].index
  IN  /\ put[p] # Idle /\ put[p].stage = "stored"
      /\ IF RowAt(f, i) = {}
         THEN /\ rows' = rows \union
                   {[file |-> f, index |-> i, body |-> put[p].body, msg |-> put[p].msg]}
              /\ session' = Bumped(f)
         ELSE UNCHANGED <<rows, session>>
      /\ acked' = acked \union {[file |-> f, index |-> i, body |-> put[p].body]}
      /\ slots' = slots + 1
      /\ put' = [put EXCEPT ![p] = Idle]
      /\ UNCHANGED <<node, messages, used, booked, gcJobs, completing>>

-------------------------------------------------------------------------------
\* complete.

\* Mutant: the session completes although its node is gone.
FinalizeAnyway(f, sha) ==
  /\ node' = IF ~Exists(f) THEN node
             ELSE [node EXCEPT ![f].state = "ready",
                               ![f].sha256 = IF sha = NoDigest THEN @ ELSE sha]
  /\ session' = [session EXCEPT ![f].status = "completed"]

\* finalize_file_node and complete_upload_session.  A digest that is None
\* leaves the node's sha256 alone.
Finalize(f, sha) ==
  /\ Exists(f)
  /\ node' = [node EXCEPT ![f].state = "ready",
                          ![f].sha256 = IF sha = NoDigest THEN @ ELSE sha]
  /\ session' = [session EXCEPT ![f].status = "completed"]

\* Mutant: a client that sends in order has sent all when it has sent the last.
AssembledByLast(f) ==
  RowAt(f, TotalChunks(session[f].size, ChunkSize) - 1) # {}

Assembled(f) == Missing(f) = {} /\ ReceivedBytes(f) = session[f].size

\* Up to the first read of _compute_file_sha256, which has listed the rows.
BeginComplete(c, f, declared) ==
  /\ completing[c] = Idle
  /\ Pending(f)
  /\ session[f].mode = "server_managed"
  /\ Assembled(f)
  /\ completing' = [completing EXCEPT ![c] =
       [file |-> f, seen |-> RowsOf(f),
        want |-> IF declared # NoDigest THEN declared ELSE session[f].expected]]
  /\ UNCHANGED <<putVars, node, session, rows, used, gcJobs>>

\* What the chunks read back from Telegram hash to.
DigestOf(chunks) ==
  [i \in {r.index : r \in chunks} |->
     messages[(CHOOSE r \in chunks : r.index = i).msg].body]

\* Mutant: a declared digest is taken for the computed one.
FinishCompleteTrusting(c) ==
  LET seen == DigestOf(completing[c].seen)
      want == completing[c].want
  IN  /\ completing[c] # Idle
      /\ Finalize(completing[c].file, IF want = NoDigest THEN seen ELSE want)
      /\ completing' = [completing EXCEPT ![c] = Idle]
      /\ UNCHANGED <<putVars, rows, used, gcJobs>>

FinishComplete(c) ==
  /\ completing[c] # Idle
  /\ completing[c].want \in {NoDigest, DigestOf(completing[c].seen)}
  /\ Finalize(completing[c].file, DigestOf(completing[c].seen))
  /\ completing' = [completing EXCEPT ![c] = Idle]
  /\ UNCHANGED <<putVars, rows, used, gcJobs>>

\* The digest differs, a chunk cannot be read, or the node is gone.
RejectComplete(c) ==
  /\ completing[c] # Idle
  /\ completing' = [completing EXCEPT ![c] = Idle]
  /\ UNCHANGED <<putVars, node, session, rows, used, gcJobs>>

\* zero_knowledge: the declared digest is recorded as a claim, with no read.
CompleteUnverified(f, declared) ==
  /\ Pending(f)
  /\ session[f].mode = "zero_knowledge"
  /\ Assembled(f)
  /\ Finalize(f, declared)
  /\ UNCHANGED <<putVars, rows, used, gcJobs, completing>>

-------------------------------------------------------------------------------
\* abort, and what the VFS does to a file node.  No await in them yields.

\* _delete_single: the node goes with its rows.
DeleteNode(f) ==
  /\ node' = [node EXCEPT ![f] = NoNode]
  /\ rows' = rows \ RowsOf(f)

\* Mutant: the node of an aborted upload stays.
AbortKeepingNode(f) ==
  /\ "abort" \in ClientOps
  /\ Pending(f)
  /\ session' = [session EXCEPT ![f].status = "aborted"]
  /\ gcJobs' = gcJobs \union {f}
  /\ used' = Max({0, used - session[f].size})
  /\ UNCHANGED <<putVars, node, rows, completing>>

\* release_quota, then delete_node, which recomputes the usage; a node that is
\* already gone makes delete_node return before it does anything.
Abort(f) ==
  /\ "abort" \in ClientOps
  /\ Pending(f)
  /\ session' = [session EXCEPT ![f].status = "aborted"]
  /\ gcJobs' = gcJobs \union {f}
  /\ IF Exists(f)
     THEN DeleteNode(f) /\ used' = Usage(node')
     ELSE /\ used' = Max({0, used - session[f].size})
          /\ UNCHANGED <<node, rows>>
  /\ UNCHANGED <<putVars, completing>>

\* Mutant: what goes to the trash is still charged.
TrashCharged(f) ==
  /\ "trash" \in ClientOps
  /\ Exists(f)
  /\ node' = [node EXCEPT ![f].trashed = TRUE]
  /\ UNCHANGED <<putVars, session, rows, used, gcJobs, completing>>

Trash(f) ==
  /\ "trash" \in ClientOps
  /\ Exists(f)
  /\ node' = [node EXCEPT ![f].trashed = TRUE]
  /\ used' = Usage(node')
  /\ UNCHANGED <<putVars, session, rows, gcJobs, completing>>

Restore(f) ==
  /\ "restore" \in ClientOps
  /\ Exists(f)
  /\ node' = [node EXCEPT ![f].trashed = FALSE]
  /\ used' = Usage(node')
  /\ UNCHANGED <<putVars, session, rows, gcJobs, completing>>

Purge(f) ==
  /\ "purge" \in ClientOps
  /\ Exists(f)
  /\ gcJobs' = gcJobs \union {f}
  /\ DeleteNode(f)
  /\ used' = Usage(node')
  /\ UNCHANGED <<putVars, session, completing>>

-------------------------------------------------------------------------------
\* The specification.

PutStep(p) ==
  AcquireSlot(p) \/ Deliver(p) \/ RetrySend(p) \/ GiveUp(p) \/ CommitChunk(p)

CompleteStep(c) == FinishComplete(c) \/ RejectComplete(c)

CreateAny ==
  \E f \in Files, size \in Sizes, mode \in Modes,
     expected \in Declared, key \in Keys \union {NoKey} :
    \/ \E name \in Names : CreateSession(f, name, size, mode, expected, key)
    \/ \E old \in Files : OverwriteSession(f, old, size, mode, expected, key)

FileStep(f) ==
  \/ \E p \in Putters, i \in AllIndices, b \in Bodies : BeginPut(p, f, i, b)
  \/ \E i \in AllIndices, b \in Bodies : ReplayPut(f, i, b)
  \/ \E c \in Finishers, declared \in Declared : BeginComplete(c, f, declared)
  \/ \E declared \in Declared : CompleteUnverified(f, declared)
  \/ \E size \in Sizes : OverwriteRefused(f, size)
  \/ Abort(f) \/ Trash(f) \/ Restore(f) \/ Purge(f)

Next ==
  \/ CreateAny
  \/ \E f \in Files : FileStep(f)
  \/ \E p \in Putters : PutStep(p)
  \/ \E c \in Finishers : CompleteStep(c)

\* The event loop keeps running the requests it has accepted, and Telethon
\* answers or times out (request_timeout); asyncio.Semaphore serves its waiters
\* in order, so none is passed over for ever.  No client owes a request.
Fairness ==
  /\ \A p \in Putters : WF_vars(PutStep(p)) /\ SF_vars(AcquireSlot(p))
  /\ \A c \in Finishers : WF_vars(CompleteStep(c))

Spec == Init /\ [][Next]_vars /\ Fairness

-------------------------------------------------------------------------------
\* Safety.

\* A session is never forgotten, and nothing outlives knowledge of it: nodes,
\* rows, receipts and requests in flight are all of an upload that was created.
EverythingHasASession ==
  /\ \A f \in Files : Exists(f) => session[f] # NoSession
  /\ \A r \in rows : session[r.file] # NoSession
  /\ \A a \in acked : session[a.file] # NoSession
  /\ \A p \in Putters : put[p] # Idle => session[put[p].file] # NoSession
  /\ \A c \in Finishers :
       completing[c] # Idle => session[completing[c].file] # NoSession

\* ON CONFLICT (node_id, chunk_index): an index of a node has at most one row,
\* however many PUTs of it are in flight.
OneRowPerChunk ==
  \A r, s \in rows : r.file = s.file /\ r.index = s.index => r = s

\* What the channel's message `m` is.
Holds(m, f, i, b) ==
  m \in DOMAIN messages /\ messages[m] = [file |-> f, index |-> i, body |-> b]

\* A row is written only after the send, and points at the message that holds
\* exactly its chunk: the index never promises what Telegram does not have.
RowsAreBacked ==
  \A r \in rows :
    r.index \in Plan(r.file) /\ Holds(r.msg, r.file, r.index, r.body)

\* So is what a request in flight knows: the PUT that has a message id has the
\* id of its own chunk, and a digest is computed from one backed row or more for
\* every index of the plan and nothing else, however the rows change meanwhile.
EverythingIsBacked ==
  /\ RowsAreBacked
  /\ \A p \in Putters : put[p] # Idle =>
       /\ put[p].index \in Plan(put[p].file)
       /\ put[p].stage = "stored"
            => Holds(put[p].msg, put[p].file, put[p].index, put[p].body)
  /\ \A c \in Finishers : completing[c] # Idle =>
       LET f == completing[c].file IN
       /\ \A i \in Plan(f) : \E r \in completing[c].seen : r.index = i
       /\ \A r \in completing[c].seen :
            r.file = f /\ r.index \in Plan(f) /\ Holds(r.msg, f, r.index, r.body)

\* complete(): a file becomes ready only with every chunk stored, and nothing
\* that a concurrent request does takes one away again.
ReadyFilesAreComplete ==
  \A f \in Files : Exists(f) /\ node[f].state = "ready" => Missing(f) = {}

\* The await in complete(): a file whose digest is being computed stays complete
\* until the digest is there, or its node is gone and finalize_file_node raises.
DigestedFilesAreComplete ==
  \A c \in Finishers :
    completing[c] # Idle /\ Exists(completing[c].file) => Missing(completing[c].file) = {}

\* A ready file of server_managed mode carries the digest of the very rows
\* a download will read, although the digest was computed from rows listed
\* before the reads and stored after them.
ReadyDigestIsProven ==
  \A f \in Files :
    /\ Exists(f) /\ node[f].state = "ready"
    /\ session[f].mode = "server_managed"
    => node[f].sha256 = [i \in Plan(f) |-> (CHOOSE r \in RowAt(f, i) : TRUE).body]

\* A chunk that put_chunk gave a receipt for is durable: as long as the node exists its
\* index is stored.  (With whose bytes: see ConflictingBodiesAreRefused.)
ReceiptsAreDurable ==
  \A a \in acked : Exists(a.file) => RowAt(a.file, a.index) # {}

\* Every way out of a send gives its upload slot back, once.
Sending == {p \in Putters : put[p] # Idle /\ put[p].stage # "waiting"}
SlotsConserved == slots + Cardinality(Sending) = MaxUploads

\* used_bytes is the sum of the live files' sizes.
QuotaMatchesUsage == used = Usage(node)

\* An aborted upload has no node, whatever request was in flight at the time.
AbortedUploadsHaveNoNode ==
  \A f \in Files :
    session[f] # NoSession /\ session[f].status = "aborted" => ~Exists(f)

\* An acknowledgement settles an index: two different bodies are never both
\* accepted for it (the second is a 409).
ConflictingBodiesAreRefused ==
  \A a, b \in acked : a.file = b.file /\ a.index = b.index => a = b

-------------------------------------------------------------------------------
\* Action properties.

\* completed and aborted are final: a complete that was computing its digest
\* while the upload was aborted must not revive it.
TerminalStatusIsFinal ==
  [][\A f \in Files :
       session[f] # NoSession /\ session[f].status # "pending"
         => session'[f].status = session[f].status]_session

\* Stored chunks are immutable and disappear only together with their node.
RowsOutliveRequests ==
  [][\A r \in rows : r \in rows' \/ node'[r.file] = NoNode]_<<rows, node>>

\* Reserving before the first chunk: however many uploads are under way and
\* whatever happened to earlier ones, no upload is admitted whose file takes the
\* owner's live files over the quota.  (A restore may; it asks nobody.)
AdmittedWithinQuota ==
  [][(\E f \in Files : session[f] = NoSession /\ session'[f] # NoSession)
       => Quota = 0 \/ Usage(node') <= Quota]_vars

-------------------------------------------------------------------------------
\* Liveness.

\* Every accepted request is answered: no PUT waits for ever for a slot.
RequestsFinish ==
  /\ \A p \in Putters : put[p] # Idle ~> put[p] = Idle
  /\ \A c \in Finishers : completing[c] # Idle ~> completing[c] = Idle
===============================================================================
