----------------------------- MODULE UploadProofs -----------------------------
(***************************************************************************)
(* What Upload guarantees for every value of its constants: its own        *)
(* invariants, the quota, that it implements ResumableFile, and that the   *)
(* digest of a ready file is that of its rows.                             *)
(***************************************************************************)
EXTENDS UploadRefinement, ArithmeticProofs

-------------------------------------------------------------------------------
\* Types.

\* The initial state is well typed.
LEMMA TypeInit == Init => TypeOK
BY BoundsAssumption DEF Init, TypeOK

\* A request in flight is a request.
LEMMA PutType ==
  ASSUME TypeOK, NEW p \in Putters, put[p] # Idle
  PROVE  put[p] \in PutRequest
BY DEF TypeOK

\* A complete that is computing its digest is a typed record.
LEMMA CompletingType ==
  ASSUME TypeOK, NEW c \in Finishers, completing[c] # Idle
  PROVE  completing[c] \in CompleteRequest
BY DEF TypeOK

\* A session that was opened is a typed record.
LEMMA SessionType ==
  ASSUME TypeOK, NEW f \in Files, session[f] # NoSession
  PROVE  session[f] \in Session
BY DEF TypeOK

\* A node that exists is a typed record.
LEMMA NodeType ==
  ASSUME TypeOK, NEW f \in Files, Exists(f)
  PROVE  node[f] \in Node
BY DEF TypeOK, Exists

\* Indices of a plan are indices.
LEMMA PlanType ==
  ASSUME TypeOK, NEW f \in Files, session[f] # NoSession
  PROVE  Plan(f) \subseteq AllIndices
BY SessionType DEF Session, Plan, AllIndices

\* Creation gives the file its node and its session, and nobody else anything.
LEMMA OpenUploadType ==
  ASSUME TypeOK, NEW f \in Files, NEW name \in Names, NEW size \in Sizes,
         NEW mode \in Modes, NEW expected \in Declared,
         NEW key \in Keys \union {NoKey},
         OpenUpload(f, name, size, mode, expected, key)
  PROVE  /\ node' \in [Files -> Node \union {NoNode}]
         /\ session' \in [Files -> Session \union {NoSession}]
         /\ node'[f] # NoNode /\ node'[f].state = "uploading"
         /\ session'[f] # NoSession /\ session'[f].status = "pending"
         /\ \A g \in Files \ {f} : node'[g] = node[g] /\ session'[g] = session[g]
<1> DEFINE n == [name |-> name, size |-> size, state |-> "uploading",
                 trashed |-> FALSE, sha256 |-> NoDigest]
           s == [status |-> "pending", size |-> size, mode |-> mode,
                 expected |-> expected, key |-> key, received |-> 0]
<1>1. n \in Node /\ s \in Session
  BY ModesAssumption, DigestAssumption DEF Node, Session, AllModes
<1>2. n # NoNode /\ s # NoSession
  BY <1>1, SentinelAssumption
<1>3. node' = [node EXCEPT ![f] = n] /\ session' = [session EXCEPT ![f] = s]
  BY DEF OpenUpload
<1>4. n.state = "uploading" /\ s.status = "pending"
  OBVIOUS
<1> HIDE DEF n, s
<1> QED  BY <1>1, <1>2, <1>3, <1>4 DEF TypeOK

\* create_session in one piece: who is created, what it replaces.
LEMMA CreateCases ==
  ASSUME TypeOK, CreateAny
  PROVE  \E f \in Files :
           /\ session[f] = NoSession
           /\ node' \in [Files -> Node \union {NoNode}]
           /\ session' \in [Files -> Session \union {NoSession}]
           /\ node'[f] # NoNode /\ node'[f].state = "uploading"
           /\ session'[f] # NoSession /\ session'[f].status = "pending"
           /\ \A g \in Files \ {f} : node'[g] = node[g] /\ session'[g] = session[g]
           /\ gcJobs' \in SUBSET Files
           /\ rows' \subseteq rows
           /\ "overwrite" \notin ClientOps => rows' = rows
           /\ UNCHANGED <<messages, booked, slots, put, acked, completing>>
<1> SUFFICES ASSUME NEW f \in Files, NEW size \in Sizes, NEW mode \in Modes,
                    NEW expected \in Declared, NEW key \in Keys \union {NoKey},
                    \/ \E name \in Names : CreateSession(f, name, size, mode, expected, key)
                    \/ \E old \in Files : OverwriteSession(f, old, size, mode, expected, key)
             PROVE  /\ session[f] = NoSession
                    /\ node' \in [Files -> Node \union {NoNode}]
                    /\ session' \in [Files -> Session \union {NoSession}]
                    /\ node'[f] # NoNode /\ node'[f].state = "uploading"
                    /\ session'[f] # NoSession /\ session'[f].status = "pending"
                    /\ \A g \in Files \ {f} : node'[g] = node[g] /\ session'[g] = session[g]
                    /\ gcJobs' \in SUBSET Files
                    /\ rows' \subseteq rows
                    /\ "overwrite" \notin ClientOps => rows' = rows
                    /\ UNCHANGED <<messages, booked, slots, put, acked, completing>>
  BY DEF CreateAny
<1>1. ASSUME NEW name \in Names, CreateSession(f, name, size, mode, expected, key)
      PROVE  /\ OpenUpload(f, name, size, mode, expected, key)
             /\ session[f] = NoSession
             /\ UNCHANGED <<putVars, rows, gcJobs, completing>>
  BY <1>1 DEF CreateSession
<1>2. ASSUME NEW old \in Files, OverwriteSession(f, old, size, mode, expected, key)
      PROVE  /\ node[old].name \in Names
             /\ OpenUpload(f, node[old].name, size, mode, expected, key)
             /\ session[f] = NoSession
             /\ gcJobs' = gcJobs \union {old} /\ rows' \subseteq rows
             /\ "overwrite" \in ClientOps
             /\ UNCHANGED <<putVars, completing>>
  BY <1>2, NodeType DEF OverwriteSession, ReleaseNodeChunks, Live, Exists, Node
<1>3. CASE \E name \in Names : CreateSession(f, name, size, mode, expected, key)
  BY <1>3, <1>1, OpenUploadType DEF putVars, TypeOK
<1>4. CASE \E old \in Files : OverwriteSession(f, old, size, mode, expected, key)
  BY <1>4, <1>2, OpenUploadType DEF putVars, TypeOK
<1> QED  BY <1>3, <1>4

\* create_session keeps the types.
LEMMA CreateType ==
  ASSUME TypeOK, CreateAny
  PROVE  TypeOK'
BY CreateCases DEF TypeOK

\* The steps of a PUT in flight.
LEMMA PutStepType ==
  ASSUME TypeOK, EverythingHasASession, NEW p \in Putters, PutStep(p)
  PROVE  TypeOK'
<1>1. CASE AcquireSlot(p)
  BY <1>1, PutType DEF AcquireSlot, TypeOK, PutRequest
<1>2. CASE Deliver(p)
  <2>1. put[p] \in PutRequest  BY <1>2, PutType DEF Deliver
  <2>2. messages' \in Seq(Message)
    BY <1>2, <2>1 DEF Deliver, TypeOK, Message, PutRequest
  <2>3. Len(messages) + 1 \in Nat
    BY DEF TypeOK
  <2>4. put' \in [Putters -> PutRequest \union {Idle}]
    BY <1>2, <2>1, <2>3 DEF Deliver, TypeOK, PutRequest
  <2> QED  BY <1>2, <2>2, <2>4 DEF Deliver, TypeOK
<1>3. CASE RetrySend(p)
  BY <1>3, PutType DEF RetrySend, TypeOK, PutRequest
<1>4. CASE GiveUp(p)
  BY <1>4 DEF GiveUp, TypeOK
<1>5. CASE CommitChunk(p)
  <2>1. put[p] \in PutRequest  BY <1>5, PutType DEF CommitChunk
  <2>2. rows' \in SUBSET Row
    BY <1>5, <2>1 DEF CommitChunk, TypeOK, Row, PutRequest
  <2>3. put[p].file \in Files /\ session[put[p].file] \in Session
    BY <1>5, <2>1, SessionType DEF CommitChunk, EverythingHasASession, PutRequest
  <2>4. session' \in [Files -> Session \union {NoSession}]
    <3> DEFINE f == put[p].file
               s == [session[f] EXCEPT !.received = @ + 1]
    <3>1. s \in Session  BY <2>3 DEF Session
    <3>2. session' = session \/ session' = [session EXCEPT ![f] = s]
      BY <1>5 DEF CommitChunk, Bumped
    <3> HIDE DEF s
    <3> QED  BY <2>3, <3>1, <3>2 DEF TypeOK
  <2>5. acked' \in SUBSET Message
    BY <1>5, <2>1 DEF CommitChunk, TypeOK, Message, PutRequest
  <2> QED  BY <1>5, <2>2, <2>4, <2>5 DEF CommitChunk, TypeOK
<1> QED  BY <1>1, <1>2, <1>3, <1>4, <1>5 DEF PutStep

\* The steps of a complete: what it reads is a digest, what it writes is a node.
LEMMA FinalizeType ==
  ASSUME TypeOK, EverythingHasASession, NEW f \in Files,
         NEW sha \in Digest \union {NoDigest}, Finalize(f, sha)
  PROVE  /\ node[f] # NoNode /\ node'[f] # NoNode
         /\ node' \in [Files -> Node \union {NoNode}]
         /\ session[f] # NoSession /\ session'[f] # NoSession
         /\ session' \in [Files -> Session \union {NoSession}]
         /\ node'[f].state = "ready" /\ session'[f].status = "completed"
         /\ session'[f].size = session[f].size
         /\ \A g \in Files \ {f} : node'[g] = node[g] /\ session'[g] = session[g]
<1> DEFINE n == [node[f] EXCEPT !.state = "ready",
                                !.sha256 = IF sha = NoDigest THEN @ ELSE sha]
           s == [session[f] EXCEPT !.status = "completed"]
<1>1. node[f] \in Node /\ session[f] \in Session
  BY NodeType, SessionType DEF Finalize, Exists, EverythingHasASession
<1>2. /\ n \in Node /\ n.state = "ready"
      /\ s \in Session /\ s.status = "completed" /\ s.size = session[f].size
  BY <1>1 DEF Node, Session
<1>3. node' = [node EXCEPT ![f] = n] /\ session' = [session EXCEPT ![f] = s]
  BY DEF Finalize
<1>4. n # NoNode /\ s # NoSession /\ node[f] # NoNode /\ session[f] # NoSession
  BY <1>1, <1>2, SentinelAssumption
<1> HIDE DEF n, s
<1> QED  BY <1>2, <1>3, <1>4 DEF TypeOK

\* The digest that a complete has computed is one.
LEMMA DigestType ==
  ASSUME TypeOK, EverythingHasASession, EverythingIsBacked,
         NEW c \in Finishers, completing[c] # Idle
  PROVE  DigestOf(completing[c].seen) \in Digest
<1> DEFINE seen == completing[c].seen
           f == completing[c].file
           pick(i) == CHOOSE r \in seen : r.index = i
<1>1. f \in Files /\ session[f] \in Session /\ seen \in SUBSET Row
  BY CompletingType, SessionType DEF EverythingHasASession, CompleteRequest
<1>2. {r.index : r \in seen} = Plan(f)
  BY DEF EverythingIsBacked
<1>3. ASSUME NEW i \in Plan(f)
      PROVE  messages[pick(i).msg].body \in Bodies
  <2>1. pick(i) \in seen /\ pick(i).index = i
    BY <1>3 DEF EverythingIsBacked
  <2>2. messages[pick(i).msg].body = pick(i).body
    <3>1. ASSUME NEW r \in seen
          PROVE  Holds(r.msg, f, r.index, r.body)
      BY DEF EverythingIsBacked
    <3>2. Holds(pick(i).msg, f, pick(i).index, pick(i).body)
      BY <2>1, <3>1
    <3> HIDE DEF pick, seen, f
    <3> QED  BY <3>2 DEF Holds
  <2> QED  BY <1>1, <2>1, <2>2 DEF Row
<1>4. DigestOf(seen) \in [Plan(f) -> Bodies]
  <2>1. DigestOf(seen) = [i \in Plan(f) |-> messages[pick(i).msg].body]
    BY <1>2 DEF DigestOf
  <2> HIDE DEF pick, seen, f
  <2> QED  BY <2>1, <1>3
<1>5. session[f].size \in Sizes
  BY <1>1 DEF Session
<1> QED  BY <1>4, <1>5 DEF Digest, Plan

\* The end of a complete keeps the types.
LEMMA CompleteStepType ==
  ASSUME TypeOK, EverythingHasASession, EverythingIsBacked,
         NEW c \in Finishers, CompleteStep(c)
  PROVE  TypeOK'
<1>1. CASE FinishComplete(c)
  <2> DEFINE f == completing[c].file
  <2>1. f \in Files
    BY <1>1, CompletingType DEF FinishComplete, CompleteRequest
  <2>2. /\ node' \in [Files -> Node \union {NoNode}]
        /\ session' \in [Files -> Session \union {NoSession}]
    BY <1>1, <2>1, DigestType, FinalizeType DEF FinishComplete
  <2> QED  BY <1>1, <2>2 DEF FinishComplete, putVars, TypeOK
<1>2. CASE RejectComplete(c)
  BY <1>2 DEF RejectComplete, putVars, TypeOK
<1> QED  BY <1>1, <1>2 DEF CompleteStep

\* The steps of clients on a file.
LEMMA FileStepType ==
  ASSUME TypeOK, EverythingHasASession, NEW f \in Files, FileStep(f)
  PROVE  TypeOK'
<1>1. ASSUME NEW p \in Putters, NEW i \in AllIndices, NEW b \in Bodies,
             BeginPut(p, f, i, b)
      PROVE  TypeOK'
  BY <1>1 DEF BeginPut, TypeOK, PutRequest
<1>2. ASSUME NEW i \in AllIndices, NEW b \in Bodies, ReplayPut(f, i, b)
      PROVE  TypeOK'
  BY <1>2 DEF ReplayPut, TypeOK, Message
<1>3. ASSUME NEW c \in Finishers, NEW declared \in Declared,
             BeginComplete(c, f, declared)
      PROVE  TypeOK'
  <2>1. session[f] \in Session
    BY <1>3, SessionType DEF BeginComplete, Pending
  <2>2. [file |-> f, seen |-> RowsOf(f),
         want |-> IF declared # NoDigest THEN declared ELSE session[f].expected]
          \in CompleteRequest
    BY <2>1, DigestAssumption DEF TypeOK, CompleteRequest, RowsOf, Session
  <2> QED  BY <1>3, <2>2 DEF BeginComplete, putVars, TypeOK
<1>4. ASSUME NEW declared \in Declared, CompleteUnverified(f, declared)
      PROVE  TypeOK'
  <2>1. /\ node' \in [Files -> Node \union {NoNode}]
        /\ session' \in [Files -> Session \union {NoSession}]
    BY <1>4, FinalizeType, DigestAssumption DEF CompleteUnverified
  <2> QED  BY <1>4, <2>1 DEF CompleteUnverified, putVars, TypeOK
<1>5. ASSUME NEW size \in Sizes, OverwriteRefused(f, size)
      PROVE  TypeOK'
  BY <1>5 DEF OverwriteRefused, ReleaseNodeChunks, RowsOf, putVars, TypeOK
<1>6. CASE Abort(f)
  <2>1. session[f] \in Session
    BY <1>6, SessionType DEF Abort, Pending
  <2>2. session' \in [Files -> Session \union {NoSession}]
    <3> DEFINE s == [session[f] EXCEPT !.status = "aborted"]
    <3>1. s \in Session  BY <2>1 DEF Session
    <3>2. session' = [session EXCEPT ![f] = s]  BY <1>6 DEF Abort
    <3> HIDE DEF s
    <3> QED  BY <3>1, <3>2 DEF TypeOK
  <2>3. /\ node' \in [Files -> Node \union {NoNode}]
        /\ rows' \in SUBSET Row
    BY <1>6 DEF Abort, DeleteNode, RowsOf, TypeOK
  <2> QED  BY <1>6, <2>2, <2>3 DEF Abort, putVars, TypeOK
<1>7. CASE Trash(f)
  <2>1. node[f] \in Node  BY <1>7, NodeType DEF Trash
  <2>2. node' \in [Files -> Node \union {NoNode}]
    BY <1>7, <2>1 DEF Trash, TypeOK, Node
  <2> QED  BY <1>7, <2>2 DEF Trash, putVars, TypeOK
<1>8. CASE Restore(f)
  <2>1. node[f] \in Node  BY <1>8, NodeType DEF Restore
  <2>2. node' \in [Files -> Node \union {NoNode}]
    BY <1>8, <2>1 DEF Restore, TypeOK, Node
  <2> QED  BY <1>8, <2>2 DEF Restore, putVars, TypeOK
<1>9. CASE Purge(f)
  BY <1>9 DEF Purge, DeleteNode, RowsOf, putVars, TypeOK
<1> QED  BY <1>1, <1>2, <1>3, <1>4, <1>5, <1>6, <1>7, <1>8, <1>9 DEF FileStep

\* Every step keeps the types.
LEMMA NextType ==
  ASSUME TypeOK, EverythingHasASession, EverythingIsBacked, [Next]_vars
  PROVE  TypeOK'
<1>1. CASE Next
  BY <1>1, CreateType, FileStepType, PutStepType, CompleteStepType DEF Next
<1>2. CASE UNCHANGED vars
  BY <1>2 DEF vars, TypeOK
<1> QED  BY <1>1, <1>2

-------------------------------------------------------------------------------
\* What a step may do to each variable, whichever action it is.

RowOf(p) == [file |-> put[p].file, index |-> put[p].index,
             body |-> put[p].body, msg |-> put[p].msg]

SessionFrame ==
  \A f \in Files : session[f] # NoSession =>
    session'[f] # NoSession /\ session'[f].size = session[f].size

NodeFrame ==
  \A f \in Files : node'[f] # NoNode =>
    session'[f] # NoSession /\ (node[f] # NoNode \/ session[f] = NoSession)

MessageFrame ==
  \A m \in DOMAIN messages : m \in DOMAIN messages' /\ messages'[m] = messages[m]

RowFrame ==
  \/ rows' \subseteq rows
  \/ \E p \in Putters :
       /\ put[p] # Idle /\ put[p].stage = "stored"
       /\ RowAt(put[p].file, put[p].index) = {}
       /\ rows' = rows \union {RowOf(p)}

AckedFrame ==
  \A a \in acked' : a \in acked \/
    (session[a.file] # NoSession /\ \E r \in rows' : r.file = a.file /\ r.index = a.index)

PutFrame ==
  \A p \in Putters : put'[p] # Idle =>
    \/ /\ put[p] # Idle
       /\ put'[p].file = put[p].file /\ put'[p].index = put[p].index
       /\ put'[p].stage = "stored" =>
            \/ /\ put[p].stage = "stored" /\ put'[p].msg = put[p].msg
               /\ put'[p].body = put[p].body
            \/ Holds(put[p].msg, put[p].file, put[p].index, put[p].body)'
    \/ /\ session[put'[p].file] # NoSession
       /\ put'[p].index \in Plan(put'[p].file)
       /\ put'[p].stage = "waiting"

CompletingFrame ==
  \A c \in Finishers : completing'[c] # Idle =>
    \/ completing'[c] = completing[c]
    \/ /\ completing'[c].file \in Files
       /\ Pending(completing'[c].file)
       /\ Missing(completing'[c].file) = {}
       /\ completing'[c].seen = RowsOf(completing'[c].file)

Frame ==
  /\ SessionFrame /\ NodeFrame /\ MessageFrame /\ RowFrame
  /\ AckedFrame /\ PutFrame /\ CompletingFrame

\* create_session within the frame.
LEMMA CreateFrame ==
  ASSUME TypeOK, EverythingHasASession, CreateAny
  PROVE  Frame
<1> PICK f \in Files :
           /\ session[f] = NoSession
           /\ session'[f] # NoSession
           /\ \A g \in Files \ {f} : node'[g] = node[g] /\ session'[g] = session[g]
           /\ rows' \subseteq rows
           /\ UNCHANGED <<messages, booked, slots, put, acked, completing>>
  BY CreateCases
<1>1. SessionFrame
  BY DEF SessionFrame
<1>2. NodeFrame
  BY DEF NodeFrame, EverythingHasASession, Exists
<1>3. MessageFrame /\ RowFrame /\ AckedFrame
  BY DEF MessageFrame, RowFrame, AckedFrame
<1>4. PutFrame /\ CompletingFrame
  BY DEF PutFrame, CompletingFrame
<1> QED  BY <1>1, <1>2, <1>3, <1>4 DEF Frame

\* The steps of a PUT in flight within the frame.
LEMMA PutStepFrame ==
  ASSUME TypeOK, EverythingHasASession, NEW p \in Putters, PutStep(p)
  PROVE  Frame
<1> USE DEF Frame, SessionFrame, NodeFrame, MessageFrame, RowFrame, AckedFrame,
            CompletingFrame
<1>0. put[p] # Idle
  BY DEF PutStep, AcquireSlot, Deliver, RetrySend, GiveUp, CommitChunk
<1>q. put[p] \in PutRequest /\ put[p].file \in Files
  BY <1>0, PutType DEF PutRequest
<1>n. \A f \in Files : node[f] # NoNode => session[f] # NoSession
  BY DEF EverythingHasASession, Exists
<1>1. CASE AcquireSlot(p)
  <2>1. PutFrame  BY <1>1, <1>q DEF AcquireSlot, PutFrame, TypeOK, PutRequest
  <2> QED  BY <1>1, <1>n, <2>1 DEF AcquireSlot
<1>2. CASE Deliver(p)
  <2>1. Len(messages) \in Nat /\ Len(messages) + 1 \in DOMAIN messages'
    BY <1>2 DEF Deliver, TypeOK
  <2>2. messages'[Len(messages) + 1] =
          [file |-> put[p].file, index |-> put[p].index, body |-> put[p].body]
    BY <1>2 DEF Deliver, TypeOK
  <2>3. MessageFrame
    BY <1>2 DEF Deliver, TypeOK
  <2>4. PutFrame
    BY <1>2, <1>q, <2>1, <2>2 DEF Deliver, PutFrame, TypeOK, PutRequest, Holds
  <2> QED  BY <1>2, <1>n, <2>3, <2>4 DEF Deliver
<1>3. CASE RetrySend(p)
  <2>1. PutFrame  BY <1>3, <1>q DEF RetrySend, PutFrame, TypeOK, PutRequest
  <2> QED  BY <1>3, <1>n, <2>1 DEF RetrySend
<1>4. CASE GiveUp(p)
  <2>1. PutFrame  BY <1>4 DEF GiveUp, PutFrame, TypeOK
  <2> QED  BY <1>4, <1>n, <2>1 DEF GiveUp
<1>5. CASE CommitChunk(p)
  <2>1. PutFrame  BY <1>5 DEF CommitChunk, PutFrame, TypeOK
  <2>2. session[put[p].file] \in Session
    BY <1>5, <1>q, SessionType DEF CommitChunk, EverythingHasASession
  <2>3. SessionFrame
    <3> DEFINE f == put[p].file
               s == [session[f] EXCEPT !.received = @ + 1]
    <3>1. s \in Session /\ s # NoSession /\ s.size = session[f].size
      BY <2>2, SentinelAssumption DEF Session
    <3>2. session' = session \/ session' = [session EXCEPT ![f] = s]
      BY <1>5 DEF CommitChunk, Bumped
    <3> HIDE DEF s, f
    <3> QED  BY <3>1, <3>2 DEF TypeOK
  <2>4. RowFrame
    BY <1>5 DEF CommitChunk, RowOf
  <2>5. \E r \in rows' : r.file = put[p].file /\ r.index = put[p].index
    <3>1. CASE RowAt(put[p].file, put[p].index) = {}
      <4>1. RowOf(p) \in rows'  BY <1>5, <3>1 DEF CommitChunk, RowOf
      <4>2. RowOf(p).file = put[p].file /\ RowOf(p).index = put[p].index
        BY DEF RowOf
      <4> QED  BY <4>1, <4>2
    <3>2. CASE RowAt(put[p].file, put[p].index) # {}
      <4>1. rows' = rows  BY <1>5, <3>2 DEF CommitChunk
      <4> QED  BY <3>2, <4>1 DEF RowAt
    <3> QED  BY <3>1, <3>2
  <2>6. AckedFrame
    BY <1>5, <1>0, <2>5 DEF CommitChunk, EverythingHasASession
  <2> QED  BY <1>5, <1>n, <2>1, <2>3, <2>4, <2>6 DEF CommitChunk
<1> QED  BY <1>1, <1>2, <1>3, <1>4, <1>5 DEF PutStep

\* The end of a complete within the frame.
LEMMA CompleteStepFrame ==
  ASSUME TypeOK, EverythingHasASession, EverythingIsBacked,
         NEW c \in Finishers, CompleteStep(c)
  PROVE  Frame
<1> USE DEF Frame, SessionFrame, NodeFrame, MessageFrame, RowFrame, AckedFrame,
            PutFrame
<1>n. \A g \in Files : node[g] # NoNode => session[g] # NoSession
  BY DEF EverythingHasASession, Exists
<1>1. CASE FinishComplete(c)
  <2> DEFINE f == completing[c].file
  <2>1. f \in Files /\ Finalize(f, DigestOf(completing[c].seen))
    BY <1>1, CompletingType DEF FinishComplete, CompleteRequest
  <2>2. DigestOf(completing[c].seen) \in Digest
    BY <1>1, DigestType DEF FinishComplete
  <2>3. /\ node[f] # NoNode /\ session'[f] # NoSession
        /\ session'[f].size = session[f].size
        /\ \A g \in Files \ {f} : node'[g] = node[g] /\ session'[g] = session[g]
    BY <2>1, <2>2, FinalizeType
  <2>4. CompletingFrame
    BY <1>1 DEF FinishComplete, CompletingFrame, TypeOK
  <2>5. SessionFrame /\ NodeFrame
    BY <2>3, <1>n
  <2> QED  BY <1>1, <2>4, <2>5 DEF FinishComplete, putVars
<1>2. CASE RejectComplete(c)
  <2>1. CompletingFrame
    BY <1>2 DEF RejectComplete, CompletingFrame, TypeOK
  <2> QED  BY <1>2, <1>n, <2>1 DEF RejectComplete, putVars
<1> QED  BY <1>1, <1>2 DEF CompleteStep

\* The requests of one upload within the frame.
LEMMA FileStepFrame ==
  ASSUME TypeOK, EverythingHasASession, NEW f \in Files, FileStep(f)
  PROVE  Frame
<1> USE DEF Frame, SessionFrame, NodeFrame, MessageFrame, RowFrame, AckedFrame,
            CompletingFrame, PutFrame
<1>n. \A g \in Files : node[g] # NoNode => session[g] # NoSession
  BY DEF EverythingHasASession, Exists
<1>1. ASSUME NEW p \in Putters, NEW i \in AllIndices, NEW b \in Bodies,
             BeginPut(p, f, i, b)
      PROVE  Frame
  BY <1>1, <1>n DEF BeginPut, Pending, TypeOK
<1>2. ASSUME NEW i \in AllIndices, NEW b \in Bodies, ReplayPut(f, i, b)
      PROVE  Frame
  BY <1>2, <1>n DEF ReplayPut, Pending, RowAt
<1>3. ASSUME NEW c \in Finishers, NEW declared \in Declared,
             BeginComplete(c, f, declared)
      PROVE  Frame
  BY <1>3, <1>n DEF BeginComplete, Assembled, putVars, TypeOK
<1>4. ASSUME NEW declared \in Declared, CompleteUnverified(f, declared)
      PROVE  Frame
  <2>1. /\ node[f] # NoNode /\ session'[f] # NoSession
        /\ session'[f].size = session[f].size
        /\ \A g \in Files \ {f} : node'[g] = node[g] /\ session'[g] = session[g]
    BY <1>4, FinalizeType, DigestAssumption DEF CompleteUnverified
  <2> QED  BY <1>4, <1>n, <2>1 DEF CompleteUnverified, putVars
<1>5. ASSUME NEW size \in Sizes, OverwriteRefused(f, size)
      PROVE  Frame
  BY <1>5, <1>n DEF OverwriteRefused, ReleaseNodeChunks, putVars
<1>6. CASE Abort(f)
  <2> DEFINE s == [session[f] EXCEPT !.status = "aborted"]
  <2>1. session[f] \in Session
    BY <1>6, SessionType DEF Abort, Pending
  <2>2. s \in Session /\ s # NoSession /\ s.size = session[f].size
    BY <2>1, SentinelAssumption DEF Session
  <2>3. session' = [session EXCEPT ![f] = s]
    BY <1>6 DEF Abort
  <2> HIDE DEF s
  <2>4. SessionFrame
    BY <2>2, <2>3 DEF TypeOK
  <2>5. NodeFrame
    BY <1>6, <1>n, <2>4 DEF Abort, DeleteNode, TypeOK
  <2>6. rows' \subseteq rows
    BY <1>6 DEF Abort, DeleteNode
  <2> QED  BY <1>6, <2>4, <2>5, <2>6 DEF Abort, putVars
<1>7. CASE Trash(f)
  <2>1. NodeFrame  BY <1>7, <1>n DEF Trash, Exists, TypeOK
  <2> QED  BY <1>7, <2>1 DEF Trash, putVars
<1>8. CASE Restore(f)
  <2>1. NodeFrame  BY <1>8, <1>n DEF Restore, Exists, TypeOK
  <2> QED  BY <1>8, <2>1 DEF Restore, putVars
<1>9. CASE Purge(f)
  <2>1. NodeFrame  BY <1>9, <1>n DEF Purge, DeleteNode, TypeOK
  <2> QED  BY <1>9, <2>1 DEF Purge, DeleteNode, putVars
<1> QED  BY <1>1, <1>2, <1>3, <1>4, <1>5, <1>6, <1>7, <1>8, <1>9 DEF FileStep

\* Every step is within the frame.
LEMMA NextFrame ==
  ASSUME TypeOK, EverythingHasASession, EverythingIsBacked, [Next]_vars
  PROVE  Frame
<1>1. CASE Next
  BY <1>1, CreateFrame, FileStepFrame, PutStepFrame, CompleteStepFrame DEF Next
<1>2. CASE UNCHANGED vars
  BY <1>2 DEF vars, Frame, SessionFrame, NodeFrame, MessageFrame, RowFrame,
              AckedFrame, CompletingFrame, PutFrame, EverythingHasASession, Exists
<1> QED  BY <1>1, <1>2

-------------------------------------------------------------------------------
\* The inductive invariant behind the safety theorems, and its parts.

IInv ==
  /\ TypeOK
  /\ EverythingHasASession
  /\ EverythingIsBacked
  /\ OneRowPerChunk

\* The empty drive satisfies the invariant.
LEMMA InitIInv == Init => IInv
<1> SUFFICES ASSUME Init PROVE IInv
  OBVIOUS
<1>1. TypeOK
  BY TypeInit
<1>2. EverythingHasASession
  BY DEF Init, EverythingHasASession, Exists
<1>3. EverythingIsBacked /\ OneRowPerChunk
  BY DEF Init, EverythingIsBacked, RowsAreBacked, OneRowPerChunk
<1> QED  BY <1>1, <1>2, <1>3 DEF IInv

\* Sessions are never forgotten, because no step removes one.
LEMMA SessionsStay ==
  ASSUME IInv, TypeOK', Frame
  PROVE  EverythingHasASession'
<1>t. /\ \A r \in rows : r.file \in Files /\ session[r.file] # NoSession
      /\ \A a \in acked : a.file \in Files /\ session[a.file] # NoSession
      /\ \A p \in Putters : put[p] # Idle =>
           put[p].file \in Files /\ session[put[p].file] # NoSession
      /\ \A c \in Finishers : completing[c] # Idle =>
           completing[c].file \in Files /\ session[completing[c].file] # NoSession
  BY PutType, CompletingType
     DEF IInv, TypeOK, EverythingHasASession, Row, Message, PutRequest, CompleteRequest
<1>s. \A f \in Files : session[f] # NoSession => session'[f] # NoSession
  BY DEF Frame, SessionFrame
<1>1. \A f \in Files : Exists(f)' => session'[f] # NoSession
  BY DEF Frame, NodeFrame, Exists
<1>2. \A r \in rows' : session'[r.file] # NoSession
  BY <1>t, <1>s DEF Frame, RowFrame, RowOf
<1>3. \A a \in acked' : session'[a.file] # NoSession
  BY <1>t, <1>s DEF Frame, AckedFrame, TypeOK, Message
<1>4. ASSUME NEW p \in Putters, put'[p] # Idle
      PROVE  session'[put'[p].file] # NoSession
  <2>1. put'[p].file \in Files
    BY <1>4 DEF TypeOK, PutRequest
  <2> QED  BY <1>4, <2>1, <1>t, <1>s DEF Frame, PutFrame
<1>5. ASSUME NEW c \in Finishers, completing'[c] # Idle
      PROVE  session'[completing'[c].file] # NoSession
  BY <1>5, <1>t, <1>s DEF Frame, CompletingFrame, Pending
<1> QED  BY <1>1, <1>2, <1>3, <1>4, <1>5 DEF EverythingHasASession

\* Backing is kept: messages are only appended to, and what becomes a row or is
\* listed for a digest was backed before.
LEMMA BackingStays ==
  ASSUME IInv, TypeOK', Frame
  PROVE  EverythingIsBacked'
<1> DEFINE NextPlan(f) == Indices(session'[f].size, ChunkSize)
           NextHolds(m, f, i, b) ==
             m \in DOMAIN messages' /\ messages'[m] = [file |-> f, index |-> i, body |-> b]
<1>h. \A m, f, i, b : Holds(m, f, i, b) => NextHolds(m, f, i, b)
  BY DEF Holds, Frame, MessageFrame
<1>p. \A f \in Files : session[f] # NoSession => NextPlan(f) = Plan(f)
  BY DEF Frame, SessionFrame, Plan
<1> HIDE DEF NextPlan, NextHolds
<1>r. ASSUME NEW r \in rows
      PROVE  r.index \in NextPlan(r.file) /\ NextHolds(r.msg, r.file, r.index, r.body)
  <2>1. r.file \in Files /\ session[r.file] # NoSession
    BY DEF IInv, TypeOK, Row, EverythingHasASession
  <2>2. r.index \in Plan(r.file) /\ Holds(r.msg, r.file, r.index, r.body)
    BY DEF IInv, EverythingIsBacked, RowsAreBacked
  <2> QED  BY <2>1, <2>2, <1>h, <1>p
<1>t. ASSUME NEW p \in Putters, put[p] # Idle
      PROVE  /\ put[p].index \in NextPlan(put[p].file)
             /\ put[p].stage = "stored"
                  => NextHolds(put[p].msg, put[p].file, put[p].index, put[p].body)
  <2>1. put[p].file \in Files /\ session[put[p].file] # NoSession
    BY <1>t, PutType DEF IInv, PutRequest, EverythingHasASession
  <2>2. /\ put[p].index \in Plan(put[p].file)
        /\ put[p].stage = "stored"
             => Holds(put[p].msg, put[p].file, put[p].index, put[p].body)
    BY <1>t DEF IInv, EverythingIsBacked
  <2> QED  BY <2>1, <2>2, <1>h, <1>p
<1>1. ASSUME NEW r \in rows'
      PROVE  r.index \in NextPlan(r.file) /\ NextHolds(r.msg, r.file, r.index, r.body)
  <2>1. CASE r \in rows
    BY <2>1, <1>r
  <2>2. ASSUME NEW p \in Putters, put[p] # Idle, put[p].stage = "stored", r = RowOf(p)
        PROVE  r.index \in NextPlan(r.file) /\ NextHolds(r.msg, r.file, r.index, r.body)
    BY <2>2, <1>t DEF RowOf
  <2> QED  BY <2>1, <2>2 DEF Frame, RowFrame
<1>2. ASSUME NEW p \in Putters, put'[p] # Idle
      PROVE  /\ put'[p].index \in NextPlan(put'[p].file)
             /\ put'[p].stage = "stored"
                  => NextHolds(put'[p].msg, put'[p].file, put'[p].index, put'[p].body)
  <2>1. put'[p].file \in Files
    BY <1>2 DEF TypeOK, PutRequest
  <2>2. \/ /\ put[p] # Idle
           /\ put'[p].file = put[p].file /\ put'[p].index = put[p].index
           /\ put'[p].stage = "stored" =>
                \/ /\ put[p].stage = "stored" /\ put'[p].msg = put[p].msg
                   /\ put'[p].body = put[p].body
                \/ NextHolds(put'[p].msg, put'[p].file, put'[p].index, put'[p].body)
        \/ /\ session[put'[p].file] # NoSession
           /\ put'[p].index \in Plan(put'[p].file)
           /\ put'[p].stage = "waiting"
    BY <1>2 DEF Frame, PutFrame, Holds, NextHolds
  <2> QED  BY <2>1, <2>2, <1>t, <1>p
<1>3. ASSUME NEW c \in Finishers, completing'[c] # Idle,
             completing'[c] = completing[c]
      PROVE  LET f == completing'[c].file IN
             /\ \A i \in NextPlan(f) : \E r \in completing'[c].seen : r.index = i
             /\ \A r \in completing'[c].seen :
                  r.file = f /\ r.index \in NextPlan(f) /\ NextHolds(r.msg, f, r.index, r.body)
  <2>1. completing[c].file \in Files /\ session[completing[c].file] # NoSession
    BY <1>3, CompletingType DEF IInv, CompleteRequest, EverythingHasASession
  <2>2. NextPlan(completing[c].file) = Plan(completing[c].file)
    BY <2>1, <1>p
  <2>3. LET f == completing[c].file IN
        /\ \A i \in Plan(f) : \E r \in completing[c].seen : r.index = i
        /\ \A r \in completing[c].seen :
             r.file = f /\ r.index \in Plan(f) /\ Holds(r.msg, f, r.index, r.body)
    BY <1>3 DEF IInv, EverythingIsBacked
  <2> QED  BY <1>3, <2>2, <2>3, <1>h
<1>4. ASSUME NEW c \in Finishers, completing'[c] # Idle,
             completing'[c].file \in Files, Pending(completing'[c].file),
             Missing(completing'[c].file) = {},
             completing'[c].seen = RowsOf(completing'[c].file)
      PROVE  LET f == completing'[c].file IN
             /\ \A i \in NextPlan(f) : \E r \in completing'[c].seen : r.index = i
             /\ \A r \in completing'[c].seen :
                  r.file = f /\ r.index \in NextPlan(f) /\ NextHolds(r.msg, f, r.index, r.body)
  <2>1. NextPlan(completing'[c].file) = Plan(completing'[c].file)
    BY <1>4, <1>p DEF Pending
  <2>2. \A i \in Plan(completing'[c].file) :
          \E r \in RowsOf(completing'[c].file) : r.index = i
    BY <1>4 DEF Missing, Stored
  <2>3. \A r \in RowsOf(completing'[c].file) :
          /\ r.file = completing'[c].file /\ r.index \in NextPlan(r.file)
          /\ NextHolds(r.msg, r.file, r.index, r.body)
    BY <1>r DEF RowsOf
  <2> QED  BY <1>4, <2>1, <2>2, <2>3
<1>5. ASSUME NEW c \in Finishers, completing'[c] # Idle
      PROVE  LET f == completing'[c].file IN
             /\ \A i \in NextPlan(f) : \E r \in completing'[c].seen : r.index = i
             /\ \A r \in completing'[c].seen :
                  r.file = f /\ r.index \in NextPlan(f) /\ NextHolds(r.msg, f, r.index, r.body)
  BY <1>3, <1>4, <1>5 DEF Frame, CompletingFrame
<1> QED
  BY <1>1, <1>2, <1>5
     DEF EverythingIsBacked, RowsAreBacked, Holds, Plan, NextHolds, NextPlan

\* A row is added only where there is none.
LEMMA OneRowStays ==
  ASSUME IInv, Frame
  PROVE  OneRowPerChunk'
<1>1. CASE rows' \subseteq rows
  BY <1>1 DEF IInv, OneRowPerChunk
<1>2. ASSUME NEW p \in Putters, RowAt(put[p].file, put[p].index) = {},
             rows' = rows \union {RowOf(p)}
      PROVE  OneRowPerChunk'
  <2>1. \A r \in rows : ~(r.file = RowOf(p).file /\ r.index = RowOf(p).index)
    BY <1>2 DEF RowAt, RowOf
  <2> QED  BY <1>2, <2>1 DEF IInv, OneRowPerChunk
<1> QED  BY <1>1, <1>2 DEF Frame, RowFrame

\* The invariant is inductive.
LEMMA NextIInv == IInv /\ [Next]_vars => IInv'
<1> SUFFICES ASSUME IInv, [Next]_vars PROVE IInv'
  OBVIOUS
<1>1. TypeOK' /\ Frame
  BY NextType, NextFrame DEF IInv
<1> QED  BY <1>1, SessionsStay, BackingStays, OneRowStays DEF IInv

\* The inductive invariant of the upload pipeline: typed states, sessions for
\* everything, backed rows and requests, one row per chunk.
THEOREM Invariance == Spec => []IInv
BY InitIInv, NextIInv, PTL DEF Spec

-------------------------------------------------------------------------------
\* The theorems.

\* Every reachable state is well typed; in particular what complete() stores as
\* a file's sha256 is always the digest of a whole plan.
THEOREM TypeCorrect == Spec => []TypeOK
<1>1. IInv => TypeOK  BY DEF IInv
<1> QED  BY <1>1, Invariance, PTL

\* However many PUTs of one index race, one row of it is ever there.
THEOREM RowsAreUnique == Spec => []OneRowPerChunk
<1>1. IInv => OneRowPerChunk  BY DEF IInv
<1> QED  BY <1>1, Invariance, PTL

\* The chunk index never promises what Telegram does not hold.
THEOREM BackingHolds == Spec => []EverythingIsBacked
<1>1. IInv => EverythingIsBacked  BY DEF IInv
<1> QED  BY <1>1, Invariance, PTL

\* Nothing in the system is of an upload that was never created.
THEOREM SessionsAreKept == Spec => []EverythingHasASession
<1>1. IInv => EverythingHasASession  BY DEF IInv
<1> QED  BY <1>1, Invariance, PTL

-------------------------------------------------------------------------------
\* Upload slots.

\* BeginPut is the only step of a file's clients that touches a PUT.
LEMMA NoSlotTaken ==
  ASSUME TypeOK, CreateAny \/ (\E f \in Files : FileStep(f))
                   \/ (\E c \in Finishers : CompleteStep(c))
  PROVE  slots' = slots /\ Sending' = Sending
<1>1. CASE CreateAny
  BY <1>1, CreateCases DEF Sending
<1>2. ASSUME NEW f \in Files, FileStep(f)
      PROVE  slots' = slots /\ Sending' = Sending
  <2>1. ASSUME NEW p \in Putters, NEW i \in AllIndices, NEW b \in Bodies,
               BeginPut(p, f, i, b)
        PROVE  slots' = slots /\ Sending' = Sending
    BY <2>1 DEF BeginPut, Sending, TypeOK
  <2>2. ASSUME \/ \E i \in AllIndices, b \in Bodies : ReplayPut(f, i, b)
               \/ \E c \in Finishers, declared \in Declared : BeginComplete(c, f, declared)
               \/ \E declared \in Declared : CompleteUnverified(f, declared)
               \/ \E size \in Sizes : OverwriteRefused(f, size)
               \/ Abort(f) \/ Trash(f) \/ Restore(f) \/ Purge(f)
        PROVE  slots' = slots /\ put' = put
    BY <2>2 DEF ReplayPut, BeginComplete, CompleteUnverified, OverwriteRefused, Abort,
                Trash, Restore, Purge, putVars
  <2> QED  BY <1>2, <2>1, <2>2 DEF FileStep, Sending
<1>3. ASSUME NEW c \in Finishers, CompleteStep(c)
      PROVE  slots' = slots /\ Sending' = Sending
  BY <1>3 DEF CompleteStep, FinishComplete, RejectComplete, putVars, Sending
<1> QED  BY <1>1, <1>2, <1>3

\* Of the steps of a PUT, one takes a slot and the two that end the send return
\* it.
LEMMA SlotStep ==
  ASSUME TypeOK, SlotsConserved, NEW p \in Putters, PutStep(p)
  PROVE  SlotsConserved'
<1>1. IsFiniteSet(Sending) /\ Cardinality(Sending) \in Nat
  BY BoundsAssumption, FS_Subset, FS_CardinalityType DEF Sending
<1>2. CASE AcquireSlot(p)
  <2>1. p \notin Sending /\ Sending' = Sending \union {p}
    BY <1>2, PutType, SentinelAssumption DEF AcquireSlot, Sending, TypeOK, PutRequest
  <2>2. Cardinality(Sending') = Cardinality(Sending) + 1
    BY <1>1, <2>1, FS_AddElement
  <2> QED  BY <1>1, <1>2, <2>2 DEF AcquireSlot, SlotsConserved, TypeOK
<1>3. CASE Deliver(p) \/ RetrySend(p)
  <2>0. put[p] \in PutRequest /\ put[p].stage # "waiting" /\ p \in Sending
    BY <1>3, PutType DEF Deliver, RetrySend, Sending
  <2>1. put'[p] \in PutRequest /\ put'[p].stage # "waiting"
    <3>1. Len(messages) + 1 \in Nat  BY DEF TypeOK
    <3> QED  BY <1>3, <2>0, <3>1 DEF Deliver, RetrySend, TypeOK, PutRequest
  <2>2. \A q \in Putters \ {p} : put'[q] = put[q]
    BY <1>3 DEF Deliver, RetrySend, TypeOK
  <2>3. Sending' = Sending
    BY <2>0, <2>1, <2>2, SentinelAssumption DEF Sending
  <2> QED  BY <1>3, <2>3 DEF Deliver, RetrySend, SlotsConserved
<1>4. CASE GiveUp(p) \/ CommitChunk(p)
  <2>1. p \in Sending /\ Sending' = Sending \ {p}
    BY <1>4 DEF GiveUp, CommitChunk, Sending, TypeOK
  <2>2. Cardinality(Sending') = Cardinality(Sending) - 1
    BY <1>1, <2>1, FS_RemoveElement
  <2>3. slots' = slots + 1
    BY <1>4 DEF GiveUp, CommitChunk
  <2> QED  BY <1>1, <2>2, <2>3, BoundsAssumption DEF SlotsConserved, TypeOK
<1> QED  BY <1>2, <1>3, <1>4 DEF PutStep

\* No way out of a send loses an upload slot or gives one back twice.
THEOREM SlotsAreConserved == Spec => []SlotsConserved
<1>1. Init => SlotsConserved
  <2> SUFFICES ASSUME Init PROVE SlotsConserved
    OBVIOUS
  <2>1. Sending = {}
    BY DEF Init, Sending
  <2> QED  BY <2>1, FS_EmptySet, BoundsAssumption DEF Init, SlotsConserved
<1>2. IInv /\ SlotsConserved /\ [Next]_vars => SlotsConserved'
  <2> SUFFICES ASSUME IInv, SlotsConserved, [Next]_vars PROVE SlotsConserved'
    OBVIOUS
  <2>1. CASE \E p \in Putters : PutStep(p)
    BY <2>1, SlotStep DEF IInv
  <2>2. CASE CreateAny \/ (\E f \in Files : FileStep(f))
               \/ (\E c \in Finishers : CompleteStep(c))
    BY <2>2, NoSlotTaken DEF IInv, SlotsConserved
  <2>3. CASE UNCHANGED vars
    BY <2>3 DEF vars, SlotsConserved, Sending
  <2> QED  BY <2>1, <2>2, <2>3 DEF Next
<1> QED  BY <1>1, <1>2, Invariance, PTL DEF Spec

-------------------------------------------------------------------------------
\* The life of an upload.

StatusFrame ==
  \A f \in Files : session'[f] # NoSession =>
    \/ session[f] # NoSession /\ session'[f].status = session[f].status
    \/ session[f] = NoSession /\ session'[f].status = "pending"
    \/ Pending(f) /\ session'[f].status = "aborted" /\ node'[f] = NoNode
    \/ session[f] # NoSession /\ Exists(f) /\ session'[f].status = "completed"

\* A node becomes ready with all its chunks, or at the end of a complete.
ReadyFrame ==
  \A f \in Files : node'[f] # NoNode /\ node'[f].state = "ready" =>
    /\ Exists(f)
    /\ \/ node[f].state = "ready"
       \/ Missing(f) = {}
       \/ \E c \in Finishers : completing[c] # Idle /\ completing[c].file = f

\* Only overwriting takes rows from a node.
LossFrame ==
  "overwrite" \notin ClientOps =>
    \A r \in rows : r \in rows' \/ node'[r.file] = NoNode

LifeFrame == StatusFrame /\ ReadyFrame /\ LossFrame

\* finalize_file_node and complete_upload_session, as life-cycle facts.
LEMMA FinalizeLife ==
  ASSUME TypeOK, EverythingHasASession, NEW f \in Files,
         NEW sha \in Digest \union {NoDigest}, Finalize(f, sha)
  PROVE  StatusFrame /\ Exists(f) /\ (\A g \in Files \ {f} : node'[g] = node[g])
<1>1. /\ node[f] # NoNode /\ session[f] # NoSession
      /\ session'[f].status = "completed"
      /\ \A g \in Files \ {f} : node'[g] = node[g] /\ session'[g] = session[g]
  BY FinalizeType
<1> QED  BY <1>1 DEF StatusFrame, Exists

\* Every step within the life-cycle frame.
LEMMA LifeStep ==
  ASSUME IInv, [Next]_vars
  PROVE  LifeFrame
<1> USE DEF LifeFrame, StatusFrame, ReadyFrame, LossFrame
<1>t. TypeOK /\ EverythingHasASession /\ EverythingIsBacked
  BY DEF IInv
<1>1. CASE CreateAny
  <2> PICK f \in Files :
           /\ session[f] = NoSession
           /\ node'[f].state = "uploading"
           /\ session'[f].status = "pending"
           /\ \A g \in Files \ {f} : node'[g] = node[g] /\ session'[g] = session[g]
           /\ "overwrite" \notin ClientOps => rows' = rows
    BY <1>1, <1>t, CreateCases
  <2> QED  BY DEF Exists
<1>2. ASSUME NEW p \in Putters, PutStep(p)
      PROVE  LifeFrame
  <2>0. node' = node /\ rows \subseteq rows'
    BY <1>2 DEF PutStep, AcquireSlot, Deliver, RetrySend, GiveUp, CommitChunk
  <2>1. ReadyFrame /\ LossFrame
    BY <2>0 DEF Exists
  <2>2. CASE CommitChunk(p)
    <3>1. put[p].file \in Files /\ session[put[p].file] \in Session
      BY <2>2, <1>t, PutType, SessionType DEF CommitChunk, EverythingHasASession, PutRequest
    <3> DEFINE f == put[p].file
               s == [session[f] EXCEPT !.received = @ + 1]
    <3>2. s.status = session[f].status /\ session[f] # NoSession
      BY <3>1, SentinelAssumption DEF Session
    <3>3. session' = session \/ session' = [session EXCEPT ![f] = s]
      BY <2>2 DEF CommitChunk, Bumped
    <3> HIDE DEF s, f
    <3>4. StatusFrame
      BY <3>2, <3>3, <1>t DEF TypeOK
    <3> QED  BY <2>1, <3>4
  <2>3. CASE AcquireSlot(p) \/ Deliver(p) \/ RetrySend(p) \/ GiveUp(p)
    <3>1. session' = session
      BY <2>3 DEF AcquireSlot, Deliver, RetrySend, GiveUp
    <3> QED  BY <2>1, <3>1
  <2> QED  BY <1>2, <2>2, <2>3 DEF PutStep
<1>3. ASSUME NEW c \in Finishers, CompleteStep(c)
      PROVE  LifeFrame
  <2>1. CASE FinishComplete(c)
    <3> DEFINE f == completing[c].file
    <3>1. f \in Files /\ Finalize(f, DigestOf(completing[c].seen))
      BY <2>1, <1>t, CompletingType DEF FinishComplete, CompleteRequest
    <3>2. DigestOf(completing[c].seen) \in Digest
      BY <2>1, <1>t, DigestType DEF FinishComplete
    <3>3. StatusFrame /\ Exists(f) /\ (\A g \in Files \ {f} : node'[g] = node[g])
      BY <3>1, <3>2, <1>t, FinalizeLife
    <3>4. completing[c] # Idle /\ rows' = rows
      BY <2>1 DEF FinishComplete
    <3> QED  BY <3>3, <3>4 DEF Exists
  <2>2. CASE RejectComplete(c)
    BY <2>2 DEF RejectComplete, Exists
  <2> QED  BY <1>3, <2>1, <2>2 DEF CompleteStep
<1>4. ASSUME NEW f \in Files, FileStep(f)
      PROVE  LifeFrame
  <2>1. CASE \/ \E p \in Putters, i \in AllIndices, b \in Bodies : BeginPut(p, f, i, b)
             \/ \E i \in AllIndices, b \in Bodies : ReplayPut(f, i, b)
             \/ \E c \in Finishers, declared \in Declared : BeginComplete(c, f, declared)
    <3>1. UNCHANGED <<node, session, rows>>
      BY <2>1 DEF BeginPut, ReplayPut, BeginComplete
    <3> QED  BY <3>1 DEF Exists
  <2>2. ASSUME NEW declared \in Declared, CompleteUnverified(f, declared)
        PROVE  LifeFrame
    <3>1. StatusFrame /\ Exists(f) /\ (\A g \in Files \ {f} : node'[g] = node[g])
      BY <2>2, <1>t, FinalizeLife, DigestAssumption DEF CompleteUnverified
    <3>2. Missing(f) = {} /\ rows' = rows
      BY <2>2 DEF CompleteUnverified, Assembled
    <3> QED  BY <3>1, <3>2 DEF Exists
  <2>3. ASSUME NEW size \in Sizes, OverwriteRefused(f, size)
        PROVE  LifeFrame
    BY <2>3 DEF OverwriteRefused, Exists
  <2>4. CASE Abort(f)
    <3>1. session[f] \in Session
      BY <2>4, <1>t, SessionType DEF Abort, Pending
    <3> DEFINE s == [session[f] EXCEPT !.status = "aborted"]
    <3>2. s.status = "aborted"
      BY <3>1 DEF Session
    <3>3. session' = [session EXCEPT ![f] = s] /\ Pending(f)
      BY <2>4 DEF Abort
    <3> HIDE DEF s
    <3>4. /\ node'[f] = NoNode
          /\ \A g \in Files \ {f} : node'[g] = node[g]
          /\ \A r \in rows : r \in rows' \/ r.file = f
      BY <2>4, <1>t DEF Abort, DeleteNode, RowsOf, TypeOK, Exists
    <3>5. StatusFrame
      BY <3>2, <3>3, <3>4, <1>t DEF TypeOK
    <3> QED  BY <3>4, <3>5 DEF Exists
  <2>5. CASE Trash(f) \/ Restore(f)
    <3>1. node[f] \in Node
      BY <2>5, <1>t, NodeType DEF Trash, Restore
    <3>2. node'[f].state = node[f].state /\ Exists(f)
      BY <2>5, <3>1, <1>t DEF Trash, Restore, TypeOK, Node
    <3>3. \A g \in Files \ {f} : node'[g] = node[g]
      BY <2>5, <1>t DEF Trash, Restore, TypeOK
    <3>4. session' = session /\ rows' = rows
      BY <2>5 DEF Trash, Restore
    <3> QED  BY <3>2, <3>3, <3>4 DEF Exists
  <2>6. CASE Purge(f)
    <3>1. /\ node'[f] = NoNode
          /\ \A g \in Files \ {f} : node'[g] = node[g]
          /\ \A r \in rows : r \in rows' \/ r.file = f
      BY <2>6, <1>t DEF Purge, DeleteNode, RowsOf, TypeOK
    <3> QED  BY <2>6, <3>1 DEF Purge, Exists
  <2> QED  BY <1>4, <2>1, <2>2, <2>3, <2>4, <2>5, <2>6 DEF FileStep
<1>5. CASE UNCHANGED vars
  BY <1>5 DEF vars, Exists
<1> QED  BY <1>1, <1>2, <1>3, <1>4, <1>5 DEF Next

\* An upload that was aborted has no node, and gets none from a PUT or a
\* complete that was waiting for Telegram at the time.
LEMMA AbortedStays ==
  ASSUME IInv, AbortedUploadsHaveNoNode, [Next]_vars
  PROVE  AbortedUploadsHaveNoNode'
<1>1. NodeFrame /\ StatusFrame
  BY NextFrame, LifeStep DEF IInv, Frame, LifeFrame
<1>2. ASSUME NEW f \in Files, session'[f] # NoSession, session'[f].status = "aborted"
      PROVE  node'[f] = NoNode
  <2>1. CASE session[f] # NoSession /\ session'[f].status = session[f].status
    <3>1. node[f] = NoNode
      BY <1>2, <2>1 DEF AbortedUploadsHaveNoNode, Exists
    <3> QED  BY <1>1, <2>1, <3>1 DEF NodeFrame
  <2>2. CASE Pending(f) /\ session'[f].status = "aborted" /\ node'[f] = NoNode
    BY <2>2
  <2> QED  BY <1>1, <1>2, <2>1, <2>2 DEF StatusFrame
<1> QED  BY <1>2 DEF AbortedUploadsHaveNoNode, Exists

\* An upload that was aborted has no node, whatever was in flight: complete()
\* cannot finalise a node that is gone, and nothing makes one.
THEOREM AbortIsClean == Spec => []AbortedUploadsHaveNoNode
<1>1. Init => AbortedUploadsHaveNoNode
  BY DEF Init, AbortedUploadsHaveNoNode
<1>2. IInv /\ AbortedUploadsHaveNoNode /\ [Next]_vars => AbortedUploadsHaveNoNode'
  BY AbortedStays
<1> QED  BY <1>1, <1>2, Invariance, PTL DEF Spec

\* completed and aborted are final: of an abort and the complete it overlaps,
\* whichever is first decides.
THEOREM StatusIsFinal == Spec => TerminalStatusIsFinal
<1> DEFINE Final(f) ==
      session[f] # NoSession /\ session[f].status # "pending"
        => session'[f].status = session[f].status
<1>1. IInv /\ AbortedUploadsHaveNoNode /\ [Next]_vars => \A f \in Files : Final(f)
  <2> SUFFICES ASSUME IInv, AbortedUploadsHaveNoNode, [Next]_vars, NEW f \in Files,
                      session[f] # NoSession, session[f].status # "pending"
               PROVE  session'[f].status = session[f].status
    OBVIOUS
  <2>1. SessionFrame /\ StatusFrame
    BY NextFrame, LifeStep DEF IInv, Frame, LifeFrame
  <2>2. session[f].status \in {"completed", "aborted"}
    BY SessionType DEF IInv, Session
  <2>3. CASE session[f].status = "aborted"
    <3>1. ~Exists(f)  BY <2>3 DEF AbortedUploadsHaveNoNode
    <3> QED  BY <2>1, <3>1 DEF SessionFrame, StatusFrame, Pending
  <2>4. CASE session[f].status = "completed"
    BY <2>1, <2>4 DEF SessionFrame, StatusFrame, Pending
  <2> QED  BY <2>2, <2>3, <2>4
<1>2. IInv /\ AbortedUploadsHaveNoNode /\ [Next]_vars => [\A f \in Files : Final(f)]_session
  BY <1>1
<1> QED  BY <1>2, Invariance, AbortIsClean, PTL DEF Spec, TerminalStatusIsFinal

-------------------------------------------------------------------------------
\* What holds as long as no client overwrites.

NoOverwrite == "overwrite" \notin ClientOps

\* Rows leave only with their node.
THEOREM RowsAreKept == ASSUME NoOverwrite PROVE Spec => RowsOutliveRequests
<1>1. IInv /\ [Next]_vars => \A r \in rows : r \in rows' \/ node'[r.file] = NoNode
  BY LifeStep, NoOverwrite DEF NoOverwrite, LifeFrame, LossFrame
<1>2. IInv /\ [Next]_vars =>
        [\A r \in rows : r \in rows' \/ node'[r.file] = NoNode]_<<rows, node>>
  BY <1>1
<1> QED  BY <1>2, Invariance, PTL DEF Spec, RowsOutliveRequests

\* The three facts about complete files that hold each other up.
KInv ==
  /\ ReadyFilesAreComplete
  /\ DigestedFilesAreComplete
  /\ ReceiptsAreDurable

\* A file that had every row still has, as long as it has a node.
LEMMA CompleteStays ==
  ASSUME NoOverwrite, IInv, [Next]_vars, TypeOK', NEW f \in Files,
         session[f] # NoSession, node'[f] # NoNode, Missing(f) = {}
  PROVE  Missing(f)' = {}
<1>1. Plan(f)' = Plan(f)
  BY NextFrame DEF IInv, Frame, SessionFrame, Plan
<1>2. ASSUME NEW i \in Plan(f)
      PROVE  i \in Stored(f)'
  <2>1. PICK r \in rows : r.file = f /\ r.index = i
    BY DEF Missing, Stored, RowsOf
  <2>2. r \in rows'
    BY <2>1, LifeStep DEF NoOverwrite, LifeFrame, LossFrame
  <2> QED  BY <2>1, <2>2 DEF Stored, RowsOf
<1> QED  BY <1>1, <1>2 DEF Missing

\* Without overwriting, completeness is kept: rows leave only with their node.
LEMMA KInvStep ==
  ASSUME NoOverwrite, IInv, KInv, [Next]_vars
  PROVE  KInv'
<1>f. Frame /\ LifeFrame /\ TypeOK'
  BY NextFrame, NextType, LifeStep DEF IInv
<1>n. ASSUME NEW f \in Files, node'[f] # NoNode, session[f] # NoSession
      PROVE  Exists(f)
  BY <1>n, <1>f DEF Frame, NodeFrame, Exists
<1>c. ASSUME NEW c \in Finishers, completing[c] # Idle
      PROVE  /\ completing[c].file \in Files
             /\ session[completing[c].file] # NoSession
             /\ Exists(completing[c].file) => Missing(completing[c].file) = {}
  BY <1>c, CompletingType
     DEF IInv, KInv, DigestedFilesAreComplete, CompleteRequest, EverythingHasASession
<1>1. ASSUME NEW f \in Files, node'[f] # NoNode, node'[f].state = "ready"
      PROVE  Missing(f)' = {}
  <2>1. Exists(f) /\ session[f] # NoSession
    BY <1>1, <1>f DEF LifeFrame, ReadyFrame, IInv, EverythingHasASession
  <2>2. Missing(f) = {}
    BY <1>1, <1>f, <1>c, <2>1 DEF LifeFrame, ReadyFrame, KInv, ReadyFilesAreComplete
  <2> QED  BY <1>1, <1>f, <2>1, <2>2, CompleteStays
<1>2. ASSUME NEW c \in Finishers, completing'[c] # Idle,
             NEW f \in Files, f = completing'[c].file, node'[f] # NoNode
      PROVE  Missing(f)' = {}
  <2>1. session[f] # NoSession /\ Missing(f) = {}
    <3>1. CASE completing'[c] = completing[c]
      BY <1>2, <1>c, <1>n, <3>1
    <3>2. CASE completing'[c] # completing[c]
      BY <1>2, <1>f, <3>2 DEF Frame, CompletingFrame, Pending
    <3> QED  BY <3>1, <3>2
  <2> QED  BY <1>2, <1>f, <2>1, CompleteStays
<1>3. ASSUME NEW a \in acked', node'[a.file] # NoNode
      PROVE  \E r \in rows' : r.file = a.file /\ r.index = a.index
  <2>1. a.file \in Files
    BY <1>f DEF TypeOK, Message
  <2>2. CASE a \in acked
    <3>1. session[a.file] # NoSession
      BY <2>2 DEF IInv, EverythingHasASession
    <3>2. Exists(a.file)
      BY <1>3, <1>n, <2>1, <3>1
    <3>3. PICK r \in rows : r.file = a.file /\ r.index = a.index
      BY <2>2, <3>2 DEF KInv, ReceiptsAreDurable, RowAt
    <3>4. r \in rows'
      BY <1>3, <1>f, <3>3 DEF NoOverwrite, LifeFrame, LossFrame
    <3> QED  BY <3>3, <3>4
  <2>3. CASE a \notin acked
    BY <1>f, <2>3 DEF Frame, AckedFrame
  <2> QED  BY <2>2, <2>3
<1>4. ReadyFilesAreComplete'
  BY <1>1 DEF ReadyFilesAreComplete, Exists
<1>5. ASSUME NEW c \in Finishers, completing'[c] # Idle, Exists(completing[c].file)'
      PROVE  Missing(completing[c].file)' = {}
  <2>1. completing'[c].file \in Files
    BY <1>5, <1>f DEF TypeOK, CompleteRequest
  <2> QED  BY <1>2, <1>5, <2>1 DEF Exists, Missing, Plan, Stored, RowsOf
<1>6. ReceiptsAreDurable'
  BY <1>3 DEF ReceiptsAreDurable, RowAt, Exists
<1> QED  BY <1>4, <1>5, <1>6 DEF KInv, DigestedFilesAreComplete

\* Completeness holds in every reachable state.
LEMMA KInvariance == ASSUME NoOverwrite PROVE Spec => []KInv
<1>1. Init => KInv
  BY DEF Init, KInv, ReadyFilesAreComplete, DigestedFilesAreComplete,
         ReceiptsAreDurable, Exists
<1>2. IInv /\ KInv /\ [Next]_vars => KInv'
  BY KInvStep
<1> QED  BY <1>1, <1>2, Invariance, PTL DEF Spec

\* A file that is listed as ready has every one of its chunks.
THEOREM ReadyIsComplete == ASSUME NoOverwrite PROVE Spec => []ReadyFilesAreComplete
<1>1. KInv => ReadyFilesAreComplete  BY DEF KInv
<1> QED  BY <1>1, KInvariance, PTL

\* A chunk with a receipt is there as long as its node is.
THEOREM ReceiptsHold == ASSUME NoOverwrite PROVE Spec => []ReceiptsAreDurable
<1>1. KInv => ReceiptsAreDurable  BY DEF KInv
<1> QED  BY <1>1, KInvariance, PTL

\* complete() may go on after its reads with what it checked before them.
THEOREM DigestsAreOfCompleteFiles ==
  ASSUME NoOverwrite PROVE Spec => []DigestedFilesAreComplete
<1>1. KInv => DigestedFilesAreComplete  BY DEF KInv
<1> QED  BY <1>1, KInvariance, PTL

-------------------------------------------------------------------------------
\* Upload implements ResumableFile.

\* What a client of the drive sees of a file stays as it is.
Kept(f) ==
  /\ phaseOf(f)' = phaseOf(f)
  /\ cellsOf(f)' = cellsOf(f)
  /\ contentOf(f)' = contentOf(f)

LEMMA KeptWhen ==
  ASSUME NEW f \in Files,
         session'[f] = NoSession <=> session[f] = NoSession,
         session[f] # NoSession => session'[f].size = session[f].size,
         node'[f] = NoNode <=> node[f] = NoNode,
         node[f] # NoNode => node'[f].state = node[f].state,
         node[f] # NoNode => \A i \in AllIndices : RowAt(f, i)' = RowAt(f, i)
  PROVE  Kept(f)
<1>1. phaseOf(f)' = phaseOf(f)
  BY DEF phaseOf, Exists
<1>2. cellsOf(f)' = cellsOf(f)
  BY DEF cellsOf, Plan
<1>3. contentOf(f)' = contentOf(f)
  <2>1. CASE node[f] = NoNode
    BY <2>1 DEF contentOf, Exists
  <2>2. CASE node[f] # NoNode
    <3>1. \A i \in AllIndices :
            (IF Exists(f) /\ RowAt(f, i) # {}
               THEN (CHOOSE r \in RowAt(f, i) : TRUE).body ELSE Empty)'
            = IF Exists(f) /\ RowAt(f, i) # {}
               THEN (CHOOSE r \in RowAt(f, i) : TRUE).body ELSE Empty
      <4> TAKE i \in AllIndices
      <4>1. RowAt(f, i)' = RowAt(f, i) /\ (Exists(f)' <=> Exists(f))
        BY <2>2 DEF Exists
      <4> QED  BY <4>1
    <3> QED  BY <3>1 DEF contentOf
  <2> QED  BY <2>1, <2>2
<1> QED  BY <1>1, <1>2, <1>3 DEF Kept

-------------------------------------------------------------------------------
\* The steps of ResumableFile, in terms of the mapping.

LEMMA StutterIs ==
  ASSUME \A f \in Files : Kept(f)
  PROVE  UNCHANGED File!absVars
BY DEF Kept, File!absVars

LEMMA OpenIs ==
  ASSUME NEW f \in Files, phaseOf(f) = "new", phaseOf(f)' = "open",
         cellsOf(f)' \subseteq AllIndices, cellsOf(f)' # {},
         contentOf(f)' = contentOf(f), \A g \in Files \ {f} : Kept(g)
  PROVE  File!Next
<1>1. File!Open(f)
  BY DEF File!Open, Kept
<1> QED  BY <1>1 DEF File!Next

LEMMA WriteIs ==
  ASSUME NEW f \in Files, NEW i \in AllIndices, NEW b \in Bodies,
         phaseOf(f) = "open", i \in cellsOf(f), contentOf(f)[i] = Empty,
         contentOf(f)' = [contentOf(f) EXCEPT ![i] = b],
         phaseOf(f)' = phaseOf(f), cellsOf(f)' = cellsOf(f),
         \A g \in Files \ {f} : Kept(g)
  PROVE  File!Next
<1>1. File!Write(f, i, b)
  BY DEF File!Write, Kept
<1> QED  BY <1>1 DEF File!Next

LEMMA PublishIs ==
  ASSUME NEW f \in Files, phaseOf(f) = "open", phaseOf(f)' = "published",
         \A i \in cellsOf(f) : contentOf(f)[i] # Empty,
         cellsOf(f)' = cellsOf(f), contentOf(f)' = contentOf(f),
         \A g \in Files \ {f} : Kept(g)
  PROVE  File!Next
<1>1. File!Publish(f)
  BY DEF File!Publish, Kept
<1> QED  BY <1>1 DEF File!Next

LEMMA RemoveIs ==
  ASSUME NEW f \in Files, phaseOf(f) \in {"open", "published"}, phaseOf(f)' = "removed",
         contentOf(f)' = [i \in AllIndices |-> Empty], cellsOf(f)' = cellsOf(f),
         \A g \in Files \ {f} : Kept(g)
  PROVE  File!Next
<1>1. File!Remove(f)
  BY DEF File!Remove, Kept
<1> QED  BY <1>1 DEF File!Next

\* A plan has an index: a file of no bytes has one chunk, too.
LEMMA PlansAreNotEmpty ==
  ASSUME NEW size \in Sizes
  PROVE  Indices(size, ChunkSize) # {}
<1>1. size \in Nat /\ ChunkSize \in Nat /\ ChunkSize >= 1
  BY SizesAssumption
<1>2. TotalChunks(size, ChunkSize) \in Int /\ TotalChunks(size, ChunkSize) >= 1
  <2>1. CASE size = 0
    BY <2>1 DEF TotalChunks
  <2>2. CASE size # 0
    <3> DEFINE a == size + ChunkSize - 1
    <3>1. a \in Nat /\ a >= ChunkSize
      BY <1>1, <2>2
    <3> HIDE DEF a
    <3>2. a \div ChunkSize \in Int /\ a \div ChunkSize >= 1
      BY <1>1, <3>1
    <3> QED  BY <2>2, <3>2 DEF TotalChunks, a
  <2> QED  BY <2>1, <2>2
<1>3. 0 \in Indices(size, ChunkSize)
  BY <1>2 DEF Indices
<1> QED  BY <1>3

-------------------------------------------------------------------------------
\* The steps of Upload.

\* A file whose tables a step leaves alone.
LEMMA KeptAlone ==
  ASSUME NEW g \in Files, node'[g] = node[g], session'[g] = session[g],
         \A i \in AllIndices : RowAt(g, i)' = RowAt(g, i)
  PROVE  Kept(g)
BY KeptWhen

\* Steps that change neither what exists nor its state nor the rows.
LEMMA UnseenStep ==
  ASSUME rows' = rows,
         \A f \in Files :
           /\ session'[f] = NoSession <=> session[f] = NoSession
           /\ session[f] # NoSession => session'[f].size = session[f].size
           /\ node'[f] = NoNode <=> node[f] = NoNode
           /\ node[f] # NoNode => node'[f].state = node[f].state
  PROVE  UNCHANGED File!absVars
<1>1. \A f \in Files : Kept(f)
  <2> TAKE f \in Files
  <2>1. \A i \in AllIndices : RowAt(f, i)' = RowAt(f, i)
    BY DEF RowAt
  <2> QED  BY <2>1, KeptWhen
<1> QED  BY <1>1, StutterIs

LEMMA CreateIsOpen ==
  ASSUME NoOverwrite, IInv, CreateAny
  PROVE  File!Next
<1>1. PICK f \in Files :
        /\ session[f] = NoSession
        /\ session' \in [Files -> Session \union {NoSession}]
        /\ node'[f] # NoNode /\ node'[f].state = "uploading"
        /\ session'[f] # NoSession
        /\ \A g \in Files \ {f} : node'[g] = node[g] /\ session'[g] = session[g]
        /\ rows' = rows
  BY CreateCases DEF IInv, NoOverwrite
<1>2. \A g \in Files, i \in AllIndices : RowAt(g, i)' = RowAt(g, i)
  BY <1>1 DEF RowAt
<1>3. node[f] = NoNode /\ \A i \in AllIndices : RowAt(f, i) = {}
  BY <1>1 DEF IInv, EverythingHasASession, Exists, RowAt
<1>4. phaseOf(f) = "new"
  BY <1>1, <1>3 DEF phaseOf, Exists
<1>5. phaseOf(f)' = "open"
  BY <1>1 DEF phaseOf, Exists
<1>6. cellsOf(f)' \subseteq AllIndices /\ cellsOf(f)' # {}
  <2>1. session'[f] \in Session
    BY <1>1
  <2>2. session'[f].size \in Sizes
    BY <2>1 DEF Session
  <2>3. cellsOf(f)' = Indices(session'[f].size, ChunkSize)
    BY <1>1 DEF cellsOf, Plan
  <2> QED  BY <2>2, <2>3, PlansAreNotEmpty DEF AllIndices
<1>7. contentOf(f)' = contentOf(f)
  <2>1. \A i \in AllIndices : RowAt(f, i) = {} /\ RowAt(f, i)' = {}
    BY <1>2, <1>3
  <2> QED  BY <2>1 DEF contentOf
<1>8. \A g \in Files \ {f} : Kept(g)
  BY <1>1, <1>2, KeptAlone
<1> QED  BY <1>4, <1>5, <1>6, <1>7, <1>8, OpenIs

\* What is read of a stored index.
LEMMA ContentIs ==
  ASSUME IInv, NEW f \in Files, NEW i \in AllIndices, node[f] # NoNode, RowAt(f, i) # {}
  PROVE  contentOf(f)[i] \in Bodies /\ contentOf(f)[i] # Empty
<1> DEFINE r == CHOOSE x \in RowAt(f, i) : TRUE
<1>1. r \in RowAt(f, i)
  OBVIOUS
<1>2. r \in Row
  BY <1>1 DEF RowAt, IInv, TypeOK
<1>3. contentOf(f)[i] = r.body
  BY DEF contentOf, Exists
<1> HIDE DEF r
<1> QED  BY <1>2, <1>3, EmptyAssumption DEF Row

LEMMA CommitIsWrite ==
  ASSUME NoOverwrite, IInv, KInv, NEW p \in Putters, CommitChunk(p)
  PROVE  File!Next \/ UNCHANGED File!absVars
<1>0. put[p] \in PutRequest
  BY PutType DEF IInv, CommitChunk
<1>3. PICK f \in Files, i \in AllIndices, b \in Bodies :
        f = put[p].file /\ i = put[p].index /\ b = put[p].body
  BY <1>0 DEF PutRequest
<1>1. /\ put[p] # Idle /\ put[p].stage = "stored" /\ node' = node
      /\ \/ rows' = rows /\ session' = session
         \/ RowAt(f, i) = {} /\ rows' = rows \union {RowOf(p)} /\ session' = Bumped(f)
  BY <1>3 DEF CommitChunk, RowOf
<1>4. session[f] \in Session /\ session[f] # NoSession /\ i \in Plan(f)
  BY <1>1, <1>3, SessionType DEF IInv, EverythingHasASession, EverythingIsBacked
<1>5. CASE rows' = rows /\ session' = session
  BY <1>1, <1>5, UnseenStep
<1>6. CASE RowAt(f, i) = {} /\ rows' = rows \union {RowOf(p)} /\ session' = Bumped(f)
  <2> DEFINE s == [session[f] EXCEPT !.received = @ + 1]
  <2>1. s \in Session /\ s.size = session[f].size
    BY <1>4 DEF Session
  <2>2. session' = [session EXCEPT ![f] = s]
    BY <1>6 DEF Bumped
  <2> HIDE DEF s
  <2>3. /\ session'[f] # NoSession /\ session'[f].size = session[f].size
        /\ \A g \in Files : g # f => session'[g] = session[g]
    BY <1>3, <2>1, <2>2, SentinelAssumption DEF IInv, TypeOK
  <2>4. PICK q : q = RowOf(p)
    OBVIOUS
  <2>q. q.file = f /\ q.index = i /\ q.body = b /\ rows' = rows \union {q}
    BY <1>3, <1>6, <2>4 DEF RowOf
  <2>5. /\ RowAt(f, i)' = {q}
        /\ \A j \in AllIndices : j # i => RowAt(f, j)' = RowAt(f, j)
        /\ \A g \in Files, j \in AllIndices : g # f => RowAt(g, j)' = RowAt(g, j)
    BY <1>6, <2>q DEF RowAt
  <2>6. \A g \in Files \ {f} : Kept(g)
    BY <1>1, <2>3, <2>5, KeptAlone
  <2>7. CASE node[f] = NoNode
    <3>1. Kept(f)
      BY <1>1, <1>3, <1>4, <2>3, <2>7, KeptWhen
    <3> QED  BY <2>6, <3>1, StutterIs
  <2>8. CASE node[f] # NoNode
    <3>1. node[f].state = "uploading"
      <4>1. node[f].state \in {"uploading", "ready"}
        BY <1>3, <2>8, NodeType DEF IInv, Exists, Node
      <4>2. node[f].state # "ready"
        <5> SUFFICES ASSUME node[f].state = "ready" PROVE FALSE
          OBVIOUS
        <5>1. Missing(f) = {}
          BY <1>3, <2>8 DEF KInv, ReadyFilesAreComplete, Exists
        <5> QED  BY <1>4, <1>6, <5>1 DEF Missing, Stored, RowsOf, RowAt
      <4> QED  BY <4>1, <4>2
    <3>2. phaseOf(f) = "open" /\ phaseOf(f)' = phaseOf(f)
      BY <1>1, <1>4, <2>3, <2>8, <3>1 DEF phaseOf, Exists
    <3>3. i \in cellsOf(f) /\ cellsOf(f)' = cellsOf(f)
      BY <1>4, <2>3 DEF cellsOf, Plan
    <3>4. contentOf(f)[i] = Empty
      BY <1>3, <1>6 DEF contentOf
    <3>5. contentOf(f)' = [contentOf(f) EXCEPT ![i] = b]
      <4> DEFINE now(j) == IF Exists(f) /\ RowAt(f, j) # {}
                             THEN (CHOOSE r \in RowAt(f, j) : TRUE).body ELSE Empty
      <4>1. now(i)' = b
        <5>1. (CHOOSE r \in RowAt(f, i) : TRUE)' = q
          BY <2>5
        <5> QED  BY <1>1, <2>q, <2>5, <2>8, <5>1 DEF Exists
      <4>2. \A j \in AllIndices : j # i => now(j)' = now(j)
        <5> TAKE j \in AllIndices
        <5> SUFFICES ASSUME j # i PROVE now(j)' = now(j)
          OBVIOUS
        <5>1. RowAt(f, j)' = RowAt(f, j) /\ (Exists(f)' <=> Exists(f))
          BY <1>1, <2>5 DEF Exists
        <5> QED  BY <5>1
      <4>3. contentOf(f) = [j \in AllIndices |-> now(j)]
        BY DEF contentOf
      <4>4. contentOf(f)' = [j \in AllIndices |-> now(j)']
        BY DEF contentOf
      <4> HIDE DEF now
      <4> QED  BY <1>3, <4>1, <4>2, <4>3, <4>4
    <3> QED  BY <1>3, <2>6, <3>2, <3>3, <3>4, <3>5, WriteIs
  <2> QED  BY <2>7, <2>8
<1> QED  BY <1>1, <1>5, <1>6

LEMMA FinalizeIsPublish ==
  ASSUME IInv, NEW f \in Files, NEW sha \in Digest \union {NoDigest}, Finalize(f, sha),
         Missing(f) = {}, rows' = rows
  PROVE  File!Next \/ UNCHANGED File!absVars
<1>1. /\ node[f] # NoNode /\ node'[f] # NoNode /\ node'[f].state = "ready"
      /\ session[f] # NoSession /\ session'[f] # NoSession
      /\ session'[f].size = session[f].size
      /\ \A g \in Files \ {f} : node'[g] = node[g] /\ session'[g] = session[g]
  BY FinalizeType DEF IInv
<1>2. \A g \in Files, i \in AllIndices : RowAt(g, i)' = RowAt(g, i)
  BY DEF RowAt
<1>3. \A g \in Files \ {f} : Kept(g)
  BY <1>1, <1>2, KeptAlone
<1>4. node[f].state \in {"uploading", "ready"}
  BY <1>1, NodeType DEF IInv, Exists, Node
<1>5. CASE node[f].state = "ready"
  <2>1. Kept(f)
    BY <1>1, <1>2, <1>5, KeptWhen
  <2> QED  BY <1>3, <2>1, StutterIs
<1>6. CASE node[f].state = "uploading"
  <2>1. phaseOf(f) = "open" /\ phaseOf(f)' = "published"
    BY <1>1, <1>6 DEF phaseOf, Exists
  <2>2. cellsOf(f)' = cellsOf(f)
    BY <1>1 DEF cellsOf, Plan
  <2>3. contentOf(f)' = contentOf(f)
    <3>1. \A i \in AllIndices :
            (IF Exists(f) /\ RowAt(f, i) # {}
               THEN (CHOOSE r \in RowAt(f, i) : TRUE).body ELSE Empty)'
            = IF Exists(f) /\ RowAt(f, i) # {}
               THEN (CHOOSE r \in RowAt(f, i) : TRUE).body ELSE Empty
      <4> TAKE i \in AllIndices
      <4>1. RowAt(f, i)' = RowAt(f, i) /\ (Exists(f)' <=> Exists(f))
        BY <1>1, <1>2 DEF Exists
      <4> QED  BY <4>1
    <3> QED  BY <3>1 DEF contentOf
  <2>4. ASSUME NEW i \in cellsOf(f)
        PROVE  contentOf(f)[i] # Empty
    <3>1. i \in Plan(f) /\ i \in AllIndices
      BY <1>1, PlanType DEF IInv, cellsOf
    <3>2. RowAt(f, i) # {}
      BY <3>1 DEF Missing, Stored, RowsOf, RowAt
    <3> QED  BY <1>1, <3>1, <3>2, ContentIs
  <2> QED  BY <1>3, <2>1, <2>2, <2>3, <2>4, PublishIs
<1> QED  BY <1>4, <1>5, <1>6

LEMMA DeleteIsRemove ==
  ASSUME IInv, NEW f \in Files, Exists(f), DeleteNode(f),
         \A g \in Files : session'[g] = NoSession <=> session[g] = NoSession,
         \A g \in Files : session[g] # NoSession => session'[g].size = session[g].size
  PROVE  File!Next
<1>1. /\ node'[f] = NoNode /\ node[f] # NoNode /\ session[f] # NoSession
      /\ \A g \in Files \ {f} : node'[g] = node[g]
      /\ rows' = {r \in rows : r.file # f}
  BY DEF DeleteNode, RowsOf, IInv, TypeOK, Exists, EverythingHasASession
<1>2. \A g \in Files \ {f}, i \in AllIndices : RowAt(g, i)' = RowAt(g, i)
  BY <1>1 DEF RowAt
<1>3. \A g \in Files \ {f} : Kept(g)
  BY <1>1, <1>2, KeptWhen
<1>4. phaseOf(f) \in {"open", "published"}
  <2>1. node[f].state \in {"uploading", "ready"}
    BY <1>1, NodeType DEF IInv, Exists, Node
  <2> QED  BY <1>1, <2>1 DEF phaseOf, Exists
<1>5. phaseOf(f)' = "removed"
  BY <1>1 DEF phaseOf, Exists
<1>6. contentOf(f)' = [i \in AllIndices |-> Empty]
  BY <1>1 DEF contentOf, Exists
<1>7. cellsOf(f)' = cellsOf(f)
  BY <1>1 DEF cellsOf, Plan
<1> QED  BY <1>3, <1>4, <1>5, <1>6, <1>7, RemoveIs

LEMMA FileStepIs ==
  ASSUME NoOverwrite, IInv, KInv, NEW f \in Files, FileStep(f)
  PROVE  File!Next \/ UNCHANGED File!absVars
<1>t. TypeOK /\ EverythingHasASession
  BY DEF IInv
<1>1. CASE \/ \E p \in Putters, i \in AllIndices, b \in Bodies : BeginPut(p, f, i, b)
           \/ \E i \in AllIndices, b \in Bodies : ReplayPut(f, i, b)
           \/ \E c \in Finishers, declared \in Declared : BeginComplete(c, f, declared)
  <2>1. UNCHANGED <<node, session, rows>>
    BY <1>1 DEF BeginPut, ReplayPut, BeginComplete
  <2> QED  BY <2>1, UnseenStep
<1>2. ASSUME NEW declared \in Declared, CompleteUnverified(f, declared)
      PROVE  File!Next \/ UNCHANGED File!absVars
  BY <1>2, FinalizeIsPublish, DigestAssumption DEF CompleteUnverified, Assembled
<1>3. ASSUME NEW size \in Sizes, OverwriteRefused(f, size)
      PROVE  File!Next \/ UNCHANGED File!absVars
  BY <1>3 DEF OverwriteRefused, NoOverwrite
<1>4. CASE Abort(f)
  <2>1. session[f] \in Session
    BY <1>4, <1>t, SessionType DEF Abort, Pending
  <2> DEFINE s == [session[f] EXCEPT !.status = "aborted"]
  <2>2. s \in Session /\ s.size = session[f].size
    BY <2>1 DEF Session
  <2>3. session' = [session EXCEPT ![f] = s]
    BY <1>4 DEF Abort
  <2> HIDE DEF s
  <2>4. \A g \in Files : /\ session'[g] = NoSession <=> session[g] = NoSession
                         /\ session[g] # NoSession => session'[g].size = session[g].size
    BY <1>t, <2>1, <2>2, <2>3, SentinelAssumption DEF TypeOK
  <2>5. CASE Exists(f)
    BY <1>4, <2>4, <2>5, DeleteIsRemove DEF Abort
  <2>6. CASE ~Exists(f)
    <3>1. node' = node /\ rows' = rows
      BY <1>4, <2>6 DEF Abort
    <3> QED  BY <2>4, <3>1, UnseenStep
  <2> QED  BY <2>5, <2>6
<1>5. CASE Trash(f) \/ Restore(f)
  <2>1. node[f] \in Node
    BY <1>5, <1>t, NodeType DEF Trash, Restore
  <2> DEFINE n(t) == [node[f] EXCEPT !.trashed = t]
  <2>2. \A t \in BOOLEAN : n(t) \in Node /\ n(t).state = node[f].state
    BY <2>1 DEF Node
  <2>3. \E t \in BOOLEAN : node' = [node EXCEPT ![f] = n(t)]
    BY <1>5 DEF Trash, Restore
  <2> HIDE DEF n
  <2>4. \A g \in Files : /\ node'[g] = NoNode <=> node[g] = NoNode
                         /\ node[g] # NoNode => node'[g].state = node[g].state
    BY <1>t, <2>1, <2>2, <2>3, SentinelAssumption DEF TypeOK
  <2>5. session' = session /\ rows' = rows
    BY <1>5 DEF Trash, Restore
  <2> QED  BY <2>4, <2>5, UnseenStep
<1>6. CASE Purge(f)
  <2>1. session' = session
    BY <1>6 DEF Purge
  <2> QED  BY <1>6, <2>1, DeleteIsRemove DEF Purge
<1> QED  BY <1>1, <1>2, <1>3, <1>4, <1>5, <1>6 DEF FileStep

LEMMA StepIs ==
  ASSUME NoOverwrite, IInv, KInv, [Next]_vars
  PROVE  File!Next \/ UNCHANGED File!absVars
<1>1. CASE CreateAny
  BY <1>1, CreateIsOpen
<1>2. ASSUME NEW p \in Putters, PutStep(p)
      PROVE  File!Next \/ UNCHANGED File!absVars
  <2>1. CASE CommitChunk(p)
    BY <2>1, CommitIsWrite
  <2>2. CASE AcquireSlot(p) \/ Deliver(p) \/ RetrySend(p) \/ GiveUp(p)
    <3>1. UNCHANGED <<node, session, rows>>
      BY <2>2 DEF AcquireSlot, Deliver, RetrySend, GiveUp
    <3> QED  BY <3>1, UnseenStep
  <2> QED  BY <1>2, <2>1, <2>2 DEF PutStep
<1>3. ASSUME NEW c \in Finishers, CompleteStep(c)
      PROVE  File!Next \/ UNCHANGED File!absVars
  <2>1. CASE FinishComplete(c)
    <3>1. completing[c] # Idle /\ rows' = rows
      BY <2>1 DEF FinishComplete
    <3>2. PICK f \in Files : f = completing[c].file
      BY <3>1, CompletingType DEF IInv, CompleteRequest
    <3>3. PICK sha \in Digest : sha = DigestOf(completing[c].seen)
      BY <3>1, DigestType DEF IInv
    <3>4. Finalize(f, sha)
      BY <2>1, <3>2, <3>3 DEF FinishComplete
    <3>5. Missing(f) = {}
      BY <3>1, <3>2, <3>4 DEF KInv, DigestedFilesAreComplete, Finalize
    <3> QED  BY <3>1, <3>4, <3>5, FinalizeIsPublish
  <2>2. CASE RejectComplete(c)
    <3>1. UNCHANGED <<node, session, rows>>
      BY <2>2 DEF RejectComplete
    <3> QED  BY <3>1, UnseenStep
  <2> QED  BY <1>3, <2>1, <2>2 DEF CompleteStep
<1>4. CASE UNCHANGED vars
  <2>1. UNCHANGED <<node, session, rows>>
    BY <1>4 DEF vars
  <2> QED  BY <2>1, UnseenStep
<1> QED  BY <1>1, <1>2, <1>3, <1>4, FileStepIs DEF Next

LEMMA InitIs == Init => File!Init
<1> SUFFICES ASSUME Init PROVE File!Init
  OBVIOUS
<1>1. \A f \in Files : session[f] = NoSession /\ node[f] = NoNode
  BY DEF Init
<1>2. \A f \in Files :
        /\ phaseOf(f) = "new" /\ cellsOf(f) = {}
        /\ contentOf(f) = [i \in AllIndices |-> Empty]
  BY <1>1 DEF phaseOf, cellsOf, contentOf, Exists
<1> QED  BY <1>2 DEF File!Init

\* To its clients the pipeline, with its sessions, slots, retries and overlapping
\* requests, is a set of write-once cells that are published together and removed
\* together, as long as no client overwrites.
THEOREM UploadImplementsResumableFile ==
  ASSUME NoOverwrite PROVE Spec => ImplementsResumableFile
<1>1. IInv /\ KInv /\ [Next]_vars => [File!Next]_(File!absVars)
  BY StepIs
<1> QED
  BY InitIs, <1>1, Invariance, KInvariance, PTL DEF Spec, ImplementsResumableFile, File!Spec

-------------------------------------------------------------------------------
\* The digest of a ready file.

\* What a complete listed before its reads is still what the index holds.
SeenIsCurrent ==
  \A c \in Finishers, f \in Files :
    (completing[c] # Idle /\ completing[c].file = f /\ Exists(f)) =>
      completing[c].seen = RowsOf(f)

RowsDigest(f) == [i \in Plan(f) |-> (CHOOSE r \in RowAt(f, i) : TRUE).body]

LEMMA DigestIsOfRows ==
  ASSUME IInv, SeenIsCurrent, NEW c \in Finishers, NEW f \in Files,
         completing[c] # Idle, completing[c].file = f, Exists(f)
  PROVE  DigestOf(completing[c].seen) = RowsDigest(f)
<1> DEFINE seen == completing[c].seen
           pick(i) == CHOOSE r \in seen : r.index = i
           row(i) == CHOOSE r \in RowAt(f, i) : TRUE
<1>1. seen = RowsOf(f) /\ {r.index : r \in seen} = Plan(f)
  BY DEF SeenIsCurrent, IInv, EverythingIsBacked
<1>2. ASSUME NEW i \in Plan(f)
      PROVE  messages[pick(i).msg].body = row(i).body
  <2>1. pick(i) \in seen /\ pick(i).index = i
    BY <1>1
  <2>2. pick(i) \in RowAt(f, i)
    BY <1>1, <2>1 DEF RowsOf, RowAt
  <2>3. row(i) \in RowAt(f, i)
    BY <2>2
  <2>4. pick(i) = row(i)
    BY <2>2, <2>3 DEF IInv, OneRowPerChunk, RowAt
  <2>5. \A r \in seen : Holds(r.msg, f, r.index, r.body)
    BY DEF IInv, EverythingIsBacked
  <2> HIDE DEF pick, row, seen
  <2>6. Holds(pick(i).msg, f, pick(i).index, pick(i).body)
    BY <2>1, <2>5
  <2>7. messages[pick(i).msg].body = pick(i).body
    BY <2>6 DEF Holds
  <2> QED  BY <2>4, <2>7
<1>3. DigestOf(seen) = [i \in Plan(f) |-> messages[pick(i).msg].body]
  BY <1>1 DEF DigestOf
<1>4. RowsDigest(f) = [i \in Plan(f) |-> row(i).body]
  BY DEF RowsDigest
<1> HIDE DEF pick, row, seen
<1>5. DigestOf(seen) = RowsDigest(f)
  BY <1>2, <1>3, <1>4
<1> QED  BY <1>5 DEF seen

\* A file that had every row has the same rows, as long as it has a node.
LEMMA RowsStay ==
  ASSUME NoOverwrite, IInv, [Next]_vars, NEW f \in Files,
         session[f] # NoSession, node'[f] # NoNode, Missing(f) = {}
  PROVE  /\ RowsOf(f)' = RowsOf(f) /\ Plan(f)' = Plan(f)
         /\ \A i \in Plan(f) : RowAt(f, i)' = RowAt(f, i)
<1>1. Frame /\ LifeFrame
  BY NextFrame, LifeStep DEF IInv
<1>2. Plan(f)' = Plan(f)
  BY <1>1 DEF Frame, SessionFrame, Plan
<1>3. \A r \in rows : r.file = f => r \in rows'
  BY <1>1 DEF NoOverwrite, LifeFrame, LossFrame
<1>4. \A r \in rows' : r.file = f => r \in rows
  <2> SUFFICES ASSUME NEW r \in rows', r.file = f, r \notin rows
               PROVE  FALSE
    OBVIOUS
  <2>1. PICK p \in Putters : /\ put[p] # Idle /\ RowAt(put[p].file, put[p].index) = {}
                             /\ r = RowOf(p)
    BY <1>1 DEF Frame, RowFrame
  <2>2. put[p].file = f /\ put[p].index \in Plan(f)
    BY <2>1 DEF RowOf, IInv, EverythingIsBacked
  <2> QED  BY <2>1, <2>2 DEF Missing, Stored, RowsOf, RowAt
<1> QED  BY <1>2, <1>3, <1>4 DEF RowsOf, RowAt

\* A recorded digest was there before, or it is what a complete has computed.
ShaFrame ==
  \A f \in Files :
    (node'[f] # NoNode /\ node'[f].state = "ready" /\ session'[f].mode = "server_managed") =>
      /\ Exists(f) /\ session[f] # NoSession
      /\ \/ /\ node[f].state = "ready" /\ session[f].mode = "server_managed"
            /\ node'[f].sha256 = node[f].sha256
         \/ \E c \in Finishers : /\ completing[c] # Idle /\ completing[c].file = f
                                 /\ node'[f].sha256 = DigestOf(completing[c].seen)

\* Where nothing is finalised, a ready file was ready before.
LEMMA ShaKept ==
  ASSUME IInv,
         \A g \in Files : (node'[g] # NoNode /\ node'[g].state = "ready") =>
           /\ node[g] # NoNode /\ node[g].state = "ready"
           /\ node'[g].sha256 = node[g].sha256
           /\ session[g] # NoSession => session'[g].mode = session[g].mode
  PROVE  ShaFrame
BY DEF ShaFrame, IInv, EverythingHasASession, Exists

LEMMA FinalizeSha ==
  ASSUME IInv, NEW f \in Files, NEW sha \in Digest \union {NoDigest}, Finalize(f, sha)
  PROVE  /\ Exists(f) /\ session[f] # NoSession
         /\ session'[f].mode = session[f].mode
         /\ sha # NoDigest => node'[f].sha256 = sha
         /\ \A g \in Files \ {f} : node'[g] = node[g] /\ session'[g] = session[g]
<1> DEFINE n == [node[f] EXCEPT !.state = "ready",
                                !.sha256 = IF sha = NoDigest THEN @ ELSE sha]
           s == [session[f] EXCEPT !.status = "completed"]
<1>1. node[f] \in Node /\ session[f] \in Session /\ session[f] # NoSession /\ Exists(f)
  BY NodeType, SessionType DEF Finalize, Exists, EverythingHasASession, IInv
<1>2. s.mode = session[f].mode /\ (sha # NoDigest => n.sha256 = sha)
  BY <1>1 DEF Node, Session
<1>3. node' = [node EXCEPT ![f] = n] /\ session' = [session EXCEPT ![f] = s]
  BY DEF Finalize
<1> HIDE DEF n, s
<1> QED  BY <1>1, <1>2, <1>3 DEF IInv, TypeOK

LEMMA ShaFileStep ==
  ASSUME IInv, NEW f \in Files, FileStep(f)
  PROVE  ShaFrame
<1>t. TypeOK /\ EverythingHasASession
  BY DEF IInv
<1>1. CASE \/ \E p \in Putters, i \in AllIndices, b \in Bodies : BeginPut(p, f, i, b)
           \/ \E i \in AllIndices, b \in Bodies : ReplayPut(f, i, b)
           \/ \E c \in Finishers, declared \in Declared : BeginComplete(c, f, declared)
           \/ \E size \in Sizes : OverwriteRefused(f, size)
  <2>1. UNCHANGED <<node, session>>
    BY <1>1 DEF BeginPut, ReplayPut, BeginComplete, OverwriteRefused
  <2> QED  BY <2>1, ShaKept
<1>2. ASSUME NEW declared \in Declared, CompleteUnverified(f, declared)
      PROVE  ShaFrame
  <2>1. session[f] \in Session /\ session[f].mode # "server_managed"
    BY <1>2, <1>t, SessionType DEF CompleteUnverified, Pending
  <2>2. /\ session'[f].mode = session[f].mode
        /\ \A g \in Files \ {f} : node'[g] = node[g] /\ session'[g] = session[g]
    BY <1>2, FinalizeSha, DigestAssumption DEF CompleteUnverified
  <2> QED  BY <1>t, <2>1, <2>2 DEF ShaFrame, EverythingHasASession, Exists
<1>3. CASE Abort(f)
  <2>1. session[f] \in Session
    BY <1>3, <1>t, SessionType DEF Abort, Pending
  <2> DEFINE s == [session[f] EXCEPT !.status = "aborted"]
  <2>2. s.mode = session[f].mode
    BY <2>1 DEF Session
  <2>3. session' = [session EXCEPT ![f] = s]
    BY <1>3 DEF Abort
  <2> HIDE DEF s
  <2>4. \A g \in Files : session[g] # NoSession => session'[g].mode = session[g].mode
    BY <1>t, <2>2, <2>3 DEF TypeOK
  <2>5. \A g \in Files : node'[g] # NoNode => node'[g] = node[g]
    BY <1>3, <1>t DEF Abort, DeleteNode, TypeOK
  <2> QED  BY <2>4, <2>5, ShaKept
<1>4. CASE Trash(f) \/ Restore(f)
  <2>1. node[f] \in Node /\ node[f] # NoNode
    BY <1>4, <1>t, NodeType DEF Trash, Restore, Exists
  <2> DEFINE n(t) == [node[f] EXCEPT !.trashed = t]
  <2>2. \A t \in BOOLEAN : n(t).sha256 = node[f].sha256 /\ n(t).state = node[f].state
    BY <2>1 DEF Node
  <2>3. \E t \in BOOLEAN : node' = [node EXCEPT ![f] = n(t)]
    BY <1>4 DEF Trash, Restore
  <2> HIDE DEF n
  <2>4. \A g \in Files : node'[g] = node[g] \/
          (node[g] # NoNode /\ node'[g].state = node[g].state
             /\ node'[g].sha256 = node[g].sha256)
    BY <1>t, <2>1, <2>2, <2>3 DEF TypeOK
  <2>5. session' = session
    BY <1>4 DEF Trash, Restore
  <2> QED  BY <2>4, <2>5, ShaKept
<1>5. CASE Purge(f)
  <2>1. session' = session /\ \A g \in Files : node'[g] # NoNode => node'[g] = node[g]
    BY <1>5, <1>t DEF Purge, DeleteNode, TypeOK
  <2> QED  BY <2>1, ShaKept
<1> QED  BY <1>1, <1>2, <1>3, <1>4, <1>5 DEF FileStep

LEMMA ShaStep ==
  ASSUME IInv, [Next]_vars
  PROVE  ShaFrame
<1>1. CASE CreateAny
  <2>1. PICK f \in Files :
          /\ node'[f].state = "uploading"
          /\ \A g \in Files \ {f} : node'[g] = node[g] /\ session'[g] = session[g]
    BY <1>1, CreateCases DEF IInv
  <2> QED  BY <2>1, ShaKept
<1>2. ASSUME NEW p \in Putters, PutStep(p)
      PROVE  ShaFrame
  <2>0. node' = node
    BY <1>2 DEF PutStep, AcquireSlot, Deliver, RetrySend, GiveUp, CommitChunk
  <2>1. CASE CommitChunk(p)
    <3>1. put[p] # Idle /\ put[p] \in PutRequest
      BY <2>1, PutType DEF CommitChunk, IInv
    <3>2. PICK f \in Files : f = put[p].file
      BY <3>1 DEF PutRequest
    <3>3. session[f] \in Session
      BY <3>1, <3>2, SessionType DEF IInv, EverythingHasASession
    <3> DEFINE s == [session[f] EXCEPT !.received = @ + 1]
    <3>4. s.mode = session[f].mode
      BY <3>3 DEF Session
    <3>5. session' = session \/ session' = [session EXCEPT ![f] = s]
      BY <2>1, <3>2 DEF CommitChunk, Bumped
    <3> HIDE DEF s
    <3>6. \A g \in Files : session[g] # NoSession => session'[g].mode = session[g].mode
      BY <3>4, <3>5 DEF IInv, TypeOK
    <3> QED  BY <2>0, <3>6, ShaKept
  <2>2. CASE AcquireSlot(p) \/ Deliver(p) \/ RetrySend(p) \/ GiveUp(p)
    <3>1. session' = session
      BY <2>2 DEF AcquireSlot, Deliver, RetrySend, GiveUp
    <3> QED  BY <2>0, <3>1, ShaKept
  <2> QED  BY <1>2, <2>1, <2>2 DEF PutStep
<1>3. ASSUME NEW c \in Finishers, CompleteStep(c)
      PROVE  ShaFrame
  <2>1. CASE FinishComplete(c)
    <3>1. completing[c] # Idle
      BY <2>1 DEF FinishComplete
    <3>2. PICK f \in Files : f = completing[c].file
      BY <3>1, CompletingType DEF IInv, CompleteRequest
    <3>3. PICK sha \in Digest : sha = DigestOf(completing[c].seen)
      BY <3>1, DigestType DEF IInv
    <3>4. Finalize(f, sha)
      BY <2>1, <3>2, <3>3 DEF FinishComplete
    <3>5. /\ Exists(f) /\ session[f] # NoSession /\ node'[f].sha256 = sha
          /\ \A g \in Files \ {f} : node'[g] = node[g] /\ session'[g] = session[g]
      BY <3>4, FinalizeSha, SentinelAssumption
    <3> QED
      BY <3>1, <3>2, <3>3, <3>5 DEF ShaFrame, IInv, EverythingHasASession, Exists
  <2>2. CASE RejectComplete(c)
    <3>1. UNCHANGED <<node, session>>
      BY <2>2 DEF RejectComplete
    <3> QED  BY <3>1, ShaKept
  <2> QED  BY <1>3, <2>1, <2>2 DEF CompleteStep
<1>4. CASE UNCHANGED vars
  <2>1. UNCHANGED <<node, session>>
    BY <1>4 DEF vars
  <2> QED  BY <2>1, ShaKept
<1> QED  BY <1>1, <1>2, <1>3, <1>4, ShaFileStep DEF Next

LEMMA SeenStaysCurrent ==
  ASSUME NoOverwrite, IInv, KInv, SeenIsCurrent, [Next]_vars
  PROVE  SeenIsCurrent'
<1>1. Frame
  BY NextFrame DEF IInv
<1> SUFFICES ASSUME NEW c \in Finishers, NEW f \in Files, completing'[c] # Idle,
                    completing'[c].file = f, node'[f] # NoNode
             PROVE  completing'[c].seen = RowsOf(f)'
  BY DEF SeenIsCurrent, Exists
<1>2. CASE completing'[c] = completing[c]
  <2>1. session[f] # NoSession
    BY <1>2 DEF IInv, EverythingHasASession
  <2>2. Exists(f)
    BY <1>1, <2>1 DEF Frame, NodeFrame, Exists
  <2>3. Missing(f) = {} /\ completing[c].seen = RowsOf(f)
    BY <1>2, <2>2 DEF KInv, DigestedFilesAreComplete, SeenIsCurrent
  <2> QED  BY <1>2, <2>1, <2>3, RowsStay
<1>3. CASE completing'[c] # completing[c]
  <2>1. Pending(f) /\ Missing(f) = {} /\ completing'[c].seen = RowsOf(f)
    BY <1>1, <1>3 DEF Frame, CompletingFrame
  <2> QED  BY <2>1, RowsStay DEF Pending
<1> QED  BY <1>2, <1>3

LEMMA DigestStaysProven ==
  ASSUME NoOverwrite, IInv, KInv, SeenIsCurrent, ReadyDigestIsProven, [Next]_vars
  PROVE  ReadyDigestIsProven'
<1> SUFFICES ASSUME NEW f \in Files, node'[f] # NoNode, node'[f].state = "ready",
                    session'[f].mode = "server_managed"
             PROVE  node'[f].sha256 = RowsDigest(f)'
  BY DEF ReadyDigestIsProven, RowsDigest, Exists
<1>1. /\ Exists(f) /\ session[f] # NoSession
      /\ \/ /\ node[f].state = "ready" /\ session[f].mode = "server_managed"
            /\ node'[f].sha256 = node[f].sha256
         \/ \E c \in Finishers : /\ completing[c] # Idle /\ completing[c].file = f
                                 /\ node'[f].sha256 = DigestOf(completing[c].seen)
  BY ShaStep DEF ShaFrame
<1>2. Missing(f) = {} /\ node'[f].sha256 = RowsDigest(f)
  <2>1. CASE /\ node[f].state = "ready" /\ session[f].mode = "server_managed"
             /\ node'[f].sha256 = node[f].sha256
    BY <1>1, <2>1 DEF KInv, ReadyFilesAreComplete, ReadyDigestIsProven, RowsDigest
  <2>2. ASSUME NEW c \in Finishers, completing[c] # Idle, completing[c].file = f,
               node'[f].sha256 = DigestOf(completing[c].seen)
        PROVE  Missing(f) = {} /\ node'[f].sha256 = RowsDigest(f)
    BY <1>1, <2>2, DigestIsOfRows DEF KInv, DigestedFilesAreComplete
  <2> QED  BY <1>1, <2>1, <2>2
<1>3. Plan(f)' = Plan(f) /\ \A i \in Plan(f) : RowAt(f, i)' = RowAt(f, i)
  BY <1>1, <1>2, RowsStay
<1>4. RowsDigest(f)' = RowsDigest(f)
  <2> DEFINE row(i) == CHOOSE r \in RowAt(f, i) : TRUE
  <2>1. \A i \in Plan(f) : row(i)' = row(i)
    BY <1>3
  <2>2. RowsDigest(f) = [i \in Plan(f) |-> row(i).body]
    BY DEF RowsDigest
  <2>3. RowsDigest(f)' = [i \in Plan(f)' |-> row(i)'.body]
    BY DEF RowsDigest
  <2> HIDE DEF row
  <2> QED  BY <1>3, <2>1, <2>2, <2>3
<1> QED  BY <1>2, <1>4

\* The digest that complete() records is that of the rows that a download reads,
\* although it was computed from rows listed before the reads and stored after
\* them: no row of a file that is complete is added, replaced or taken meanwhile.
THEOREM ReadyDigestHolds == ASSUME NoOverwrite PROVE Spec => []ReadyDigestIsProven
<1>1. Init => SeenIsCurrent /\ ReadyDigestIsProven
  BY DEF Init, SeenIsCurrent, ReadyDigestIsProven, Exists
<1>2. IInv /\ KInv /\ SeenIsCurrent /\ ReadyDigestIsProven /\ [Next]_vars =>
        SeenIsCurrent' /\ ReadyDigestIsProven'
  BY SeenStaysCurrent, DigestStaysProven
<1> QED  BY <1>1, <1>2, Invariance, KInvariance, PTL DEF Spec

-------------------------------------------------------------------------------
\* The quota.

LiveIn(nodes) == {f \in Files : nodes[f] # NoNode /\ ~nodes[f].trashed}
SizesIn(nodes) == [f \in Files |-> nodes[f].size]

AreNodes(nodes) == nodes \in [Files -> Node \union {NoNode}]

\* The equation of the partial sums of Usage, and that it is one of Total.
UsageOf(g, nodes, S) ==
  g = [s \in SUBSET S |->
         IF s = {} THEN 0 ELSE nodes[Taken(s)].size + g[s \ {Taken(s)}]]

LEMMA UsageTotal ==
  ASSUME NEW nodes
  PROVE  Usage(nodes) = Total(SizesIn(nodes), LiveIn(nodes))
<1> DEFINE S == LiveIn(nodes)
           h == SizesIn(nodes)
<1>1. S \subseteq Files /\ IsFiniteSet(S)
  BY BoundsAssumption, FS_Subset DEF LiveIn
<1>2. ASSUME NEW g PROVE UsageOf(g, nodes, S) <=> SumsOf(g, h, S)
  <2>1. \A s \in SUBSET S : s # {} => h[Taken(s)] = nodes[Taken(s)].size
    BY <1>1 DEF Taken, SizesIn
  <2> HIDE DEF S, h
  <2>2. \A s \in SUBSET S :
          (IF s = {} THEN 0 ELSE nodes[Taken(s)].size + g[s \ {Taken(s)}])
          = (IF s = {} THEN 0 ELSE h[Taken(s)] + g[s \ {Taken(s)}])
    BY <2>1
  <2> QED  BY <2>2 DEF UsageOf, SumsOf
<1>3. Usage(nodes) = (CHOOSE g : UsageOf(g, nodes, S))[S]
  BY DEF Usage, MapThenSumSet, MapThenFoldSet, UsageOf, Taken, LiveIn
<1> HIDE DEF S, h
<1>4. PICK g : SumsOf(g, h, S)
  BY <1>1, SumsExist
<1>5. UsageOf(CHOOSE j : UsageOf(j, nodes, S), nodes, S)
  BY <1>2, <1>4
<1>6. PICK k : k = CHOOSE j : UsageOf(j, nodes, S)
  OBVIOUS
<1>7. SumsOf(k, h, S)
  BY <1>2, <1>5, <1>6
<1>8. Total(h, S) = k[S]
  BY <1>1, <1>7, TotalAt
<1> QED  BY <1>3, <1>6, <1>8 DEF S, h

LEMMA LiveFacts ==
  ASSUME NEW nodes, AreNodes(nodes)
  PROVE  /\ LiveIn(nodes) \subseteq Files /\ IsFiniteSet(LiveIn(nodes))
         /\ \A f \in LiveIn(nodes) : SizesIn(nodes)[f] \in Nat
         /\ \A f \in Files : SizesIn(nodes)[f] = nodes[f].size
<1>1. LiveIn(nodes) \subseteq Files
  BY DEF LiveIn
<1>2. IsFiniteSet(LiveIn(nodes))
  BY <1>1, BoundsAssumption, FS_Subset
<1>3. \A f \in Files : SizesIn(nodes)[f] = nodes[f].size
  BY DEF SizesIn
<1>4. ASSUME NEW f \in LiveIn(nodes) PROVE nodes[f].size \in Nat
  <2>1. nodes[f] \in Node
    BY DEF LiveIn, AreNodes
  <2> QED  BY <2>1, SizesAssumption DEF Node
<1> QED  BY <1>1, <1>2, <1>3, <1>4

LEMMA UsageNat ==
  ASSUME NEW nodes, AreNodes(nodes)
  PROVE  Usage(nodes) \in Nat
BY LiveFacts, UsageTotal, TotalNat

\* Usage looks at the live files and their sizes only.
LEMMA UsageSame ==
  ASSUME NEW nodes, AreNodes(nodes), NEW after, AreNodes(after),
         LiveIn(after) = LiveIn(nodes),
         \A f \in LiveIn(nodes) : after[f].size = nodes[f].size
  PROVE  Usage(after) = Usage(nodes)
<1>1. LiveIn(nodes) \subseteq Files /\ IsFiniteSet(LiveIn(nodes))
  BY LiveFacts
<1>2. \A f \in LiveIn(nodes) : SizesIn(after)[f] = SizesIn(nodes)[f]
  BY <1>1, LiveFacts
<1>3. Total(SizesIn(after), LiveIn(nodes)) = Total(SizesIn(nodes), LiveIn(nodes))
  BY <1>1, <1>2, TotalSame
<1> QED  BY <1>3, UsageTotal

\* A new live file adds its size.
LEMMA UsageAdds ==
  ASSUME NEW nodes, AreNodes(nodes), NEW after, AreNodes(after),
         NEW f \in Files, nodes[f] = NoNode, after[f] # NoNode, ~after[f].trashed,
         \A g \in Files \ {f} : after[g] = nodes[g]
  PROVE  Usage(after) = Usage(nodes) + after[f].size
<1> DEFINE S == LiveIn(after)
<1>1. f \in S /\ S \ {f} = LiveIn(nodes)
  BY DEF LiveIn
<1>2. S \subseteq Files /\ IsFiniteSet(S) /\ \A g \in S : SizesIn(after)[g] \in Int
  BY LiveFacts
<1>3. Total(SizesIn(after), S) = SizesIn(after)[f] + Total(SizesIn(after), S \ {f})
  BY <1>1, <1>2, TotalStep
<1>4. \A g \in S \ {f} : SizesIn(after)[g] = SizesIn(nodes)[g]
  BY <1>2, LiveFacts
<1>5. IsFiniteSet(S \ {f})
  BY <1>2, FS_Subset
<1>6. Total(SizesIn(after), S \ {f}) = Total(SizesIn(nodes), S \ {f})
  BY <1>4, <1>5, TotalSame
<1>7. SizesIn(after)[f] = after[f].size /\ after[f].size \in Nat
  BY <1>1, LiveFacts
<1> HIDE DEF S
<1>8. PICK a, b, c : a = Usage(after) /\ b = Usage(nodes) /\ c = after[f].size
  OBVIOUS
<1>9. a \in Nat /\ b \in Nat /\ c \in Nat
  BY <1>7, <1>8, UsageNat
<1>10. a = c + b
  BY <1>1, <1>3, <1>6, <1>7, <1>8, UsageTotal DEF S
<1> QED  BY <1>8, <1>9, <1>10

\* What a step does to the usage: it is charged for a file that is created, it
\* is recomputed, or nothing changes; but a pending upload whose node was purged
\* is released a second time when it is aborted.
QuotaFrame ==
  /\ AreNodes(node) /\ AreNodes(node')
  /\ \/ used' = Usage(node')
     \/ used' = used /\ Usage(node') = Usage(node)
     \/ \E size \in Sizes :
          FitsQuota(size) /\ used' = used + size /\ Usage(node') = Usage(node) + size
     \/ \E f \in Files :
          /\ "abort" \in ClientOps /\ Pending(f) /\ ~Exists(f)
          /\ used' = Max({0, used - session[f].size}) /\ Usage(node') = Usage(node)

\* Only create_session opens a session, and it asks the quota.
AdmissionFrame ==
  (\E f \in Files : session[f] = NoSession /\ session'[f] # NoSession)
    => \E size \in Sizes :
         FitsQuota(size) /\ used' = used + size /\ Usage(node') = Usage(node) + size

LEMMA FinalizeUsage ==
  ASSUME TypeOK, EverythingHasASession, NEW f \in Files,
         NEW sha \in Digest \union {NoDigest}, Finalize(f, sha)
  PROVE  Usage(node') = Usage(node)
<1>1. /\ node[f] \in Node /\ AreNodes(node) /\ AreNodes(node')
      /\ \A g \in Files \ {f} : node'[g] = node[g]
      /\ node'[f] # NoNode /\ node[f] # NoNode
  BY FinalizeType, NodeType DEF Finalize, TypeOK, AreNodes, Exists
<1>2. node'[f].size = node[f].size /\ node'[f].trashed = node[f].trashed
  BY <1>1 DEF Finalize, TypeOK, Node
<1>3. LiveIn(node') = LiveIn(node)
  BY <1>1, <1>2 DEF LiveIn
<1>4. \A g \in LiveIn(node) : node'[g].size = node[g].size
  BY <1>1, <1>2 DEF LiveIn
<1> QED  BY <1>1, <1>3, <1>4, UsageSame

LEMMA OpenUploadUsage ==
  ASSUME TypeOK, EverythingHasASession, NEW f \in Files, NEW name \in Names,
         NEW size \in Sizes, NEW mode \in Modes, NEW expected \in Declared,
         NEW key \in Keys \union {NoKey}, session[f] = NoSession,
         OpenUpload(f, name, size, mode, expected, key)
  PROVE  QuotaFrame /\ AdmissionFrame
<1>1. /\ AreNodes(node) /\ AreNodes(node')
      /\ node'[f] # NoNode
      /\ \A g \in Files \ {f} : node'[g] = node[g]
  BY OpenUploadType DEF TypeOK, AreNodes
<1>2. node[f] = NoNode
  BY DEF EverythingHasASession, Exists
<1>3. node'[f].size = size /\ ~node'[f].trashed
  BY DEF OpenUpload, TypeOK
<1>4. Usage(node') = Usage(node) + size
  BY <1>1, <1>2, <1>3, UsageAdds
<1>5. FitsQuota(size) /\ used' = used + size
  BY DEF OpenUpload
<1> QED  BY <1>1, <1>4, <1>5 DEF QuotaFrame, AdmissionFrame

LEMMA CreateUsage ==
  ASSUME TypeOK, EverythingHasASession, CreateAny
  PROVE  QuotaFrame /\ AdmissionFrame
<1> SUFFICES ASSUME NEW f \in Files, NEW size \in Sizes, NEW mode \in Modes,
                    NEW expected \in Declared, NEW key \in Keys \union {NoKey},
                    \/ \E name \in Names : CreateSession(f, name, size, mode, expected, key)
                    \/ \E old \in Files : OverwriteSession(f, old, size, mode, expected, key)
             PROVE  QuotaFrame /\ AdmissionFrame
  BY DEF CreateAny
<1>1. ASSUME NEW name \in Names, CreateSession(f, name, size, mode, expected, key)
      PROVE  QuotaFrame /\ AdmissionFrame
  <2>1. session[f] = NoSession /\ OpenUpload(f, name, size, mode, expected, key)
    BY <1>1 DEF CreateSession
  <2> QED  BY <2>1, OpenUploadUsage
<1>2. ASSUME NEW old \in Files, OverwriteSession(f, old, size, mode, expected, key)
      PROVE  QuotaFrame /\ AdmissionFrame
  <2>1. session[f] = NoSession /\ OpenUpload(f, node[old].name, size, mode, expected, key)
    BY <1>2 DEF OverwriteSession
  <2>2. node[old].name \in Names
    BY <1>2, NodeType DEF OverwriteSession, Live, Exists, Node
  <2> QED  BY <2>1, <2>2, OpenUploadUsage
<1> QED  BY <1>1, <1>2

\* A step that opens no session.
LEMMA NoAdmission ==
  ASSUME \A f \in Files : session[f] = NoSession => session'[f] = NoSession
  PROVE  AdmissionFrame
BY DEF AdmissionFrame

\* abort, trash, restore and purge.
LEMMA RemovalUsage ==
  ASSUME TypeOK, TypeOK', EverythingHasASession, NEW f \in Files,
         Abort(f) \/ Trash(f) \/ Restore(f) \/ Purge(f)
  PROVE  QuotaFrame /\ AdmissionFrame
<1>1. AreNodes(node) /\ AreNodes(node')
  BY DEF TypeOK, AreNodes
<1>2. AdmissionFrame
  <2>1. \A g \in Files : session[g] = NoSession => session'[g] = NoSession
    BY DEF Abort, Trash, Restore, Purge, Pending, TypeOK
  <2> QED  BY <2>1, NoAdmission
<1>3. CASE used' = Usage(node')
  BY <1>1, <1>2, <1>3 DEF QuotaFrame
<1>4. CASE Abort(f) /\ ~Exists(f)
  <2>1. /\ "abort" \in ClientOps /\ Pending(f) /\ node' = node
        /\ used' = Max({0, used - session[f].size})
    BY <1>4 DEF Abort
  <2> QED  BY <1>1, <1>2, <1>4, <2>1 DEF QuotaFrame
<1> QED  BY <1>3, <1>4 DEF Abort, Trash, Restore, Purge

LEMMA UsageStep ==
  ASSUME IInv, TypeOK', [Next]_vars
  PROVE  QuotaFrame /\ AdmissionFrame
<1>t. TypeOK /\ EverythingHasASession /\ EverythingIsBacked
  BY DEF IInv
<1>n. AreNodes(node) /\ AreNodes(node')
  BY <1>t DEF TypeOK, AreNodes
<1>k. ASSUME used' = used, Usage(node') = Usage(node),
             \A f \in Files : session[f] = NoSession => session'[f] = NoSession
      PROVE  QuotaFrame /\ AdmissionFrame
  BY <1>n, <1>k, NoAdmission DEF QuotaFrame
<1>1. CASE CreateAny
  BY <1>1, <1>t, CreateUsage
<1>2. ASSUME NEW p \in Putters, PutStep(p)
      PROVE  QuotaFrame /\ AdmissionFrame
  <2>1. node' = node /\ used' = used
    BY <1>2 DEF PutStep, AcquireSlot, Deliver, RetrySend, GiveUp, CommitChunk
  <2>2. CASE CommitChunk(p)
    <3>1. session[put[p].file] # NoSession
      BY <2>2, <1>t DEF CommitChunk, EverythingHasASession
    <3>2. \A f \in Files : f # put[p].file => session'[f] = session[f]
      BY <2>2, <1>t DEF CommitChunk, Bumped, TypeOK
    <3> QED  BY <1>k, <2>1, <3>1, <3>2
  <2>3. CASE AcquireSlot(p) \/ Deliver(p) \/ RetrySend(p) \/ GiveUp(p)
    <3>1. session' = session
      BY <2>3 DEF AcquireSlot, Deliver, RetrySend, GiveUp
    <3> QED  BY <1>k, <2>1, <3>1
  <2> QED  BY <1>2, <2>2, <2>3 DEF PutStep
<1>3. ASSUME NEW c \in Finishers, CompleteStep(c)
      PROVE  QuotaFrame /\ AdmissionFrame
  <2>1. CASE FinishComplete(c)
    <3>1. PICK f : f = completing[c].file
      OBVIOUS
    <3>2. f \in Files /\ Finalize(f, DigestOf(completing[c].seen))
      BY <2>1, <3>1, <1>t, CompletingType DEF FinishComplete, CompleteRequest
    <3>3. DigestOf(completing[c].seen) \in Digest
      BY <2>1, <1>t, DigestType DEF FinishComplete
    <3>4. Usage(node') = Usage(node)
      BY <3>2, <3>3, <1>t, FinalizeUsage
    <3>5. \A g \in Files : session[g] = NoSession => session'[g] = NoSession
      BY <3>2, <3>3, <1>t, FinalizeType
    <3>6. used' = used
      BY <2>1 DEF FinishComplete
    <3> QED  BY <1>k, <3>4, <3>5, <3>6
  <2>2. CASE RejectComplete(c)
    BY <1>k, <2>2 DEF RejectComplete
  <2> QED  BY <1>3, <2>1, <2>2 DEF CompleteStep
<1>4. ASSUME NEW f \in Files, FileStep(f)
      PROVE  QuotaFrame /\ AdmissionFrame
  <2>1. CASE \/ \E p \in Putters, i \in AllIndices, b \in Bodies : BeginPut(p, f, i, b)
             \/ \E i \in AllIndices, b \in Bodies : ReplayPut(f, i, b)
             \/ \E c \in Finishers, declared \in Declared : BeginComplete(c, f, declared)
             \/ \E size \in Sizes : OverwriteRefused(f, size)
    <3>1. UNCHANGED <<node, session, used>>
      BY <2>1 DEF BeginPut, ReplayPut, BeginComplete, OverwriteRefused
    <3> QED  BY <1>k, <3>1
  <2>2. ASSUME NEW declared \in Declared, CompleteUnverified(f, declared)
        PROVE  QuotaFrame /\ AdmissionFrame
    <3>1. Finalize(f, declared) /\ declared \in Digest \union {NoDigest} /\ used' = used
      BY <2>2, DigestAssumption DEF CompleteUnverified
    <3>2. Usage(node') = Usage(node)
      BY <3>1, <1>t, FinalizeUsage
    <3>3. \A g \in Files : session[g] = NoSession => session'[g] = NoSession
      BY <3>1, <1>t, FinalizeType
    <3> QED  BY <1>k, <3>1, <3>2, <3>3
  <2>3. CASE Abort(f) \/ Trash(f) \/ Restore(f) \/ Purge(f)
    BY <1>t, <2>3, RemovalUsage
  <2> QED  BY <1>4, <2>1, <2>2, <2>3 DEF FileStep
<1>5. CASE UNCHANGED vars
  BY <1>5, <1>k DEF vars
<1> QED  BY <1>1, <1>2, <1>3, <1>4, <1>5 DEF Next

\* The bytes charged are never more than the live files have.
UsageBounded == used \in Nat /\ used <= Usage(node)

LEMMA ReleaseIsBounded ==
  ASSUME NEW a \in Nat, NEW s \in Nat
  PROVE  Max({0, a - s}) \in Nat /\ Max({0, a - s}) <= a
<1>1. \E x \in {0, a - s} : \A y \in {0, a - s} : x >= y
  OBVIOUS
<1>2. /\ Max({0, a - s}) \in {0, a - s}
      /\ \A y \in {0, a - s} : Max({0, a - s}) >= y
  BY <1>1 DEF Max
<1> QED  BY <1>2

LEMMA EmptyUsage ==
  ASSUME Init
  PROVE  Usage(node) = 0
<1>1. LiveIn(node) = {}
  BY DEF Init, LiveIn
<1> QED  BY <1>1, UsageTotal, TotalEmpty

LEMMA UsageBoundedStep ==
  ASSUME IInv, TypeOK', UsageBounded, [Next]_vars
  PROVE  UsageBounded'
<1>1. QuotaFrame
  BY UsageStep
<1>2. PICK a, b : a = Usage(node) /\ b = Usage(node')
  OBVIOUS
<1>3. a \in Nat /\ b \in Nat
  BY <1>1, <1>2, UsageNat DEF QuotaFrame
<1>4. used \in Nat /\ used <= a
  BY <1>2 DEF UsageBounded
<1>5. used' \in Nat /\ used' <= b
  <2>1. CASE used' = b \/ (used' = used /\ b = a)
    BY <2>1, <1>3, <1>4
  <2>2. CASE \E size \in Sizes : used' = used + size /\ b = a + size
    BY <2>2, <1>3, <1>4, SizesAssumption
  <2>3. ASSUME NEW f \in Files, Pending(f),
               used' = Max({0, used - session[f].size}), b = a
        PROVE  used' \in Nat /\ used' <= b
    <3>1. session[f].size \in Nat
      BY <2>3, SessionType, SizesAssumption DEF IInv, Pending, Session
    <3> QED  BY <1>3, <1>4, <2>3, <3>1, ReleaseIsBounded
  <2> QED  BY <1>1, <1>2, <2>1, <2>2, <2>3 DEF QuotaFrame
<1> QED  BY <1>2, <1>5 DEF UsageBounded

\* Nobody is charged for bytes that no live file of theirs has, whatever clients do,
\* purging and aborting included, so a 413 for want of quota is always deserved:
\* _release_quota may take bytes back twice, but never too late.
THEOREM NobodyPaysTooMuch == Spec => [](used <= Usage(node))
<1>1. Init => UsageBounded
  BY EmptyUsage DEF Init, UsageBounded
<1>2. IInv /\ IInv' /\ UsageBounded /\ [Next]_vars => UsageBounded'
  BY UsageBoundedStep DEF IInv
<1>3. UsageBounded => used <= Usage(node)
  BY DEF UsageBounded
<1> QED  BY <1>1, <1>2, <1>3, Invariance, PTL DEF Spec

-------------------------------------------------------------------------------
\* What holds as long as clients do not both purge and abort.

NoDoubleRelease == ~({"abort", "purge"} \subseteq ClientOps)

\* An upload that can be aborted has a node to delete.
PendingHaveNodes == "abort" \in ClientOps => \A f \in Files : Pending(f) => Exists(f)

\* Without purge a pending upload keeps its node.
PendingFrame ==
  "purge" \notin ClientOps =>
    \A f \in Files : Pending(f)' => \/ node'[f] # NoNode
                                    \/ Pending(f) /\ node[f] = NoNode

LEMMA PendingStep ==
  ASSUME IInv, TypeOK', [Next]_vars
  PROVE  PendingFrame
<1> USE DEF PendingFrame
<1>t. TypeOK /\ EverythingHasASession /\ EverythingIsBacked
  BY DEF IInv
<1>1. CASE CreateAny
  <2> PICK f \in Files :
           /\ node'[f] # NoNode
           /\ \A g \in Files \ {f} : node'[g] = node[g] /\ session'[g] = session[g]
    BY <1>1, <1>t, CreateCases
  <2> QED  BY DEF Pending
<1>2. ASSUME NEW p \in Putters, PutStep(p)
      PROVE  PendingFrame
  <2>1. node' = node
    BY <1>2 DEF PutStep, AcquireSlot, Deliver, RetrySend, GiveUp, CommitChunk
  <2>2. CASE CommitChunk(p)
    <3>1. put[p].file \in Files /\ session[put[p].file] \in Session
      BY <2>2, <1>t, PutType, SessionType DEF CommitChunk, EverythingHasASession, PutRequest
    <3> DEFINE f == put[p].file
               s == [session[f] EXCEPT !.received = @ + 1]
    <3>2. s.status = session[f].status /\ session[f] # NoSession
      BY <3>1, SentinelAssumption DEF Session
    <3>3. session' = session \/ session' = [session EXCEPT ![f] = s]
      BY <2>2 DEF CommitChunk, Bumped
    <3> HIDE DEF s, f
    <3> QED  BY <2>1, <3>2, <3>3, <1>t DEF TypeOK, Pending
  <2>3. CASE AcquireSlot(p) \/ Deliver(p) \/ RetrySend(p) \/ GiveUp(p)
    <3>1. session' = session
      BY <2>3 DEF AcquireSlot, Deliver, RetrySend, GiveUp
    <3> QED  BY <2>1, <3>1 DEF Pending
  <2> QED  BY <1>2, <2>2, <2>3 DEF PutStep
<1>f. ASSUME NEW f \in Files, NEW sha \in Digest \union {NoDigest}, Finalize(f, sha)
      PROVE  PendingFrame
  BY <1>f, <1>t, FinalizeType DEF Pending
<1>3. ASSUME NEW c \in Finishers, CompleteStep(c)
      PROVE  PendingFrame
  <2>1. CASE FinishComplete(c)
    <3>1. completing[c].file \in Files
      BY <2>1, <1>t, CompletingType DEF FinishComplete, CompleteRequest
    <3>2. DigestOf(completing[c].seen) \in Digest
      BY <2>1, <1>t, DigestType DEF FinishComplete
    <3>3. Finalize(completing[c].file, DigestOf(completing[c].seen))
      BY <2>1 DEF FinishComplete
    <3> QED  BY <3>1, <3>2, <3>3, <1>f
  <2>2. CASE RejectComplete(c)
    BY <2>2 DEF RejectComplete, Pending
  <2> QED  BY <1>3, <2>1, <2>2 DEF CompleteStep
<1>4. ASSUME NEW f \in Files, FileStep(f)
      PROVE  PendingFrame
  <2>1. CASE \/ \E p \in Putters, i \in AllIndices, b \in Bodies : BeginPut(p, f, i, b)
             \/ \E i \in AllIndices, b \in Bodies : ReplayPut(f, i, b)
             \/ \E c \in Finishers, declared \in Declared : BeginComplete(c, f, declared)
             \/ \E size \in Sizes : OverwriteRefused(f, size)
    <3>1. UNCHANGED <<node, session>>
      BY <2>1 DEF BeginPut, ReplayPut, BeginComplete, OverwriteRefused
    <3> QED  BY <3>1 DEF Pending
  <2>2. ASSUME NEW declared \in Declared, CompleteUnverified(f, declared)
        PROVE  PendingFrame
    BY <2>2, <1>f, DigestAssumption DEF CompleteUnverified
  <2>3. CASE Abort(f)
    <3>1. session[f] \in Session /\ session[f] # NoSession
      BY <2>3, <1>t, SessionType DEF Abort, Pending
    <3>2. session'[f].status = "aborted" /\ \A g \in Files \ {f} : session'[g] = session[g]
      BY <2>3, <3>1, <1>t DEF Abort, TypeOK, Session
    <3>3. \A g \in Files \ {f} : node'[g] = node[g]
      BY <2>3, <1>t DEF Abort, DeleteNode, TypeOK
    <3> QED  BY <3>2, <3>3 DEF Pending
  <2>4. CASE Trash(f) \/ Restore(f)
    <3>1. node[f] \in Node
      BY <2>4, <1>t, NodeType DEF Trash, Restore
    <3>2. node'[f] \in Node
      <4>1. /\ [node[f] EXCEPT !.trashed = TRUE] \in Node
            /\ [node[f] EXCEPT !.trashed = FALSE] \in Node
        BY <3>1 DEF Node
      <4> QED  BY <2>4, <4>1, <1>t DEF Trash, Restore, TypeOK
    <3>3. \A g \in Files \ {f} : node'[g] = node[g]
      BY <2>4, <1>t DEF Trash, Restore, TypeOK
    <3>4. session' = session
      BY <2>4 DEF Trash, Restore
    <3> QED  BY <3>2, <3>3, <3>4, SentinelAssumption DEF Pending
  <2>5. CASE Purge(f)
    BY <2>5 DEF Purge
  <2> QED  BY <1>4, <2>1, <2>2, <2>3, <2>4, <2>5 DEF FileStep
<1>5. CASE UNCHANGED vars
  BY <1>5 DEF vars, Pending
<1> QED  BY <1>1, <1>2, <1>3, <1>4, <1>5 DEF Next

\* The inductive invariant behind the quota theorems.
QInv == QuotaMatchesUsage /\ PendingHaveNodes

LEMMA QInvStep ==
  ASSUME NoDoubleRelease, IInv, TypeOK', QInv, [Next]_vars
  PROVE  QInv'
<1>1. QuotaFrame /\ PendingFrame
  BY UsageStep, PendingStep
<1>2. QuotaMatchesUsage'
  <2>1. used = Usage(node)
    BY DEF QInv, QuotaMatchesUsage
  <2>2. ~\E f \in Files : "abort" \in ClientOps /\ Pending(f) /\ ~Exists(f)
    BY DEF QInv, PendingHaveNodes
  <2>3. used' = Usage(node')
    BY <1>1, <2>1, <2>2 DEF QuotaFrame
  <2> QED  BY <2>3 DEF QuotaMatchesUsage
<1>3. PendingHaveNodes'
  BY <1>1 DEF QInv, PendingHaveNodes, PendingFrame, NoDoubleRelease, Exists
<1> QED  BY <1>2, <1>3 DEF QInv

LEMMA QInvariance == ASSUME NoDoubleRelease PROVE Spec => []QInv
<1>1. Init => QInv
  BY EmptyUsage DEF Init, QInv, QuotaMatchesUsage, PendingHaveNodes, Pending
<1>2. IInv /\ IInv' /\ QInv /\ [Next]_vars => QInv'
  BY QInvStep, NoDoubleRelease DEF IInv
<1> QED  BY <1>1, <1>2, Invariance, PTL DEF Spec

\* used_bytes is the sum of the live files' sizes, through every create, overwrite,
\* trash, restore, purge or abort, whatever requests are in flight.
THEOREM UsageIsExact == ASSUME NoDoubleRelease PROVE Spec => []QuotaMatchesUsage
<1>1. QInv => QuotaMatchesUsage  BY DEF QInv
<1> QED  BY <1>1, QInvariance, PTL

\* No upload is admitted whose file takes the live files over the quota.
THEOREM AdmissionRespectsQuota ==
  ASSUME NoDoubleRelease PROVE Spec => AdmittedWithinQuota
<1> DEFINE Admits == (\E f \in Files : session[f] = NoSession /\ session'[f] # NoSession)
                       => Quota = 0 \/ Usage(node') <= Quota
<1>1. IInv /\ IInv' /\ QInv /\ [Next]_vars => Admits
  <2> SUFFICES ASSUME IInv, TypeOK', QInv, [Next]_vars,
                      \E f \in Files : session[f] = NoSession /\ session'[f] # NoSession,
                      Quota # 0
               PROVE  Usage(node') <= Quota
    BY DEF IInv
  <2>1. PICK size \in Sizes : FitsQuota(size) /\ Usage(node') = Usage(node) + size
    BY UsageStep DEF AdmissionFrame
  <2>2. used + size <= Quota
    BY <2>1 DEF FitsQuota
  <2> QED  BY <2>1, <2>2 DEF QInv, QuotaMatchesUsage
<1>2. IInv /\ IInv' /\ QInv /\ [Next]_vars => [Admits]_vars
  BY <1>1
<1> QED  BY <1>2, Invariance, QInvariance, PTL DEF Spec, AdmittedWithinQuota
===============================================================================
