-------------------------- MODULE ChunkUploadProofs --------------------------
(***************************************************************************)
(* Proofs about ChunkUpload, for every set of chunks of any size, any      *)
(* number of handlers and requests, with and without a checksum: a chunk   *)
(* nobody is writing is complete, and a MOVE that fails keeps the session. *)
(***************************************************************************)
EXTENDS ChunkUpload, TLAPS

Fields == {"pc", "kind", "chunk", "next", "linked", "waited", "todo", "got"}

\* A handler: only a PUT that has opened its chunk writes to it, from the first block on;
\* a MOVE that cleans up has published.
Placed(h) ==
    /\ handler[h].chunk \subseteq Chunk /\ handler[h].next \in Nat \ {0}
    /\ handler[h].kind = "PUT" => \E c \in Chunk : handler[h].chunk = {c}
    /\ handler[h].pc \in {"stat", "open"} => handler[h].next = 1
    /\ handler[h].kind = "MOVE" /\ handler[h].pc \in {"clean", "rmdir"} => file # "none"
HandlerOK(h) ==
    /\ DOMAIN handler[h] = Fields
    /\ Placed(h)
    /\ handler[h].linked \in BOOLEAN
    /\ handler[h].linked => At(h, "PUT", "write")

\* The type invariant: of the directory, of the chunks in it, and the rest.
DirOK ==
    /\ DOMAIN dir = {"there", "meta", "age", "idle"}
    /\ dir.there \in BOOLEAN /\ dir.meta \in {"none", "empty", "ok"}
    /\ ~ dir.there => dir.meta = "none"
AgesOK == dir.age \in 0..MaxAge + 1 /\ dir.idle \in 0..dir.age

RestOK ==
    /\ janitor \in {"idle", "rmdir"} /\ file \in {"none", "whole", "broken"}
    /\ made \in BOOLEAN /\ told \in BOOLEAN /\ acked \subseteq Chunk
SentOK == sent \in 0..MaxRequests

ChunksOK ==
    /\ chunks = [c \in DOMAIN chunks |-> chunks[c]]
    /\ DOMAIN chunks \subseteq Chunk /\ \A c \in DOMAIN chunks : chunks[c] \subseteq 1..Size[c]
    /\ \A h \in Handler : handler[h].linked => dir.there /\ handler[h].chunk \subseteq DOMAIN chunks
    /\ ~ dir.there => DOMAIN chunks = {}

IInv ==
    /\ DOMAIN handler = Handler /\ \A h \in Handler : HandlerOK(h)
    /\ DirOK /\ AgesOK /\ RestOK /\ SentOK /\ ChunksOK
    /\ MissingIsComing

\* Nothing but handler h changes among the handlers.
Alone(h) ==
    /\ DOMAIN handler' = Handler
    /\ \A g \in Handler \ {h} : handler'[g] = handler[g]

\* The fields of a handler at rest.
LEMMA IdleFields ==
    /\ DOMAIN Idle = Fields /\ Idle.pc = "idle" /\ Idle.kind = "none" /\ Idle.chunk = {}
    /\ Idle.next = 1 /\ Idle.linked = FALSE
BY DEF Idle, Fields

\* At the beginning nobody works on anything.
LEMMA InitInv == Init => IInv
<1> SUFFICES ASSUME Init PROVE IInv
  OBVIOUS
<1>1. DOMAIN chunks = {} /\ chunks = [c \in DOMAIN chunks |-> chunks[c]]
  BY DEF Init
<1>2. DOMAIN handler = Handler /\ \A h \in Handler : handler[h] = Idle
  BY DEF Init
<1>3. \A h \in Handler : HandlerOK(h)
  <2> SUFFICES ASSUME NEW h \in Handler PROVE HandlerOK(h)
    OBVIOUS
  <2>1. Placed(h)
    BY <1>2, IdleFields DEF Placed
  <2>2. QED
    BY <1>2, <2>1, IdleFields DEF HandlerOK
<1>4. DirOK /\ AgesOK
  BY ChunkUploadAssumption DEF Init, NoDir, DirOK, AgesOK
<1>5. \A h \in Handler : handler[h].linked = FALSE
  BY <1>2, IdleFields
<1>6. ChunksOK /\ MissingIsComing
  BY <1>1, <1>5 DEF ChunksOK, MissingIsComing
<1>7. RestOK
  BY DEF Init, RestOK
<1>9. SentOK
  BY ChunkUploadAssumption DEF Init, SentOK
<1>8. QED
  BY <1>2, <1>3, <1>4, <1>6, <1>7, <1>9 DEF IInv

-----------------------------------------------------------------------------
(* The directory.                                                          *)

\* Making, touching and writing a directory, and emptying it, leaves a directory.
DirMade ==
    \/ dir' = dir
    \/ dir' = [NoDir EXCEPT !.there = TRUE]
    \/ dir.there /\ \E m \in {"none", "empty", "ok"} :
          dir' \in {Touched, Written, [Touched EXCEPT !.meta = m], [Written EXCEPT !.meta = m], Emptied(dir)}

\* Making, touching, writing and emptying keeps a directory that is there, and its ages
\* in order.
LEMMA DirStaysOK ==
    ASSUME DirOK, AgesOK, DirMade
    PROVE  DirOK' /\ AgesOK' /\ (dir.there => dir'.there)
<1>1. CASE dir' = dir
  BY <1>1 DEF DirOK, AgesOK
<1>2. CASE dir' = [NoDir EXCEPT !.there = TRUE]
  <2>1. /\ DOMAIN dir' = {"there", "meta", "age", "idle"} /\ dir'.there = TRUE
        /\ dir'.meta = "none" /\ dir'.age = 0 /\ dir'.idle = 0
    BY <1>2 DEF NoDir
  <2>2. DirOK' /\ dir'.there
    BY <2>1 DEF DirOK
  <2>3. AgesOK'
    BY <2>1, ChunkUploadAssumption DEF AgesOK
  <2>4. QED
    BY <2>2, <2>3
<1>3. ASSUME dir.there, NEW m \in {"none", "empty", "ok"},
             dir' \in {Touched, Written, [Touched EXCEPT !.meta = m], [Written EXCEPT !.meta = m], Emptied(dir)}
      PROVE  DirOK' /\ AgesOK' /\ (dir.there => dir'.there)
  <2>1. /\ DOMAIN dir' = {"there", "meta", "age", "idle"}
        /\ dir'.there = dir.there
        /\ dir'.meta \in {"none", "empty", "ok"}
        /\ dir'.age \in {0, dir.age} /\ dir'.idle = 0
    BY <1>3 DEF DirOK, Touched, Written, Emptied
  <2>2. DirOK' /\ dir'.there
    BY <1>3, <2>1 DEF DirOK
  <2>3. AgesOK'
    BY <2>1, ChunkUploadAssumption DEF AgesOK
  <2>4. QED
    BY <2>2, <2>3
<1>4. QED
  BY <1>1, <1>2, <1>3 DEF DirMade

-----------------------------------------------------------------------------
(* Steps that write to no chunk.                                           *)

\* The chunks stay as they are, and so does the directory unless it is empty.
ChunksStay == chunks' = chunks /\ ((dir.there => dir'.there) \/ DOMAIN chunks = {})

\* A step of h that leaves the chunks as they are; what h was still to write it does.
Elsewhere(h) ==
    /\ Alone(h) /\ ChunksStay
    /\ handler'[h].linked => handler[h].linked /\ handler'[h].chunk = handler[h].chunk
    /\ \A c \in Chunk : \A i \in 1..Size[c] :
          Writing(h, c) /\ handler[h].next <= i => Writing(h, c)' /\ handler'[h].next <= i

\* Who writes to a chunk finds it in the directory.
LEMMA LinkedHaveChunks ==
    ASSUME IInv, NEW g \in Handler, handler[g].linked
    PROVE  dir.there /\ handler[g].chunk \subseteq DOMAIN chunks /\ DOMAIN chunks # {}
<1>1. HandlerOK(g) /\ dir.there /\ handler[g].chunk \subseteq DOMAIN chunks
  BY DEF IInv, ChunksOK
<1>2. PICK c \in Chunk : handler[g].chunk = {c}
  BY <1>1 DEF HandlerOK, Placed, At
<1>3. QED
  BY <1>1, <1>2

\* What h still had to write to chunks it has after the step, so nothing is missing for good.
LEMMA ElsewhereKeeps ==
    ASSUME IInv, NEW h \in Handler, Elsewhere(h), file # "none" => file' # "none", DirOK'
    PROVE  /\ ChunksOK' /\ MissingIsComing'
           /\ \A g \in Handler \ {h} : HandlerOK(g)'
<1>1. ChunksOK'
  <2>1. \A g \in Handler : handler'[g].linked =>
            handler[g].linked /\ handler'[g].chunk = handler[g].chunk
    BY DEF Elsewhere, Alone
  <2>2. \A g \in Handler : handler'[g].linked =>
            dir'.there /\ handler'[g].chunk \subseteq DOMAIN chunks
    BY <2>1, LinkedHaveChunks DEF Elsewhere, ChunksStay
  <2>3. ~ dir'.there => DOMAIN chunks = {}
    BY DEF IInv, ChunksOK, Elsewhere, ChunksStay
  <2>4. chunks' = chunks
    BY DEF Elsewhere, ChunksStay
  <2>5. QED
    BY <2>2, <2>3, <2>4 DEF IInv, ChunksOK
<1>2. MissingIsComing'
  <2> SUFFICES ASSUME NEW c \in DOMAIN chunks, NEW i \in 1..Size[c] \ chunks[c]
               PROVE  \E g \in Handler : Writing(g, c)' /\ handler'[g].next <= i
    BY DEF MissingIsComing, Elsewhere, ChunksStay
  <2>1. PICK g \in Handler : Writing(g, c) /\ handler[g].next <= i
    BY DEF IInv, MissingIsComing
  <2>2. c \in Chunk
    BY DEF IInv, ChunksOK
  <2>3. CASE g = h
    BY <2>1, <2>2, <2>3 DEF Elsewhere
  <2>4. CASE g # h
    BY <2>1, <2>4 DEF Elsewhere, Alone, Writing, At
  <2>5. QED
    BY <2>3, <2>4
<1>3. ASSUME NEW g \in Handler \ {h} PROVE HandlerOK(g)'
  BY DEF IInv, Elsewhere, Alone, HandlerOK, Placed, At
<1>4. QED
  BY <1>1, <1>2, <1>3

\* With h's own record in order, such a step keeps the invariant.
LEMMA ElsewhereInv ==
    ASSUME IInv, NEW h \in Handler, Elsewhere(h), file # "none" => file' # "none",
           HandlerOK(h)', DirOK', AgesOK', RestOK', sent' = sent
    PROVE  IInv'
<1>1. ChunksOK' /\ MissingIsComing' /\ \A g \in Handler : HandlerOK(g)'
  BY ElsewhereKeeps
<1>2. SentOK' /\ DOMAIN handler' = Handler
  BY DEF IInv, SentOK, Elsewhere, Alone
<1>3. QED
  BY <1>1, <1>2 DEF IInv

\* The common case: h is not in the middle of a chunk before the step or after it.
LEMMA AwayIsElsewhere ==
    ASSUME NEW h, Alone(h), ChunksStay, ~ handler[h].linked, ~ handler'[h].linked
    PROVE  Elsewhere(h)
BY DEF Elsewhere, Writing

\* A request the client sends begins with its first block and nothing open.
LEMMA SendKeepsInv ==
    ASSUME IInv, NEW h \in Handler, SendMkcol(h) \/ SendPut(h) \/ SendMove(h)
    PROVE  IInv'
<1>1. PICK kind, pc, S :
        /\ Send(h, kind, pc, S) /\ S \subseteq Chunk
        /\ kind = "PUT" => \E c \in Chunk : S = {c}
        /\ pc # "open" /\ pc \notin {"clean", "rmdir"}
  <2>1. CASE SendMkcol(h)
    BY <2>1 DEF SendMkcol
  <2>2. CASE SendPut(h)
    <3>1. PICK c \in Chunk \ acked : Send(h, "PUT", "stat", {c})
      BY <2>2 DEF SendPut
    <3>2. {c} \subseteq Chunk
      OBVIOUS
    <3>3. QED
      BY <3>1, <3>2
  <2>3. CASE SendMove(h)
    BY <2>3 DEF SendMove
  <2>4. QED
    BY <2>1, <2>2, <2>3
<1>2. /\ handler[h].pc = "idle" /\ sent < MaxRequests /\ sent' = sent + 1
      /\ handler' = [handler EXCEPT ![h] = [Idle EXCEPT !.kind = kind, !.pc = pc,
                                                        !.chunk = S, !.waited = TRUE]]
      /\ UNCHANGED <<dir, chunks, janitor, file, made, acked, told>>
  BY <1>1 DEF Send, client
<1>3. /\ Alone(h)
      /\ handler'[h] = [Idle EXCEPT !.kind = kind, !.pc = pc, !.chunk = S, !.waited = TRUE]
  BY <1>2 DEF IInv, Alone
<1>4. /\ DOMAIN handler'[h] = Fields /\ handler'[h].kind = kind /\ handler'[h].pc = pc
      /\ handler'[h].chunk = S /\ handler'[h].next = 1 /\ handler'[h].linked = FALSE
  BY <1>3 DEF Idle, Fields
<1>5. HandlerOK(h)'
  <2>1. Placed(h)'
    BY <1>1, <1>4 DEF Placed
  <2>2. QED
    BY <1>4, <2>1 DEF HandlerOK
<1>6. Elsewhere(h)
  <2>1. ~ handler[h].linked
    BY <1>2 DEF IInv, HandlerOK, At
  <2>2. QED
    BY <1>2, <1>3, <1>4, <2>1, AwayIsElsewhere DEF ChunksStay
<1>7. DirOK' /\ AgesOK' /\ RestOK'
  BY <1>2 DEF IInv, DirOK, AgesOK, RestOK
<1>8. ChunksOK' /\ MissingIsComing' /\ \A g \in Handler \ {h} : HandlerOK(g)'
  BY <1>2, <1>6, <1>7, ElsewhereKeeps
<1>9. DOMAIN handler' = Handler
  BY <1>3 DEF Alone
<1>10. SentOK'
  BY <1>2, ChunkUploadAssumption DEF IInv, SentOK
<1>11. \A g \in Handler : HandlerOK(g)'
  BY <1>5, <1>8
<1>12. QED
  BY <1>7, <1>8, <1>9, <1>10, <1>11 DEF IInv

\* A handler that has answered is at rest.
LEMMA Ended ==
    ASSUME IInv, NEW h \in Handler, End(h)
    PROVE  Alone(h) /\ HandlerOK(h)' /\ ~ handler'[h].linked
<1>1. Alone(h) /\ handler'[h] = Idle
  BY DEF End, IInv, Alone
<1>2. Placed(h)'
  BY <1>1, IdleFields DEF Placed
<1>3. handler'[h].linked = FALSE
  BY <1>1, IdleFields
<1>4. QED
  BY <1>1, <1>2, <1>3, IdleFields DEF HandlerOK

\* A handler that goes on keeps its chunk and its place in it.
LEMMA Went ==
    ASSUME IInv, NEW h \in Handler, NEW pc, Goto(h, pc), ~ handler[h].linked,
           pc \in {"stat", "open"} => handler[h].next = 1,
           handler[h].kind = "MOVE" /\ pc \in {"clean", "rmdir"} => file' # "none"
    PROVE  Alone(h) /\ HandlerOK(h)' /\ ~ handler'[h].linked
<1>1. Alone(h) /\ handler'[h] = [handler[h] EXCEPT !.pc = pc]
  BY DEF Goto, IInv, Alone
<1>2. HandlerOK(h)
  BY DEF IInv
<1>3. /\ DOMAIN handler'[h] = Fields /\ handler'[h].pc = pc
      /\ handler'[h].kind = handler[h].kind /\ handler'[h].chunk = handler[h].chunk
      /\ handler'[h].next = handler[h].next /\ handler'[h].linked = handler[h].linked
  BY <1>1, <1>2 DEF HandlerOK, Fields
<1>4. Placed(h)'
  BY <1>2, <1>3 DEF HandlerOK, Placed
<1>5. QED
  BY <1>1, <1>2, <1>3, <1>4 DEF HandlerOK

\* MKCOL makes or rewrites the directory and .meta, and no chunk.
LEMMA MkcolKeepsInv ==
    ASSUME IInv, NEW h \in Handler, MakeDir(h) \/ TruncateMeta(h) \/ WriteMeta(h)
    PROVE  IInv'
<1>1. /\ handler[h].kind = "MKCOL" /\ chunks' = chunks /\ file' = file /\ sent' = sent
      /\ UNCHANGED <<janitor, told, acked>>
      /\ made' = made \/ made' = (made \/ handler[h].waited)
      /\ End(h) \/ Goto(h, "meta") \/ Goto(h, "write")
  BY DEF MakeDir, TruncateMeta, WriteMeta, At, client
<1>2. ~ handler[h].linked
  BY <1>1 DEF IInv, HandlerOK, At
<1>3. Alone(h) /\ HandlerOK(h)' /\ ~ handler'[h].linked
  <2>1. CASE End(h)
    BY <2>1, Ended
  <2>2. CASE Goto(h, "meta")
    BY <1>1, <1>2, <2>2, Went
  <2>3. CASE Goto(h, "write")
    BY <1>1, <1>2, <2>3, Went
  <2>4. QED
    BY <1>1, <2>1, <2>2, <2>3
<1>4. DirOK' /\ AgesOK' /\ (dir.there => dir'.there)
  <2>1. DirMade
    BY DEF MakeDir, TruncateMeta, WriteMeta, DirMade
  <2>2. QED
    BY <2>1, DirStaysOK DEF IInv
<1>5. RestOK'
  <2>1. made' \in BOOLEAN
    BY <1>1 DEF IInv, RestOK
  <2>2. QED
    BY <1>1, <2>1 DEF IInv, RestOK
<1>6. Elsewhere(h)
  BY <1>1, <1>2, <1>3, <1>4, AwayIsElsewhere DEF ChunksStay
<1>7. QED
  BY <1>1, <1>3, <1>4, <1>5, <1>6, ElsewhereInv

\* A handler whose record changes in fields that say nothing of chunks it writes.
LEMMA GiveUpKeepsInv ==
    ASSUME IInv, NEW h \in Handler, GiveUp(h)
    PROVE  IInv'
<1>1. /\ handler' = [handler EXCEPT ![h].waited = FALSE]
      /\ UNCHANGED <<dir, chunks, janitor, file, made, acked, told, sent>>
  BY DEF GiveUp, client
<1>2. Alone(h) /\ handler'[h] = [handler[h] EXCEPT !.waited = FALSE]
  BY <1>1 DEF IInv, Alone
<1>3. HandlerOK(h)
  BY DEF IInv
<1>4. /\ DOMAIN handler'[h] = Fields /\ handler'[h].pc = handler[h].pc
      /\ handler'[h].kind = handler[h].kind /\ handler'[h].chunk = handler[h].chunk
      /\ handler'[h].next = handler[h].next /\ handler'[h].linked = handler[h].linked
  BY <1>2, <1>3 DEF HandlerOK, Fields
<1>5. HandlerOK(h)'
  BY <1>1, <1>3, <1>4 DEF HandlerOK, Placed, At
<1>6. Elsewhere(h)
  BY <1>1, <1>2, <1>4 DEF Elsewhere, ChunksStay, Writing, At
<1>7. DirOK' /\ AgesOK' /\ RestOK'
  BY <1>1 DEF IInv, DirOK, AgesOK, RestOK
<1>8. QED
  BY <1>1, <1>5, <1>6, <1>7, ElsewhereInv

-----------------------------------------------------------------------------
(* PUT.                                                                    *)

\* A PUT that has found the directory is still at its first block.
LEMMA StatKeepsInv ==
    ASSUME IInv, NEW h \in Handler, Stat(h)
    PROVE  IInv'
<1>1. /\ handler[h].kind = "PUT" /\ handler[h].pc = "stat" /\ Goto(h, "open")
      /\ UNCHANGED <<dir, chunks, janitor, file, made, acked, told, sent>>
  BY DEF Stat, At, client
<1>2. ~ handler[h].linked /\ handler[h].next = 1
  BY <1>1 DEF IInv, HandlerOK, Placed, At
<1>3. Alone(h) /\ HandlerOK(h)' /\ ~ handler'[h].linked
  BY <1>1, <1>2, Went
<1>4. DirOK' /\ AgesOK' /\ RestOK'
  BY <1>1 DEF IInv, DirOK, AgesOK, RestOK
<1>5. Elsewhere(h)
  BY <1>1, <1>2, <1>3, AwayIsElsewhere DEF ChunksStay
<1>6. QED
  BY <1>1, <1>3, <1>4, <1>5, ElsewhereInv

\* A request that misses the directory had nothing open.
LEMMA NotFoundKeepsInv ==
    ASSUME IInv, NEW h \in Handler, NotFound(h)
    PROVE  IInv'
<1>1. /\ handler[h].pc # "write" \/ handler[h].kind # "PUT"
      /\ End(h)
      /\ UNCHANGED <<dir, chunks, janitor, file, made, acked, told, sent>>
  BY DEF NotFound, At, client
<1>2. ~ handler[h].linked
  BY <1>1 DEF IInv, HandlerOK, At
<1>3. Alone(h) /\ HandlerOK(h)' /\ ~ handler'[h].linked
  BY <1>1, Ended
<1>4. DirOK' /\ AgesOK' /\ RestOK'
  BY <1>1 DEF IInv, DirOK, AgesOK, RestOK
<1>5. Elsewhere(h)
  BY <1>1, <1>2, <1>3, AwayIsElsewhere DEF ChunksStay
<1>6. QED
  BY <1>1, <1>3, <1>4, <1>5, ElsewhereInv

\* A PUT that has written its last block leaves nothing to be written.
LEMMA WriteEndKeepsInv ==
    ASSUME IInv, NEW h \in Handler, WriteEnd(h)
    PROVE  IInv'
<1>1. /\ \E c \in handler[h].chunk : handler[h].next > Size[c]
      /\ handler[h].kind = "PUT"
      /\ acked' = acked \/ acked' = acked \cup handler[h].chunk
      /\ End(h)
      /\ UNCHANGED <<dir, chunks, janitor, file, made, told, sent>>
  BY DEF WriteEnd, At
<1>2. HandlerOK(h)
  BY DEF IInv
<1>3. PICK c \in Chunk : handler[h].chunk = {c}
  BY <1>1, <1>2 DEF HandlerOK, Placed
<1>4. handler[h].next \in Nat /\ handler[h].next > Size[c] /\ Size[c] \in Nat
  BY <1>1, <1>2, <1>3, ChunkUploadAssumption DEF HandlerOK, Placed
<1>5. Alone(h) /\ HandlerOK(h)' /\ ~ handler'[h].linked
  BY <1>1, Ended
<1>6. DirOK' /\ AgesOK'
  BY <1>1 DEF IInv, DirOK, AgesOK
<1>7. RestOK'
  BY <1>1, <1>3 DEF IInv, RestOK
<1>8. Elsewhere(h)
  <2>1. ASSUME NEW d \in Chunk, NEW i \in 1..Size[d], Writing(h, d), handler[h].next <= i
        PROVE  FALSE
    <3>1. d = c
      BY <1>3, <2>1 DEF Writing
    <3>2. QED
      BY <1>4, <2>1, <3>1
  <2>2. ChunksStay
    BY <1>1 DEF ChunksStay
  <2>3. QED
    BY <1>5, <2>1, <2>2 DEF Elsewhere
<1>9. QED
  BY <1>1, <1>5, <1>6, <1>7, <1>8, ElsewhereInv

\* A PUT that opens its chunk empties it, and is at its first block.
LEMMA OpenKeepsInv ==
    ASSUME IInv, NEW h \in Handler, Open(h)
    PROVE  IInv'
<1>1. /\ handler[h].kind = "PUT" /\ handler[h].pc = "open" /\ dir.there
      /\ dir' \in {Written, Touched}
      /\ chunks' = [c \in DOMAIN chunks \cup handler[h].chunk |->
                       IF c \in handler[h].chunk THEN {} ELSE chunks[c]]
      /\ handler' = [handler EXCEPT ![h].pc = "write", ![h].linked = TRUE]
      /\ UNCHANGED <<janitor, file, made, acked, told, sent>>
  BY DEF Open, At, client
<1>2. HandlerOK(h) /\ ~ handler[h].linked /\ handler[h].next = 1
  BY <1>1 DEF IInv, HandlerOK, Placed, At
<1>3. PICK c \in Chunk : handler[h].chunk = {c}
  BY <1>1, <1>2 DEF HandlerOK, Placed
<1>4. Alone(h) /\ handler'[h] = [[handler[h] EXCEPT !.pc = "write"] EXCEPT !.linked = TRUE]
  BY <1>1 DEF IInv, Alone
<1>5. /\ DOMAIN handler'[h] = Fields /\ handler'[h].pc = "write"
      /\ handler'[h].kind = "PUT" /\ handler'[h].chunk = {c}
      /\ handler'[h].next = 1 /\ handler'[h].linked = TRUE
  <2> DEFINE H == [handler[h] EXCEPT !.pc = "write"]
  <2>1. DOMAIN handler[h] = Fields
    BY <1>2 DEF HandlerOK
  <2>2. /\ DOMAIN H = Fields /\ H.pc = "write" /\ H.kind = "PUT" /\ H.chunk = {c} /\ H.next = 1
    BY <1>1, <1>2, <1>3, <2>1 DEF Fields
  <2>3. handler'[h] = [H EXCEPT !.linked = TRUE]
    BY <1>4
  <2> HIDE DEF H
  <2>4. QED
    BY <2>2, <2>3 DEF Fields
<1>6. HandlerOK(h)'
  <2>1. Placed(h)'
    BY <1>5 DEF Placed
  <2>2. QED
    BY <1>5, <2>1 DEF HandlerOK, At
<1>7. \A g \in Handler \ {h} : HandlerOK(g)'
  BY <1>1, <1>4 DEF IInv, Alone, HandlerOK, Placed, At
<1>8. DirOK' /\ AgesOK' /\ dir'.there
  BY <1>1, DirStaysOK DEF DirMade, IInv
<1>9. /\ DOMAIN chunks' = DOMAIN chunks \cup {c} /\ chunks'[c] = {}
      /\ \A d \in DOMAIN chunks \ {c} : chunks'[d] = chunks[d]
      /\ chunks' = [d \in DOMAIN chunks' |-> chunks'[d]]
  BY <1>1, <1>3
<1>10. ChunksOK'
  <2>1. \A d \in DOMAIN chunks' : chunks'[d] \subseteq 1..Size[d]
    BY <1>9 DEF IInv, ChunksOK
  <2>2. \A g \in Handler : handler'[g].linked => handler'[g].chunk \subseteq DOMAIN chunks'
    BY <1>4, <1>5, <1>9 DEF IInv, ChunksOK, Alone
  <2>3. QED
    BY <1>8, <1>9, <2>1, <2>2 DEF ChunksOK, IInv
<1>11. MissingIsComing'
  <2> SUFFICES ASSUME NEW d \in DOMAIN chunks', NEW i \in 1..Size[d] \ chunks'[d]
               PROVE  \E g \in Handler : Writing(g, d)' /\ handler'[g].next <= i
    BY DEF MissingIsComing
  <2>1. CASE d = c
    BY <1>5, <2>1 DEF Writing, At
  <2>2. CASE d # c
    <3>1. PICK g \in Handler : Writing(g, d) /\ handler[g].next <= i
      BY <1>9, <2>2 DEF IInv, MissingIsComing
    <3>2. g # h
      BY <1>2, <3>1 DEF Writing
    <3>3. QED
      BY <1>4, <3>1, <3>2 DEF Alone, Writing, At
  <2>3. QED
    BY <2>1, <2>2
<1>12. RestOK' /\ SentOK' /\ DOMAIN handler' = Handler
  BY <1>1, <1>4 DEF IInv, RestOK, SentOK, Alone
<1>13. QED
  BY <1>6, <1>7, <1>8, <1>10, <1>11, <1>12 DEF IInv

\* A PUT writes the block it is at, to its chunk or, unlinked, to a file without a name.
LEMMA WriteKeepsInv ==
    ASSUME IInv, NEW h \in Handler, Write(h)
    PROVE  IInv'
<1>1. HandlerOK(h) /\ handler[h].kind = "PUT" /\ handler[h].pc = "write"
  BY DEF IInv, Write, At
<1>2. PICK c \in Chunk : handler[h].chunk = {c}
  BY <1>1 DEF HandlerOK, Placed
<1>3. /\ handler[h].next <= Size[c]
      /\ handler' = [handler EXCEPT ![h].next = @ + 1]
      /\ IF handler[h].linked
         THEN chunks' = [chunks EXCEPT ![c] = @ \cup {handler[h].next}] /\ dir' = Written
         ELSE UNCHANGED <<chunks, dir>>
      /\ UNCHANGED <<janitor, file, made, acked, told, sent>>
  BY <1>2 DEF Write, client
<1>4. Alone(h) /\ handler'[h] = [handler[h] EXCEPT !.next = @ + 1]
  BY <1>3 DEF IInv, Alone
<1>5. /\ DOMAIN handler'[h] = Fields /\ handler'[h].pc = "write"
      /\ handler'[h].kind = "PUT" /\ handler'[h].chunk = {c}
      /\ handler'[h].next = handler[h].next + 1 /\ handler'[h].linked = handler[h].linked
  BY <1>1, <1>2, <1>4 DEF HandlerOK, Fields
<1>6. handler[h].next \in Nat \ {0} /\ Size[c] \in Nat
  BY <1>1, ChunkUploadAssumption DEF HandlerOK, Placed
<1>7. HandlerOK(h)'
  <2>1. Placed(h)'
    BY <1>5, <1>6 DEF Placed
  <2>2. QED
    BY <1>1, <1>5, <2>1 DEF HandlerOK, At
<1>8. \A g \in Handler \ {h} : HandlerOK(g)'
  BY <1>3, <1>4 DEF IInv, Alone, HandlerOK, Placed, At
<1>9. RestOK' /\ SentOK' /\ DOMAIN handler' = Handler
  BY <1>3, <1>4 DEF IInv, RestOK, SentOK, Alone
<1>10. CASE ~ handler[h].linked
  <2>1. DirOK' /\ AgesOK' /\ ChunksStay
    BY <1>3, <1>10 DEF IInv, DirOK, AgesOK, ChunksStay
  <2>2. Elsewhere(h)
    BY <1>4, <1>5, <1>10, <2>1, AwayIsElsewhere
  <2>3. QED
    BY <1>3, <1>7, <1>9, <2>1, <2>2, ElsewhereInv
<1>11. CASE handler[h].linked
  <2>1. dir.there /\ c \in DOMAIN chunks
    BY <1>2, <1>11 DEF IInv, ChunksOK
  <2>2. DirOK' /\ AgesOK' /\ dir'.there
    BY <1>3, <1>11, <2>1, DirStaysOK DEF DirMade, IInv
  <2>3. /\ DOMAIN chunks' = DOMAIN chunks /\ chunks'[c] = chunks[c] \cup {handler[h].next}
        /\ \A d \in DOMAIN chunks \ {c} : chunks'[d] = chunks[d]
        /\ chunks' = [d \in DOMAIN chunks' |-> chunks'[d]]
    BY <1>3, <1>11, <2>1
  <2>4. ChunksOK'
    <3>1. handler[h].next \in 1..Size[c]
      BY <1>3, <1>6
    <3>2. \A d \in DOMAIN chunks' : chunks'[d] \subseteq 1..Size[d]
      BY <2>3, <3>1 DEF IInv, ChunksOK
    <3>3. \A g \in Handler : handler'[g].linked => handler'[g].chunk \subseteq DOMAIN chunks'
      BY <1>2, <1>4, <1>5, <2>1, <2>3 DEF IInv, ChunksOK, Alone
    <3>4. QED
      BY <2>2, <2>3, <3>2, <3>3 DEF ChunksOK, IInv
  <2>5. MissingIsComing'
    <3> SUFFICES ASSUME NEW d \in DOMAIN chunks', NEW i \in 1..Size[d] \ chunks'[d]
                 PROVE  \E g \in Handler : Writing(g, d)' /\ handler'[g].next <= i
      BY DEF MissingIsComing
    <3>1. i \in 1..Size[d] \ chunks[d] /\ (d = c => i # handler[h].next)
      BY <2>3
    <3>2. PICK g \in Handler : Writing(g, d) /\ handler[g].next <= i
      BY <2>3, <3>1 DEF IInv, MissingIsComing
    <3>3. CASE g # h
      BY <1>4, <3>2, <3>3 DEF Alone, Writing, At
    <3>4. CASE g = h
      <4>1. d = c
        BY <1>2, <3>2, <3>4 DEF Writing
      <4>2. i \in Nat
        BY <1>6, <4>1
      <4>3. handler[h].next + 1 <= i
        BY <1>6, <3>1, <3>2, <3>4, <4>1, <4>2
      <4>4. Writing(h, c)'
        BY <1>5, <1>11 DEF Writing, At
      <4>5. QED
        BY <1>5, <4>1, <4>3, <4>4
    <3>5. QED
      BY <3>3, <3>4
  <2>6. QED
    BY <1>7, <1>8, <1>9, <2>2, <2>4, <2>5 DEF IInv
<1>12. QED
  BY <1>10, <1>11

\* Removing names from chunks changes nothing of the handlers but that they write to none.
Unlinked(R, S) == IF R.chunk \subseteq S THEN [R EXCEPT !.linked = FALSE] ELSE R
\* A handler keeps what its record promises when a chunk it writes to loses its name.
LEMMA UnlinkedOK ==
    ASSUME NEW g \in Handler, HandlerOK(g), file # "none" => file' # "none",
           DOMAIN handler'[g] = Fields, handler'[g].pc = handler[g].pc,
           handler'[g].kind = handler[g].kind, handler'[g].chunk = handler[g].chunk,
           handler'[g].next = handler[g].next,
           handler'[g].linked = FALSE \/ handler'[g] = handler[g]
    PROVE  HandlerOK(g)'
<1>1. Placed(g)'
  BY DEF HandlerOK, Placed
<1>2. CASE handler'[g].linked = FALSE
  BY <1>1, <1>2 DEF HandlerOK
<1>3. CASE handler'[g] = handler[g]
  BY <1>1, <1>3 DEF HandlerOK, At
<1>4. QED
  BY <1>2, <1>3

\* A PUT that fails removes its chunk by name: those who write to it write to no chunk now.
LEMMA WriteFailKeepsInv ==
    ASSUME IInv, NEW h \in Handler, WriteFail(h)
    PROVE  IInv'
<1>1. HandlerOK(h) /\ handler[h].kind = "PUT"
  BY DEF IInv, WriteFail, At
<1>2. PICK c \in Chunk : handler[h].chunk = {c}
  BY <1>1 DEF HandlerOK, Placed
<1> DEFINE H == [handler EXCEPT ![h] = Idle]
<1>3. /\ chunks' = [d \in DOMAIN chunks \ {c} |-> chunks[d]]
      /\ dir' = IF {c} \subseteq DOMAIN chunks THEN Touched ELSE dir
      /\ handler' = Unlink({c}, H)
      /\ UNCHANGED <<janitor, file, made, acked, told, sent>>
  BY <1>2 DEF WriteFail, client
<1>4. H[h] = Idle /\ \A g \in Handler \ {h} : H[g] = handler[g]
  BY DEF IInv
<1> HIDE DEF H
<1>5. DOMAIN handler' = Handler
  BY <1>3 DEF Unlink
<1>6. \A g \in Handler : handler'[g] = Unlinked(H[g], {c})
  BY <1>3 DEF Unlink, Unlinked
<1>7. handler'[h].linked = FALSE /\ HandlerOK(h)'
  <2>1. /\ DOMAIN handler'[h] = Fields /\ handler'[h].pc = "idle" /\ handler'[h].kind = "none"
        /\ handler'[h].chunk = {} /\ handler'[h].next = 1 /\ handler'[h].linked = FALSE
    <3>1. handler'[h] = Unlinked(Idle, {c})
      BY <1>4, <1>6
    <3>2. DOMAIN Idle = Fields /\ Idle.chunk \subseteq {c}
      BY IdleFields
    <3>3. QED
      BY <3>1, <3>2, IdleFields DEF Unlinked, Fields
  <2>2. Placed(h)'
    BY <2>1 DEF Placed
  <2>3. QED
    BY <2>1, <2>2 DEF HandlerOK
<1>8. \A g \in Handler \ {h} :
          /\ DOMAIN handler'[g] = Fields /\ handler'[g].pc = handler[g].pc
          /\ handler'[g].kind = handler[g].kind /\ handler'[g].chunk = handler[g].chunk
          /\ handler'[g].next = handler[g].next
          /\ handler[g].chunk \subseteq {c} => handler'[g].linked = FALSE
          /\ ~ handler[g].chunk \subseteq {c} => handler'[g] = handler[g]
  <2>1. \A g \in Handler : DOMAIN handler[g] = Fields
    BY DEF IInv, HandlerOK
  <2>2. \A g \in Handler \ {h} : handler'[g] = Unlinked(handler[g], {c})
    BY <1>4, <1>6
  <2>3. QED
    BY <2>1, <2>2 DEF Unlinked, Fields
<1>9. /\ DOMAIN chunks' = DOMAIN chunks \ {c}
      /\ \A d \in DOMAIN chunks \ {c} : chunks'[d] = chunks[d]
      /\ chunks' = [d \in DOMAIN chunks' |-> chunks'[d]]
  BY <1>3
<1>10. DirOK' /\ AgesOK' /\ (dir.there => dir'.there)
  <2>1. {c} \subseteq DOMAIN chunks => dir.there
    BY DEF IInv, ChunksOK
  <2>2. DirMade
    BY <1>3, <2>1 DEF DirMade
  <2>3. QED
    BY <2>2, DirStaysOK DEF IInv
<1>11. ChunksOK'
  <2>1. \A g \in Handler : handler'[g].linked => dir'.there /\ handler'[g].chunk \subseteq DOMAIN chunks'
    <3> SUFFICES ASSUME NEW g \in Handler, handler'[g].linked
                 PROVE  dir'.there /\ handler'[g].chunk \subseteq DOMAIN chunks'
      OBVIOUS
    <3>1. handler'[g] = handler[g] /\ handler[g].linked /\ ~ handler[g].chunk \subseteq {c}
      BY <1>7, <1>8
    <3>2. PICK d \in Chunk : handler[g].chunk = {d}
      BY <3>1 DEF IInv, HandlerOK, Placed, At
    <3>3. dir.there /\ handler[g].chunk \subseteq DOMAIN chunks
      BY <3>1 DEF IInv, ChunksOK
    <3>4. QED
      BY <1>9, <1>10, <3>1, <3>2, <3>3
  <2>2. ~ dir'.there => DOMAIN chunks' = {}
    BY <1>9, <1>10 DEF IInv, ChunksOK
  <2>3. QED
    BY <1>9, <2>1, <2>2 DEF IInv, ChunksOK
<1>12. MissingIsComing'
  <2> SUFFICES ASSUME NEW d \in DOMAIN chunks', NEW i \in 1..Size[d] \ chunks'[d]
               PROVE  \E g \in Handler : Writing(g, d)' /\ handler'[g].next <= i
    BY DEF MissingIsComing
  <2>1. PICK g \in Handler : Writing(g, d) /\ handler[g].next <= i
    BY <1>9 DEF IInv, MissingIsComing
  <2>2. d # c /\ handler[g].chunk = {d} /\ g # h
    BY <1>2, <1>9, <2>1 DEF Writing
  <2>3. handler'[g] = handler[g]
    BY <1>8, <2>2
  <2>4. QED
    BY <2>1, <2>3 DEF Writing, At
<1>13. RestOK' /\ SentOK'
  BY <1>3 DEF IInv, RestOK, SentOK
<1>14. \A g \in Handler : HandlerOK(g)'
  <2> SUFFICES ASSUME NEW g \in Handler, g # h PROVE HandlerOK(g)'
    BY <1>7
  <2>1. HandlerOK(g) /\ file' = file
    BY <1>3 DEF IInv
  <2>2. QED
    BY <1>8, <2>1, UnlinkedOK
<1>15. QED
  BY <1>5, <1>10, <1>11, <1>12, <1>13, <1>14 DEF IInv

-----------------------------------------------------------------------------
(* MOVE.                                                                   *)

\* A step of a MOVE that reads: the directory and the chunks stay as they are.
Reads(h) ==
    /\ DOMAIN handler'[h] = Fields
    /\ handler'[h].kind = handler[h].kind /\ handler'[h].chunk = handler[h].chunk
    /\ handler'[h].next = handler[h].next /\ handler'[h].linked = handler[h].linked
    /\ handler'[h].pc \in {"list", "read"}
    /\ Alone(h) /\ UNCHANGED <<dir, chunks, janitor, file, made, acked, told, sent>>

\* Reading disturbs nothing.
LEMMA ReadsKeepsInv ==
    ASSUME IInv, NEW h \in Handler, handler[h].kind = "MOVE", Reads(h)
    PROVE  IInv'
<1>1. HandlerOK(h) /\ ~ handler[h].linked
  BY DEF IInv, HandlerOK, At
<1>2. HandlerOK(h)'
  BY <1>1 DEF Reads, HandlerOK, Placed, At
<1>3. Elsewhere(h)
  BY <1>1, AwayIsElsewhere DEF Reads, ChunksStay
<1>4. DirOK' /\ AgesOK' /\ RestOK'
  BY DEF Reads, IInv, DirOK, AgesOK, RestOK
<1>5. QED
  BY <1>2, <1>3, <1>4, ElsewhereInv DEF Reads

\* Opening .meta, listing the directory and reading a chunk are such steps.
LEMMA ReadStepsRead ==
    ASSUME IInv, NEW h \in Handler, ReadMeta(h) \/ List(h) \/ ReadChunk(h)
    PROVE  handler[h].kind = "MOVE" /\ Reads(h)
<1>1. DOMAIN handler[h] = Fields /\ DOMAIN handler = Handler
  BY DEF IInv, HandlerOK
<1>2. CASE ReadMeta(h)
  <2>1. /\ handler' = [handler EXCEPT ![h].pc = "list"] /\ handler[h].kind = "MOVE"
        /\ UNCHANGED <<dir, chunks, janitor, file, made, acked, told, sent>>
    BY <1>2 DEF ReadMeta, At, Goto, client
  <2>2. Alone(h) /\ handler'[h] = [handler[h] EXCEPT !.pc = "list"]
    BY <1>1, <2>1 DEF Alone
  <2>3. QED
    BY <1>1, <2>1, <2>2 DEF Reads, Fields
<1>3. CASE List(h)
  <2>1. /\ handler' = [handler EXCEPT ![h].pc = "read", ![h].todo = DOMAIN chunks]
        /\ handler[h].kind = "MOVE"
        /\ UNCHANGED <<dir, chunks, janitor, file, made, acked, told, sent>>
    BY <1>3 DEF List, At, client
  <2>2. Alone(h) /\ handler'[h] = [[handler[h] EXCEPT !.pc = "read"] EXCEPT !.todo = DOMAIN chunks]
    BY <1>1, <2>1 DEF Alone
  <2>3. QED
    BY <1>1, <2>1, <2>2 DEF Reads, Fields
<1>4. CASE ReadChunk(h)
  <2>1. PICK c : /\ handler' = [handler EXCEPT
                        ![h].todo = @ \ {c},
                        ![h].got = [d \in DOMAIN @ \cup {c} |-> IF d = c THEN chunks[c] ELSE @[d]]]
                 /\ handler[h].kind = "MOVE" /\ handler[h].pc = "read"
                 /\ UNCHANGED <<dir, chunks, janitor, file, made, acked, told, sent>>
    BY <1>4 DEF ReadChunk, At, client
  <2>2. PICK T, G : handler' = [handler EXCEPT ![h].todo = T, ![h].got = G]
    BY <2>1
  <2>3. Alone(h) /\ handler'[h] = [[handler[h] EXCEPT !.todo = T] EXCEPT !.got = G]
    BY <1>1, <2>2 DEF Alone
  <2>4. QED
    BY <1>1, <2>1, <2>3 DEF Reads, Fields
<1>5. QED
  BY <1>2, <1>3, <1>4

\* Whatever the reason for it, an error answer leaves the session as it is.
LEMMA RejectKeepsInv ==
    ASSUME IInv, NEW h \in Handler, handler[h].kind = "MOVE", Reject(h)
    PROVE  IInv'
<1>1. /\ acked' = acked \/ acked' = {}
      /\ chunks' = chunks /\ dir' = [dir EXCEPT !.meta = dir.meta]
      /\ End(h) /\ UNCHANGED <<janitor, file, made, told, sent>>
  BY DEF Reject, RejectAnd
<1>2. ~ handler[h].linked
  BY DEF IInv, HandlerOK, At
<1>3. Alone(h) /\ HandlerOK(h)' /\ ~ handler'[h].linked
  BY <1>1, Ended
<1>4. /\ DOMAIN dir' = DOMAIN dir /\ dir'.there = dir.there /\ dir'.meta = dir.meta
      /\ dir'.age = dir.age /\ dir'.idle = dir.idle
  BY <1>1 DEF IInv, DirOK
<1>5. DirOK' /\ AgesOK'
  BY <1>4 DEF IInv, DirOK, AgesOK
<1>6. RestOK'
  BY <1>1 DEF IInv, RestOK
<1>7. Elsewhere(h)
  BY <1>1, <1>2, <1>3, <1>4, AwayIsElsewhere DEF ChunksStay
<1>8. QED
  BY <1>1, <1>3, <1>5, <1>6, <1>7, ElsewhereInv

\* A MOVE that goes on to clean up has published.
LEMMA PublishKeepsInv ==
    ASSUME IInv, NEW h \in Handler, Publish(h)
    PROVE  IInv'
<1>1. /\ handler[h].kind = "MOVE" /\ file' \in {"whole", "broken"} /\ Goto(h, "clean")
      /\ UNCHANGED <<dir, chunks, janitor, made, acked, told, sent>>
  BY DEF Publish, At, client
<1>2. ~ handler[h].linked
  BY <1>1 DEF IInv, HandlerOK, At
<1>3. Alone(h) /\ HandlerOK(h)' /\ ~ handler'[h].linked
  BY <1>1, <1>2, Went
<1>4. DirOK' /\ AgesOK' /\ RestOK'
  BY <1>1 DEF IInv, DirOK, AgesOK, RestOK
<1>5. Elsewhere(h)
  BY <1>1, <1>2, <1>3, AwayIsElsewhere DEF ChunksStay
<1>6. QED
  BY <1>1, <1>3, <1>4, <1>5, ElsewhereInv

\* Removing an empty directory takes no chunk away from anybody.
LEMMA WithoutDirStaysOK ==
    ASSUME IInv, dir' = WithoutDir, chunks' = chunks
    PROVE  DirOK' /\ AgesOK' /\ ChunksStay
<1>1. CASE dir' = dir
  BY <1>1 DEF IInv, DirOK, AgesOK, ChunksStay
<1>2. CASE dir' = NoDir /\ chunks = [c \in {} |-> {}]
  <2>1. /\ DOMAIN dir' = {"there", "meta", "age", "idle"} /\ dir'.there = FALSE
        /\ dir'.meta = "none" /\ dir'.age = 0 /\ dir'.idle = 0
    BY <1>2 DEF NoDir
  <2>2. DirOK'
    BY <2>1 DEF DirOK
  <2>3. AgesOK'
    BY <2>1, ChunkUploadAssumption DEF AgesOK
  <2>4. DOMAIN chunks = {}
    BY <1>2
  <2>5. QED
    BY <2>2, <2>3, <2>4 DEF ChunksStay
<1>3. QED
  BY <1>1, <1>2 DEF WithoutDir

\* The last step of a MOVE that has published.
LEMMA RemoveDirKeepsInv ==
    ASSUME IInv, NEW h \in Handler, RemoveDir(h)
    PROVE  IInv'
<1>1. /\ handler[h].kind = "MOVE" /\ dir' = WithoutDir /\ End(h)
      /\ told' = (told \/ handler[h].waited)
      /\ UNCHANGED <<chunks, janitor, file, made, acked, sent>>
  BY DEF RemoveDir, At
<1>2. ~ handler[h].linked
  BY <1>1 DEF IInv, HandlerOK, At
<1>3. Alone(h) /\ HandlerOK(h)' /\ ~ handler'[h].linked
  BY <1>1, Ended
<1>4. DirOK' /\ AgesOK' /\ ChunksStay
  BY <1>1, WithoutDirStaysOK
<1>5. RestOK'
  <2>1. told' \in BOOLEAN
    BY <1>1
  <2>2. QED
    BY <1>1, <2>1 DEF IInv, RestOK
<1>6. Elsewhere(h)
  BY <1>2, <1>3, <1>4, AwayIsElsewhere
<1>7. QED
  BY <1>1, <1>3, <1>4, <1>5, <1>6, ElsewhereInv

-----------------------------------------------------------------------------
(* Emptying the directory, by the MOVE that has published or the janitor.  *)

\* Everybody's chunk loses its name, and no chunk is left to be complete.
LEMMA EmptyingKeepsInv ==
    ASSUME IInv, chunks' = [c \in {} |-> {}],
           dir' = dir \/ (dir.there /\ dir' = Emptied(dir)),
           DOMAIN handler' = Handler, \A g \in Handler : HandlerOK(g)' /\ handler'[g].linked = FALSE,
           RestOK', sent' = sent
    PROVE  IInv'
<1>1. DirOK' /\ AgesOK'
  BY DirStaysOK DEF DirMade, IInv
<1>2. DOMAIN chunks' = {} /\ chunks' = [c \in DOMAIN chunks' |-> chunks'[c]]
  OBVIOUS
<1>3. ChunksOK' /\ MissingIsComing'
  BY <1>2 DEF ChunksOK, MissingIsComing
<1>4. SentOK'
  BY DEF IInv, SentOK
<1>5. QED
  BY <1>1, <1>3, <1>4 DEF IInv

\* A MOVE that cleans up takes the chunks away from everybody, and had published.
LEMMA CleanKeepsInv ==
    ASSUME IInv, NEW h \in Handler, Clean(h)
    PROVE  IInv'
<1> DEFINE H == [handler EXCEPT ![h].pc = "rmdir"]
<1>1. /\ handler[h].kind = "MOVE" /\ handler[h].pc = "clean"
      /\ chunks' = [c \in {} |-> {}]
      /\ dir' = dir \/ (dir.there /\ dir' = Emptied(dir))
      /\ handler' = Unlink(Chunk, H)
      /\ UNCHANGED <<janitor, file, made, acked, told, sent>>
  BY DEF Clean, At, client
<1>2. H[h] = [handler[h] EXCEPT !.pc = "rmdir"] /\ \A g \in Handler \ {h} : H[g] = handler[g]
  BY DEF IInv
<1> HIDE DEF H
<1>3. DOMAIN handler' = Handler /\ \A g \in Handler : handler'[g] = Unlinked(H[g], Chunk)
  BY <1>1 DEF Unlink, Unlinked
<1>4. HandlerOK(h) /\ file # "none"
  BY <1>1 DEF IInv, HandlerOK, Placed
<1>5. HandlerOK(h)' /\ handler'[h].linked = FALSE
  <2>1. /\ DOMAIN H[h] = Fields /\ H[h].pc = "rmdir" /\ H[h].kind = "MOVE"
        /\ H[h].chunk = handler[h].chunk /\ H[h].next = handler[h].next
    BY <1>1, <1>2, <1>4 DEF HandlerOK, Fields
  <2>2. H[h].chunk \subseteq Chunk
    BY <1>4, <2>1 DEF HandlerOK, Placed
  <2>3. handler'[h] = [H[h] EXCEPT !.linked = FALSE]
    BY <1>3, <2>2 DEF Unlinked
  <2>4. /\ DOMAIN handler'[h] = Fields /\ handler'[h].pc = "rmdir" /\ handler'[h].kind = "MOVE"
        /\ handler'[h].chunk = handler[h].chunk /\ handler'[h].next = handler[h].next
        /\ handler'[h].linked = FALSE
    BY <2>1, <2>3 DEF Fields
  <2>5. Placed(h)'
    BY <1>1, <1>4, <2>4 DEF HandlerOK, Placed
  <2>6. QED
    BY <2>4, <2>5 DEF HandlerOK
<1>6. ASSUME NEW g \in Handler \ {h} PROVE HandlerOK(g)' /\ handler'[g].linked = FALSE
  <2>1. HandlerOK(g) /\ DOMAIN handler[g] = Fields /\ handler[g].chunk \subseteq Chunk /\ file' = file
    BY <1>1 DEF IInv, HandlerOK, Placed
  <2>2. handler'[g] = Unlinked(handler[g], Chunk)
    BY <1>2, <1>3
  <2>3. /\ DOMAIN handler'[g] = Fields /\ handler'[g].pc = handler[g].pc
        /\ handler'[g].kind = handler[g].kind /\ handler'[g].chunk = handler[g].chunk
        /\ handler'[g].next = handler[g].next /\ handler'[g].linked = FALSE
    BY <2>1, <2>2 DEF Unlinked, Fields
  <2>4. QED
    BY <2>1, <2>3, UnlinkedOK
<1>7. RestOK' /\ sent' = sent
  BY <1>1 DEF IInv, RestOK
<1>8. \A g \in Handler : HandlerOK(g)' /\ handler'[g].linked = FALSE
  BY <1>5, <1>6
<1>9. QED
  BY <1>1, <1>3, <1>7, <1>8, EmptyingKeepsInv

\* The janitor does the same to a session that is too old.
LEMMA SweepKeepsInv == ASSUME IInv, Sweep PROVE IInv'
<1>1. /\ chunks' = [c \in {} |-> {}] /\ dir.there /\ dir' = Emptied(dir)
      /\ handler' = Unlink(Chunk, handler) /\ janitor' = "rmdir"
      /\ UNCHANGED <<file, made, acked, told, sent>>
  BY DEF Sweep, client
<1>2. DOMAIN handler' = Handler /\ \A g \in Handler : handler'[g] = Unlinked(handler[g], Chunk)
  BY <1>1 DEF Unlink, Unlinked
<1>3. ASSUME NEW g \in Handler PROVE HandlerOK(g)' /\ handler'[g].linked = FALSE
  <2>1. HandlerOK(g) /\ DOMAIN handler[g] = Fields /\ handler[g].chunk \subseteq Chunk /\ file' = file
    BY <1>1 DEF IInv, HandlerOK, Placed
  <2>2. handler'[g] = Unlinked(handler[g], Chunk)
    BY <1>2
  <2>3. /\ DOMAIN handler'[g] = Fields /\ handler'[g].pc = handler[g].pc
        /\ handler'[g].kind = handler[g].kind /\ handler'[g].chunk = handler[g].chunk
        /\ handler'[g].next = handler[g].next /\ handler'[g].linked = FALSE
    BY <2>1, <2>2 DEF Unlinked, Fields
  <2>4. QED
    BY <2>1, <2>3, UnlinkedOK
<1>4. RestOK' /\ sent' = sent
  BY <1>1 DEF IInv, RestOK
<1>5. QED
  BY <1>1, <1>2, <1>3, <1>4, EmptyingKeepsInv

-----------------------------------------------------------------------------
(* Steps of no handler.                                                    *)

\* Without a step of a handler the invariant is about the directory and the chunks only.
LEMMA NobodysKeepsInv ==
    ASSUME IInv, handler' = handler, ChunksStay, DirOK', AgesOK', RestOK', sent' = sent, file' = file
    PROVE  IInv'
<1>1. \A g \in Handler : HandlerOK(g)'
  BY DEF IInv, HandlerOK, Placed, At
<1>2. ChunksOK'
  <2>1. \A g \in Handler : handler'[g].linked => dir'.there /\ handler'[g].chunk \subseteq DOMAIN chunks'
    BY LinkedHaveChunks DEF ChunksStay
  <2>2. ~ dir'.there => DOMAIN chunks' = {}
    BY DEF IInv, ChunksOK, ChunksStay
  <2>3. QED
    BY <2>1, <2>2 DEF IInv, ChunksOK, ChunksStay
<1>3. MissingIsComing'
  BY DEF IInv, MissingIsComing, ChunksStay, Writing, At
<1>4. SentOK' /\ DOMAIN handler' = Handler
  BY DEF IInv, SentOK
<1>5. QED
  BY <1>1, <1>2, <1>3, <1>4 DEF IInv

\* The janitor removes a directory that is empty, or leaves it.
LEMMA SweepDirKeepsInv == ASSUME IInv, SweepDir PROVE IInv'
<1>1. /\ dir' = WithoutDir /\ janitor' = "idle"
      /\ UNCHANGED <<chunks, handler, file, made, acked, told, sent>>
  BY DEF SweepDir, client
<1>2. DirOK' /\ AgesOK' /\ ChunksStay
  BY <1>1, WithoutDirStaysOK
<1>3. RestOK'
  BY <1>1 DEF IInv, RestOK
<1>4. QED
  BY <1>1, <1>2, <1>3, NobodysKeepsInv

\* Both ages grow together until the first that is too old.
LEMMA TickKeepsInv == ASSUME IInv, Tick PROVE IInv'
<1>1. /\ dir' = IF dir.there THEN [dir EXCEPT !.age = Older(@), !.idle = Older(@)] ELSE dir
      /\ UNCHANGED <<chunks, handler, janitor, file, made, acked, told, sent>>
  BY DEF Tick, client
<1>2. /\ DOMAIN dir' = DOMAIN dir /\ dir'.there = dir.there /\ dir'.meta = dir.meta
      /\ \/ dir'.age = dir.age /\ dir'.idle = dir.idle
         \/ dir'.age = Older(dir.age) /\ dir'.idle = Older(dir.idle)
  <2>1. CASE dir.there
    <3> DEFINE D == [dir EXCEPT !.age = Older(dir.age)]
    <3>1. /\ DOMAIN D = DOMAIN dir /\ D.there = dir.there /\ D.meta = dir.meta
          /\ D.age = Older(dir.age) /\ D.idle = dir.idle
      BY DEF IInv, DirOK
    <3>2. dir' = [D EXCEPT !.idle = Older(dir.idle)]
      BY <1>1, <2>1 DEF IInv, DirOK
    <3> HIDE DEF D
    <3>3. QED
      BY <3>1, <3>2 DEF IInv, DirOK
  <2>2. CASE ~ dir.there
    BY <1>1, <2>2
  <2>3. QED
    BY <2>1, <2>2
<1>3. DirOK' /\ ChunksStay
  BY <1>1, <1>2 DEF IInv, DirOK, ChunksStay
<1>4. AgesOK'
  BY <1>2, ChunkUploadAssumption DEF IInv, AgesOK, Older
<1>5. RestOK'
  BY <1>1 DEF IInv, RestOK
<1>6. QED
  BY <1>1, <1>3, <1>4, <1>5, NobodysKeepsInv

-----------------------------------------------------------------------------
(* Every step together, and the theorems.                                  *)

\* One case for each step of a handler.
LEMMA HandlerStepKeepsInv ==
    ASSUME IInv, NEW h \in Handler, Step(h)
    PROVE  IInv'
<1>1. CASE MakeDir(h) \/ TruncateMeta(h) \/ WriteMeta(h)
  BY <1>1, MkcolKeepsInv
<1>2. CASE Stat(h)
  BY <1>2, StatKeepsInv
<1>3. CASE Open(h)
  BY <1>3, OpenKeepsInv
<1>4. CASE Write(h)
  BY <1>4, WriteKeepsInv
<1>5. CASE WriteEnd(h)
  BY <1>5, WriteEndKeepsInv
<1>6. CASE WriteFail(h)
  BY <1>6, WriteFailKeepsInv
<1>7. CASE NotFound(h)
  BY <1>7, NotFoundKeepsInv
<1>8. CASE ReadMeta(h) \/ List(h) \/ ReadChunk(h)
  BY <1>8, ReadStepsRead, ReadsKeepsInv
<1>9. CASE NoMeta(h) \/ NoChunks(h) \/ ChunkGone(h) \/ NotPublished(h)
  BY <1>9, RejectKeepsInv DEF NoMeta, NoChunks, ChunkGone, NotPublished, At
<1>10. CASE Publish(h)
  BY <1>10, PublishKeepsInv
<1>11. CASE Clean(h)
  BY <1>11, CleanKeepsInv
<1>12. CASE RemoveDir(h)
  BY <1>12, RemoveDirKeepsInv
<1>13. QED
  BY <1>1, <1>2, <1>3, <1>4, <1>5, <1>6, <1>7, <1>8, <1>9, <1>10, <1>11, <1>12 DEF Step

\* The invariant is inductive.
LEMMA NextKeepsInv == ASSUME IInv, [Next]_vars PROVE IInv'
<1>1. CASE UNCHANGED vars
  <2>1. UNCHANGED <<dir, chunks, handler, janitor, file, made, acked, told, sent>>
    BY <1>1 DEF vars
  <2>2. DirOK' /\ AgesOK' /\ RestOK' /\ ChunksStay
    BY <2>1 DEF IInv, DirOK, AgesOK, RestOK, ChunksStay
  <2>3. QED
    BY <2>1, <2>2, NobodysKeepsInv
<1>2. ASSUME NEW h \in Handler, SendMkcol(h) \/ SendPut(h) \/ SendMove(h) PROVE IInv'
  BY <1>2, SendKeepsInv
<1>3. ASSUME NEW h \in Handler, GiveUp(h) PROVE IInv'
  BY <1>3, GiveUpKeepsInv
<1>4. ASSUME NEW h \in Handler, Step(h) PROVE IInv'
  BY <1>4, HandlerStepKeepsInv
<1>5. CASE Sweep
  BY <1>5, SweepKeepsInv
<1>6. CASE SweepDir
  BY <1>6, SweepDirKeepsInv
<1>7. CASE Tick
  BY <1>7, TickKeepsInv
<1>8. QED
  BY <1>1, <1>2, <1>3, <1>4, <1>5, <1>6, <1>7 DEF Next

\* The inductive invariant.
THEOREM Invariant == Spec => []IInv
<1>1. QED
  BY InitInv, NextKeepsInv, PTL DEF Spec

\* Type correctness, with nothing in a directory that is not there.
THEOREM TypeCorrect == Spec => []TypeOK
<1>1. IInv => TypeOK
  <2> SUFFICES ASSUME IInv PROVE TypeOK
    OBVIOUS
  <2>1. dir.age \in 0..MaxAge + 1 /\ dir.idle \in 0..dir.age /\ sent \in 0..MaxRequests
    BY DEF IInv, AgesOK, SentOK
  <2>2. dir.there \in BOOLEAN /\ dir.meta \in {"none", "empty", "ok"}
    BY DEF IInv, DirOK
  <2>3. ~ dir.there => dir.meta = "none" /\ DOMAIN chunks = {}
    BY DEF IInv, DirOK, ChunksOK
  <2>4. /\ DOMAIN chunks \subseteq Chunk /\ \A c \in DOMAIN chunks : chunks[c] \subseteq 1..Size[c]
        /\ \A h \in Handler : handler[h].linked => dir.there /\ handler[h].chunk \subseteq DOMAIN chunks
    BY DEF IInv, ChunksOK
  <2>5. QED
    BY <2>1, <2>2, <2>3, <2>4 DEF IInv, RestOK, TypeOK
<1>2. QED
  BY <1>1, Invariant, PTL

\* What a chunk lacks is still to be written by a PUT at work, in whatever order any
\* number of retries empty, overwrite and remove it.
THEOREM ChunksComplete == Spec => []MissingIsComing
<1>1. IInv => MissingIsComing
  BY DEF IInv
<1>2. QED
  BY <1>1, Invariant, PTL

\* A chunk that nobody is writing is complete: it has the blocks of the client's file.
AtRestWhole ==
    \A c \in DOMAIN chunks : (\A h \in Handler : ~ Writing(h, c)) => chunks[c] = 1..Size[c]
THEOREM ChunksAtRestAreWhole == Spec => []AtRestWhole
<1>1. IInv => AtRestWhole
  <2> SUFFICES ASSUME IInv, NEW c \in DOMAIN chunks, \A h \in Handler : ~ Writing(h, c)
               PROVE  chunks[c] = 1..Size[c]
    BY DEF AtRestWhole
  <2>1. chunks[c] \subseteq 1..Size[c]
    BY DEF IInv, ChunksOK
  <2>2. 1..Size[c] \ chunks[c] = {}
    BY DEF IInv, MissingIsComing
  <2>3. QED
    BY <2>1, <2>2
<1>2. QED
  BY <1>1, Invariant, PTL

\* The description of a session goes when its file is published or it is too old.
LEMMA DescriptionKept ==
    ASSUME IInv, [Next]_vars, dir.meta = "ok", dir'.meta = "none"
    PROVE  file # "none" \/ dir.age > MaxAge
<1>1. dir.there
  BY DEF IInv, DirOK
<1>2. dir' # dir
  OBVIOUS
<1>3. ASSUME NEW m, DOMAIN dir = {"there", "meta", "age", "idle"}
      PROVE  /\ Touched.meta = "ok" /\ Written.meta = "ok"
             /\ [Touched EXCEPT !.meta = m].meta = m /\ [Written EXCEPT !.meta = m].meta = m
             /\ [dir EXCEPT !.meta = m].meta = m
  BY <1>3 DEF Touched, Written
<1>4. DOMAIN dir = {"there", "meta", "age", "idle"}
  BY DEF IInv, DirOK
<1>5. ASSUME NEW h \in Handler, Step(h) PROVE file # "none"
  <2>1. CASE Clean(h) \/ RemoveDir(h)
    BY <2>1 DEF IInv, HandlerOK, Placed, Clean, RemoveDir, At
  <2>2. CASE MakeDir(h)
    BY <1>1, <1>2, <2>2 DEF MakeDir
  <2>3. CASE TruncateMeta(h)
    <3>1. dir' \in {[Touched EXCEPT !.meta = "empty"], [Written EXCEPT !.meta = "empty"]}
      BY <2>3 DEF TruncateMeta
    <3>2. QED
      BY <1>3, <1>4, <3>1
  <2>4. CASE WriteMeta(h)
    <3>1. dir' = dir
      BY <2>4 DEF WriteMeta
    <3>2. QED
      BY <1>2, <3>1
  <2>5. CASE Open(h) \/ Write(h) \/ WriteFail(h)
    <3>1. dir' \in {dir, Touched, Written}
      BY <2>5 DEF Open, Write, WriteFail
    <3>2. QED
      BY <1>3, <1>4, <3>1
  <2>6. CASE NoMeta(h) \/ NoChunks(h) \/ ChunkGone(h) \/ NotPublished(h)
    <3>1. dir' = [dir EXCEPT !.meta = dir.meta]
      BY <2>6 DEF NoMeta, NoChunks, ChunkGone, NotPublished, Reject, RejectAnd
    <3>2. QED
      BY <1>3, <1>4, <3>1
  <2>7. CASE Stat(h) \/ WriteEnd(h) \/ NotFound(h) \/ ReadMeta(h) \/ List(h) \/ ReadChunk(h) \/ Publish(h)
    BY <1>2, <2>7 DEF Stat, WriteEnd, NotFound, ReadMeta, List, ReadChunk, Publish
  <2>8. QED
    BY <1>5, <2>1, <2>2, <2>3, <2>4, <2>5, <2>6, <2>7 DEF Step
<1>6. ASSUME NEW h \in Handler, SendMkcol(h) \/ SendPut(h) \/ SendMove(h) \/ GiveUp(h) PROVE FALSE
  BY <1>2, <1>6 DEF SendMkcol, SendPut, SendMove, Send, GiveUp
<1>7. CASE Sweep
  BY <1>7 DEF Sweep
<1>8. CASE SweepDir
  BY <1>2, <1>8 DEF SweepDir, WithoutDir
<1>9. CASE Tick
  <2> DEFINE D == [dir EXCEPT !.age = Older(dir.age)]
  <2>1. D.meta = dir.meta /\ D.idle = dir.idle /\ DOMAIN D = DOMAIN dir
    BY <1>4
  <2>2. dir' = [D EXCEPT !.idle = Older(dir.idle)]
    BY <1>1, <1>4, <1>9 DEF Tick
  <2> HIDE DEF D
  <2>3. QED
    BY <1>4, <2>1, <2>2
<1>10. CASE UNCHANGED vars
  BY <1>2, <1>10 DEF vars
<1>11. QED
  BY <1>5, <1>6, <1>7, <1>8, <1>9, <1>10 DEF Next

\* A MOVE that fails costs the client nothing, whatever its retries do meanwhile.
THEOREM FailedMoveKeepsSession == Spec => SessionKept
<1>1. IInv /\ [Next]_vars => [dir.meta = "ok" /\ dir'.meta = "none" => file # "none" \/ dir.age > MaxAge]_vars
  BY DescriptionKept
<1>2. QED
  BY <1>1, Invariant, PTL DEF Spec, SessionKept
=============================================================================
