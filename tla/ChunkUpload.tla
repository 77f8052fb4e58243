----------------------------- MODULE ChunkUpload -----------------------------
(***************************************************************************)
(* One chunked upload (handlers/upload.go, cleanStaleUploads in main.go):  *)
(* MKCOL makes the session directory and its .meta file, PUT writes        *)
(* chunks, MOVE assembles them and publishes the result, the janitor       *)
(* removes directories left behind.  Nothing locks the session: a client   *)
(* that stops waiting for an answer and tries again has two handlers at    *)
(* work in it.  Every PUT of a chunk carries the same bytes.               *)
(*                                                                         *)
(* A chunk is the set of the byte blocks 1..Size[c] written so far: it is  *)
(* as long as its last block, and the blocks missing before that are holes.*)
(* Publishing is atomic here; DavTree has its steps.                       *)
(***************************************************************************)
EXTENDS Naturals, FiniteSetsExt

CONSTANTS Chunk, Size, Handler,
          MaxRequests,    \* bound: requests sent
          Checksum,       \* whether MOVE carries an OC-Checksum header
          MaxAge          \* staleUploadAge

ASSUME ChunkUploadAssumption ==
    /\ Size \in [Chunk -> Nat \ {0}]
    /\ MaxRequests \in Nat /\ Checksum \in BOOLEAN /\ MaxAge \in Nat

VARIABLES dir,       \* the session directory: [there, meta, age, idle], ages since its
                     \* modification time and since the session was last written to
          chunks,    \* blocks of each chunk in it
          handler,   \* what each request is doing
          janitor,   \* "idle", or "rmdir" while it removes the directory
          file,      \* the destination: "none", "whole" or "broken"
          made, acked, told,    \* what the client knows: MKCOL answered, chunks
                                \* answered, MOVE answered with success
          sent       \* requests sent

vars == <<dir, chunks, handler, janitor, file, made, acked, told, sent>>
client == <<made, acked, told>>

NoDir == [there |-> FALSE, meta |-> "none", age |-> 0, idle |-> 0]
Idle == [pc |-> "idle", kind |-> "none", chunk |-> {}, next |-> 1, linked |-> FALSE,
         waited |-> FALSE, todo |-> {}, got |-> [c \in {} |-> {}]]

Init ==
    /\ dir = NoDir
    /\ chunks = [c \in {} |-> {}]
    /\ handler = [h \in Handler |-> Idle]
    /\ janitor = "idle"
    /\ file = "none"
    /\ made = FALSE /\ acked = {} /\ told = FALSE
    /\ sent = 0

At(h, kind, pc) == handler[h].kind = kind /\ handler[h].pc = pc
Goto(h, pc) == handler' = [handler EXCEPT ![h].pc = pc]
End(h) == handler' = [handler EXCEPT ![h] = Idle]

\* Whether the client waits for an answer to a request of this kind for chunks S.
Waits(kind, S) == \E h \in Handler : handler[h].waited /\ handler[h].kind = kind /\ handler[h].chunk = S

\* An entry of the directory is made or removed; or a file in it is written.
Touched == [dir EXCEPT !.age = 0, !.idle = 0]
Written == [dir EXCEPT !.idle = 0]

\* Handlers that have chunks S open write to a file without a name from now on.
Unlink(S, H) == [h \in Handler |-> IF H[h].chunk \subseteq S THEN [H[h] EXCEPT !.linked = FALSE] ELSE H[h]]

-----------------------------------------------------------------------------
(* The client: MKCOL, PUT for each chunk, MOVE; it may stop waiting, and   *)
(* try again, at any time.                                                 *)

Send(h, kind, pc, S) ==
    /\ handler[h].pc = "idle" /\ sent < MaxRequests /\ ~ told
    /\ ~ Waits(kind, S)
    /\ sent' = sent + 1
    /\ handler' = [handler EXCEPT ![h] = [Idle EXCEPT !.kind = kind, !.pc = pc,
                                                      !.chunk = S, !.waited = TRUE]]
    /\ UNCHANGED <<dir, chunks, janitor, file, client>>

SendMkcol(h) == ~ made /\ Send(h, "MKCOL", "mkdir", {})
SendPut(h) == made /\ \E c \in Chunk \ acked : Send(h, "PUT", "stat", {c})
SendMove(h) == made /\ acked = Chunk /\ Send(h, "MOVE", "meta", {})

GiveUp(h) ==
    /\ handler[h].waited
    /\ handler' = [handler EXCEPT ![h].waited = FALSE]
    /\ UNCHANGED <<dir, chunks, janitor, file, client, sent>>

-----------------------------------------------------------------------------
(* handleDAVUploadMkcol.                                                   *)

MakeDir(h) ==
    /\ At(h, "MKCOL", "mkdir")
    /\ dir' = IF dir.there THEN dir ELSE [NoDir EXCEPT !.there = TRUE]
    /\ Goto(h, "meta")
    /\ UNCHANGED <<chunks, janitor, file, client, sent>>

\* os.WriteFile: the file is emptied first.
TruncateMeta(h) ==
    /\ At(h, "MKCOL", "meta") /\ dir.there
    /\ dir' = [(IF dir.meta = "none" THEN Touched ELSE Written) EXCEPT !.meta = "empty"]
    /\ Goto(h, "write")
    /\ UNCHANGED <<chunks, janitor, file, client, sent>>

WriteMeta(h) ==
    /\ At(h, "MKCOL", "write")
    /\ dir' = IF dir.there /\ dir.meta = "empty" THEN [Written EXCEPT !.meta = "ok"] ELSE dir
    /\ made' = (made \/ handler[h].waited)
    /\ End(h)
    /\ UNCHANGED <<chunks, janitor, file, acked, told, sent>>

-----------------------------------------------------------------------------
(* handleDAVUploadPut.                                                     *)

Stat(h) ==
    /\ At(h, "PUT", "stat") /\ dir.there
    /\ Goto(h, "open")
    /\ UNCHANGED <<dir, chunks, janitor, file, client, sent>>

\* O_CREATE|O_TRUNC
Open(h) ==
    /\ At(h, "PUT", "open") /\ dir.there
    /\ dir' = IF handler[h].chunk \subseteq DOMAIN chunks THEN Written ELSE Touched
    /\ chunks' = [c \in DOMAIN chunks \cup handler[h].chunk |->
                     IF c \in handler[h].chunk THEN {} ELSE chunks[c]]
    /\ handler' = [handler EXCEPT ![h].pc = "write", ![h].linked = TRUE]
    /\ UNCHANGED <<janitor, file, client, sent>>

\* io.Copy
Write(h) ==
    /\ At(h, "PUT", "write")
    /\ \E c \in handler[h].chunk :
          /\ handler[h].next <= Size[c]
          /\ handler' = [handler EXCEPT ![h].next = @ + 1]
          /\ IF handler[h].linked
             THEN /\ chunks' = [chunks EXCEPT ![c] = @ \cup {handler[h].next}]
                  /\ dir' = Written
             ELSE UNCHANGED <<chunks, dir>>
    /\ UNCHANGED <<janitor, file, client, sent>>

WriteEnd(h) ==
    /\ At(h, "PUT", "write")
    /\ \E c \in handler[h].chunk : handler[h].next > Size[c]
    /\ acked' = IF handler[h].waited THEN acked \cup handler[h].chunk ELSE acked
    /\ End(h)
    /\ UNCHANGED <<dir, chunks, janitor, file, made, told, sent>>

WriteFailAndKeep(h) ==    \* faulty variant: what has been written stays
    /\ At(h, "PUT", "write")
    /\ End(h)
    /\ UNCHANGED <<dir, chunks, janitor, file, client, sent>>

\* The connection breaks: whatever file has the chunk's name by now is removed.
WriteFail(h) ==
    /\ At(h, "PUT", "write")
    /\ LET gone == handler[h].chunk
       IN /\ chunks' = [c \in DOMAIN chunks \ gone |-> chunks[c]]
          /\ dir' = IF gone \subseteq DOMAIN chunks THEN Touched ELSE dir
          /\ handler' = Unlink(gone, [handler EXCEPT ![h] = Idle])
    /\ UNCHANGED <<janitor, file, client, sent>>

\* The directory is gone when a MKCOL or a PUT needs it.
NotFound(h) ==
    /\ ~ dir.there
    /\ At(h, "MKCOL", "meta") \/ At(h, "PUT", "stat") \/ At(h, "PUT", "open")
    /\ End(h)
    /\ UNCHANGED <<dir, chunks, janitor, file, client, sent>>

-----------------------------------------------------------------------------
(* handleDAVUploadMove.                                                    *)

\* An error answer; the session is kept, and the client starts again with its PUTs.
RejectAnd(h, entries, m) ==
    /\ acked' = IF handler[h].waited THEN {} ELSE acked
    /\ chunks' = entries
    /\ dir' = [dir EXCEPT !.meta = m]
    /\ End(h)
    /\ UNCHANGED <<janitor, file, made, told, sent>>
RejectAndClean(h) == RejectAnd(h, [c \in {} |-> {}], "none")    \* faulty variant
Reject(h) == RejectAnd(h, chunks, dir.meta)

ReadMeta(h) ==
    /\ At(h, "MOVE", "meta") /\ dir.meta = "ok"
    /\ Goto(h, "list")
    /\ UNCHANGED <<dir, chunks, janitor, file, client, sent>>

NoMeta(h) == At(h, "MOVE", "meta") /\ dir.meta # "ok" /\ Reject(h)

List(h) ==
    /\ At(h, "MOVE", "list") /\ chunks # [c \in {} |-> {}]
    /\ handler' = [handler EXCEPT ![h].pc = "read", ![h].todo = DOMAIN chunks]
    /\ UNCHANGED <<dir, chunks, janitor, file, client, sent>>

NoChunks(h) == At(h, "MOVE", "list") /\ chunks = [c \in {} |-> {}] /\ Reject(h)

\* Any order will do: the chunks are put together by name.
ReadChunk(h) ==
    /\ At(h, "MOVE", "read")
    /\ \E c \in handler[h].todo \cap DOMAIN chunks :
          handler' = [handler EXCEPT
              ![h].todo = @ \ {c},
              ![h].got = [d \in DOMAIN @ \cup {c} |-> IF d = c THEN chunks[c] ELSE @[d]]]
    /\ UNCHANGED <<dir, chunks, janitor, file, client, sent>>

ChunkGone(h) ==
    /\ At(h, "MOVE", "read") /\ ~ handler[h].todo \subseteq DOMAIN chunks
    /\ Reject(h)

Length(got) == FoldSet(LAMBDA c, n : n + Max({0} \cup got[c]), 0, DOMAIN got)
Total == FoldSet(LAMBDA c, n : n + Size[c], 0, Chunk)
Whole(got) == got = [c \in Chunk |-> 1..Size[c]]

\* assembledBytes = meta.TotalLength, and the SHA-1 sum if one is asked for.
LengthMatches(got) == Length(got) = Total
SumMatches(got) == Checksum => Whole(got)

Accepted(h) == handler[h].todo = {} /\ LengthMatches(handler[h].got) /\ SumMatches(handler[h].got)

\* publishFile, and os.RemoveAll begins: .meta and the chunks.
Publish(h) ==
    /\ At(h, "MOVE", "read") /\ Accepted(h)
    /\ file' = IF Whole(handler[h].got) THEN "whole" ELSE "broken"
    /\ Goto(h, "clean")
    /\ UNCHANGED <<dir, chunks, janitor, client, sent>>

\* The sizes or sums differ, or publishFile fails.
NotPublished(h) == At(h, "MOVE", "read") /\ handler[h].todo = {} /\ Reject(h)

\* os.RemoveAll(sessionDir): the entries, then the directory unless a PUT has made
\* another entry meanwhile.
Emptied(D) == [D EXCEPT !.meta = "none", !.age = 0, !.idle = 0]

Clean(h) ==
    /\ At(h, "MOVE", "clean")
    /\ chunks' = [c \in {} |-> {}]
    /\ dir' = IF dir.there THEN Emptied(dir) ELSE dir
    /\ handler' = Unlink(Chunk, [handler EXCEPT ![h].pc = "rmdir"])
    /\ UNCHANGED <<janitor, file, client, sent>>

WithChunks == IF dir.meta = "none" THEN NoDir ELSE dir    \* faulty variant
WithoutDir == IF chunks = [c \in {} |-> {}] /\ dir.meta = "none" THEN NoDir ELSE dir

\* The answer.
RemoveDir(h) ==
    /\ At(h, "MOVE", "rmdir")
    /\ dir' = WithoutDir
    /\ told' = (told \/ handler[h].waited)
    /\ End(h)
    /\ UNCHANGED <<chunks, janitor, file, made, acked, sent>>

-----------------------------------------------------------------------------
(* cleanStaleUploads.                                                      *)

SweepYoung ==    \* faulty variant: the comparison is turned round
    /\ janitor = "idle" /\ dir.there /\ dir.age < MaxAge
    /\ chunks' = [c \in {} |-> {}]
    /\ dir' = Emptied(dir)
    /\ handler' = Unlink(Chunk, handler)
    /\ janitor' = "rmdir"
    /\ UNCHANGED <<file, client, sent>>

Sweep ==
    /\ janitor = "idle" /\ dir.there /\ dir.age > MaxAge
    /\ chunks' = [c \in {} |-> {}]
    /\ dir' = Emptied(dir)
    /\ handler' = Unlink(Chunk, handler)
    /\ janitor' = "rmdir"
    /\ UNCHANGED <<file, client, sent>>

SweepDir ==
    /\ janitor = "rmdir"
    /\ dir' = WithoutDir
    /\ janitor' = "idle"
    /\ UNCHANGED <<chunks, handler, file, client, sent>>

\* Ages are counted up to the first one that is too old.
Older(n) == IF n > MaxAge THEN n ELSE n + 1
Tick ==
    /\ dir' = IF dir.there THEN [dir EXCEPT !.age = Older(@), !.idle = Older(@)] ELSE dir
    /\ UNCHANGED <<chunks, handler, janitor, file, client, sent>>

Step(h) ==
    \/ MakeDir(h) \/ TruncateMeta(h) \/ WriteMeta(h)
    \/ Stat(h) \/ Open(h) \/ Write(h) \/ WriteEnd(h) \/ WriteFail(h) \/ NotFound(h)
    \/ ReadMeta(h) \/ NoMeta(h) \/ List(h) \/ NoChunks(h) \/ ReadChunk(h) \/ ChunkGone(h)
    \/ Publish(h) \/ NotPublished(h) \/ Clean(h) \/ RemoveDir(h)

Next ==
    \/ \E h \in Handler : SendMkcol(h) \/ SendPut(h) \/ SendMove(h) \/ GiveUp(h) \/ Step(h)
    \/ Sweep \/ SweepDir \/ Tick

Spec == Init /\ [][Next]_vars

\* Handlers run on, time passes and the janitor comes round.
Fairness == (\A h \in Handler : WF_vars(Step(h))) /\ WF_vars(Tick) /\ WF_vars(Sweep) /\ WF_vars(SweepDir)

FairSpec == Spec /\ Fairness

-----------------------------------------------------------------------------
\* Type invariant; without a directory nothing is in it.
TypeOK ==
    /\ dir.there \in BOOLEAN /\ dir.meta \in {"none", "empty", "ok"}
    /\ dir.age \in 0..MaxAge + 1 /\ dir.idle \in 0..dir.age
    /\ DOMAIN chunks \subseteq Chunk /\ \A c \in DOMAIN chunks : chunks[c] \subseteq 1..Size[c]
    /\ \A h \in Handler : handler[h].linked => dir.there /\ handler[h].chunk \subseteq DOMAIN chunks
    /\ janitor \in {"idle", "rmdir"} /\ file \in {"none", "whole", "broken"}
    /\ made \in BOOLEAN /\ told \in BOOLEAN /\ acked \subseteq Chunk /\ sent \in 0..MaxRequests
    /\ ~ dir.there => dir.meta = "none" /\ DOMAIN chunks = {}

\* What a chunk lacks is still to be written by a PUT at work: whatever retries have
\* emptied, overwritten or removed it meanwhile, a chunk that nobody is writing is
\* complete.  The size that MOVE compares tells complete chunks from missing ones and
\* no more; this is why it will do for a client that does not overtake itself.
Writing(h, c) == At(h, "PUT", "write") /\ handler[h].chunk = {c} /\ handler[h].linked
MissingIsComing ==
    \A c \in DOMAIN chunks : \A i \in 1..Size[c] \ chunks[c] :
        \E h \in Handler : Writing(h, c) /\ handler[h].next <= i

\* What is published is the client's file.  It is so with a checksum only: a PUT the
\* client has given up may empty a chunk while its retry writes it, and leave a hole
\* in a chunk of the right length.
PublishedWhole == file # "broken"

\* A MOVE that fails costs the client nothing: the session's description goes only
\* when the file has been published, or the session is too old.
SessionKept ==
    [][dir.meta = "ok" /\ dir'.meta = "none" => file # "none" \/ dir.age > MaxAge]_vars

\* Only "session directories that have not been touched within maxAge" are removed by
\* the janitor.
OnlyStaleSwept == [][janitor = "idle" /\ janitor' = "rmdir" => dir.idle > MaxAge]_vars

\* No session directory stays forever, whatever the client leaves undone.
NoLeak == dir.there ~> ~ dir.there
=============================================================================
