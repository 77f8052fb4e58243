---------------------------- MODULE PreviewQueue ----------------------------
(***************************************************************************)
(* The preview service (app/preview.go): a set of queued file ids, kept in *)
(* memory under a mutex and saved to queue.json, and one worker that makes *)
(* the thumbnails of one file after the other.                             *)
(*                                                                         *)
(* Version v of a file has content v.  An upload puts its content on disk  *)
(* first and commits the row after (publishFile); the worker reads the row *)
(* first and opens the file after, without the lock of the path.  Its four *)
(* thumbnail sizes are one here.                                           *)
(***************************************************************************)
EXTENDS Naturals, FiniteSets

CONSTANTS File,          \* file ids
          MaxVersion,    \* bound on the versions of any file, ...
          Uploads,       \* ... and of each
          MaxStarts,     \* bound on the number of times the server starts
          FaultSets      \* sets of faults; a behaviour meets those of one of them

Version == 1..MaxVersion
NoVersion == 0                 \* no row yet, or no file on disk
Deleted == MaxVersion + 1      \* a new file gets a new id

ASSUME PreviewAssumption ==
    /\ MaxVersion \in Nat /\ Uploads \in [File -> 0..MaxVersion] /\ MaxStarts \in Nat \ {0}
    /\ FaultSets \subseteq SUBSET {"save", "stop", "kill", "database", "tool"}

VARIABLES row,        \* the committed version of each file
          disk,       \* the content under its name
          asking,     \* files for which a request is about to call enqueueMany
          adding,     \* enqueueMany holds s.mu and has yet to save the queue
          queued,     \* s.queued
          saved,      \* queue.json
          wake,       \* a token is in the channel s.wake (capacity 1)
          pc,         \* the worker: run, generateQueued
          current,    \* the file it works on, with the version it has read
          thumbs,     \* thumbnails: which content is stored for which version
          stopping,   \* the service's context is cancelled
          starts,     \* number of times the server has started
          faults      \* the faults this behaviour may meet, chosen at its start

vars == <<row, disk, asking, adding, queued, saved, wake, pc, current, thumbs,
          stopping, starts, faults>>
files == <<row, disk>>
requests == <<asking, adding>>
service == <<queued, saved, wake>>
worker == <<pc, current, thumbs>>
process == <<stopping, starts, faults>>

NoFile == [file |-> "none", version |-> NoVersion]

Init ==
    /\ row = [f \in File |-> NoVersion]
    /\ disk = [f \in File |-> NoVersion]
    /\ asking = {} /\ adding = FALSE
    /\ queued = {} /\ saved = {} /\ wake = FALSE
    /\ pc = "waiting" /\ current = NoFile /\ thumbs = {}
    /\ stopping = FALSE /\ starts = 1
    /\ faults \in FaultSets

-----------------------------------------------------------------------------
\* Nobody holds s.mu: enqueueMany, complete and fail keep it while they change the
\* queue and save it.
Free == ~ adding /\ pc # "saving"

\* enqueueMany for one file: one that is already queued is left alone, ...
Enqueue(f) ==
    /\ f \in asking /\ Free
    /\ asking' = asking \ {f}
    /\ queued' = queued \cup {f}
    /\ adding' = (f \notin queued)
    /\ UNCHANGED <<files, saved, wake, worker, process>>

\* ... any other is saved with the rest; when queue.json cannot be written the file
\* stays queued but nobody is woken.
SaveAdded ==
    /\ adding /\ adding' = FALSE
    /\ \/ saved' = queued /\ wake' = TRUE
       \/ "save" \in faults /\ UNCHANGED <<saved, wake>>
    /\ UNCHANGED <<files, asking, queued, worker, process>>

\* An upload or a DELETE moves the file aside, ...
Save(f) ==
    /\ row[f] \in Version /\ disk[f] = row[f]
    /\ disk' = [disk EXCEPT ![f] = NoVersion]
    /\ UNCHANGED <<row, requests, service, worker, process>>

\* ... the upload renames its content into place, ...
Place(f) ==
    /\ disk[f] = NoVersion /\ row[f] < Uploads[f]
    /\ disk' = [disk EXCEPT ![f] = row[f] + 1]
    /\ UNCHANGED <<row, requests, service, worker, process>>

\* ... commits its row and asks for a preview,
Commit(f) ==
    /\ disk[f] = row[f] + 1
    /\ row' = [row EXCEPT ![f] = disk[f]]
    /\ asking' = asking \cup {f}
    /\ UNCHANGED <<disk, adding, service, worker, process>>

AbortCommitted(f) ==    \* faulty variant: the content is undone, the row is not
    /\ disk[f] = row[f] + 1
    /\ row' = [row EXCEPT ![f] = disk[f]]
    /\ disk' = [disk EXCEPT ![f] = row[f]]
    /\ UNCHANGED <<requests, service, worker, process>>

\* ... or fails and puts the old content back.
Abort(f) ==
    /\ disk[f] # row[f]
    /\ disk' = [disk EXCEPT ![f] = row[f]]
    /\ UNCHANGED <<row, requests, service, worker, process>>

\* DELETE commits.
Delete(f) ==
    /\ row[f] \in Version /\ disk[f] = NoVersion
    /\ row' = [row EXCEPT ![f] = Deleted]
    /\ disk' = [disk EXCEPT ![f] = Deleted]
    /\ UNCHANGED <<requests, service, worker, process>>

Current(f) == \E t \in thumbs : t.file = f /\ t.version = row[f]

\* PreviewService.Get for a version without thumbnail asks for it again.
Get(f) ==
    /\ row[f] \in Version /\ ~ Current(f)
    /\ f \notin asking
    /\ asking' = asking \cup {f}
    /\ UNCHANGED <<files, adding, service, worker, process>>

-----------------------------------------------------------------------------
\* run: the worker sleeps until it is woken or 30 seconds have passed.
Wake ==
    /\ pc = "waiting" /\ wake
    /\ wake' = FALSE
    /\ pc' = "picking"
    /\ UNCHANGED <<files, requests, queued, saved, current, thumbs, process>>

TimeoutNever ==    \* faulty variant: no timer beside the channel
    /\ FALSE
    /\ UNCHANGED vars

Timeout ==
    /\ pc = "waiting"
    /\ pc' = "picking"
    /\ UNCHANGED <<files, requests, service, current, thumbs, process>>

\* The context is cancelled while the worker sleeps.
Leave ==
    /\ pc = "waiting" /\ stopping
    /\ pc' = "off"
    /\ UNCHANGED <<files, requests, service, current, thumbs, process>>

PeekAndPop ==    \* faulty variant: the file leaves the queue when it is picked
    /\ pc = "picking" /\ queued # {}
    /\ pc' = "loading"
    /\ \E f \in queued : /\ current' = [file |-> f, version |-> NoVersion]
                         /\ queued' = queued \ {f}
    /\ UNCHANGED <<files, requests, saved, wake, thumbs, process>>

\* peek
Peek ==
    /\ pc = "picking" /\ Free
    /\ IF queued = {}
       THEN pc' = "waiting" /\ UNCHANGED current
       ELSE /\ pc' = "loading"
            /\ \E f \in queued : current' = [file |-> f, version |-> NoVersion]
    /\ UNCHANGED <<files, requests, service, thumbs, process>>

\* generateQueued returns to run.
Done == pc' = "done" /\ current' = [current EXCEPT !.version = NoVersion]

\* getFile: the query fails when there is no row, when the context has been
\* cancelled and when the database cannot answer; all count as "not found".
Load ==
    /\ pc = "loading"
    /\ \/ /\ ~ stopping /\ row[current.file] \in Version
          /\ current' = [current EXCEPT !.version = row[current.file]]
          /\ pc' = "generating"
       \/ /\ stopping \/ row[current.file] = Deleted \/ "database" \in faults
          /\ Done
    /\ UNCHANGED <<files, requests, service, thumbs, process>>

\* generate opens the file and makes the thumbnail of the version it has read.
Generate ==
    /\ pc = "generating" /\ ~ stopping /\ disk[current.file] \in Version
    /\ thumbs' = thumbs \cup {[file |-> current.file, version |-> current.version,
                               content |-> disk[current.file]]}
    /\ Done
    /\ UNCHANGED <<files, requests, service, process>>

\* No tool for this file, no file under its name, or the tool fails.
Skip ==
    /\ pc = "generating"
    /\ disk[current.file] \notin Version \/ "tool" \in faults
    /\ Done
    /\ UNCHANGED <<files, requests, service, thumbs, process>>

DequeueUnsaved ==    \* faulty variant: queue.json is only written by enqueueMany
    /\ pc = "done" /\ Free
    /\ queued' = queued \ {current.file}
    /\ pc' = "picking"
    /\ current' = NoFile
    /\ UNCHANGED <<files, requests, saved, wake, thumbs, process>>

\* complete and fail: the file leaves the queue, ...
Dequeue ==
    /\ pc = "done" /\ Free
    /\ queued' = queued \ {current.file}
    /\ pc' = "saving"
    /\ UNCHANGED <<files, requests, saved, wake, current, thumbs, process>>

\* ... and the rest is saved; an error is ignored.
SaveRest ==
    /\ pc = "saving"
    /\ saved' = queued \/ ("save" \in faults /\ UNCHANGED saved)
    /\ pc' = "picking"
    /\ current' = NoFile
    /\ UNCHANGED <<files, requests, queued, wake, thumbs, process>>

\* The context is cancelled while a thumbnail is made: the file stays queued.
GiveUp ==
    /\ pc = "generating" /\ stopping
    /\ pc' = "off"
    /\ current' = NoFile
    /\ UNCHANGED <<files, requests, service, thumbs, process>>

-----------------------------------------------------------------------------
\* A signal: requests in progress may still finish, the worker winds up.
Shutdown ==
    /\ "stop" \in faults /\ ~ stopping
    /\ stopping' = TRUE
    /\ UNCHANGED <<files, requests, service, worker, starts, faults>>

\* The process ends, at any moment, and starts again: requests are gone, and
\* NewPreviewService loads queue.json.  Uploads that were not committed are not undone here.
Restart ==
    /\ faults \cap {"stop", "kill"} # {} /\ starts < MaxStarts
    /\ starts' = starts + 1
    /\ stopping' = FALSE
    /\ asking' = {} /\ adding' = FALSE
    /\ queued' = saved
    /\ wake' = FALSE
    /\ pc' = "waiting" /\ current' = NoFile
    /\ UNCHANGED <<files, saved, thumbs, faults>>

\* The worker has returned and the process is about to end.
Stopped ==
    /\ pc = "off"
    /\ UNCHANGED vars

Next ==
    \/ \E f \in File : Save(f) \/ Place(f) \/ Commit(f) \/ Abort(f) \/ Delete(f) \/ Get(f)
    \/ (\E f \in File : Enqueue(f)) \/ SaveAdded
    \/ Wake \/ Timeout \/ Leave \/ Peek \/ Load \/ Generate \/ Skip \/ Dequeue \/ SaveRest
    \/ GiveUp \/ Shutdown \/ Restart \/ Stopped

Spec == Init /\ [][Next]_vars

\* The worker runs as long as the process does; it takes the first file of a Go
\* map, whose order is random, so that none is passed over forever; who waits for
\* s.mu gets it (Go's mutex hands itself to one that has waited); a client that
\* shows a file asks for its preview again and again; an upload ends.
Fairness ==
    /\ WF_vars(Wake \/ Peek \/ Load \/ Generate \/ Skip \/ Dequeue \/ SaveRest \/ GiveUp
                \/ Leave \/ SaveAdded)
    /\ WF_vars(Timeout)
    /\ \A f \in File : SF_vars((f \notin queued /\ Enqueue(f)) \/ (Peek /\ current'.file = f))
    /\ \A f \in File : WF_vars(Get(f)) /\ WF_vars(Commit(f) \/ Abort(f) \/ Delete(f))

FairSpec == Spec /\ Fairness

-----------------------------------------------------------------------------
\* Type invariant, with the place of the worker: it is in a file only while
\* that file is queued, and one only of worker and requests holds the mutex.
TypeOK ==
    /\ row \in [File -> Version \cup {NoVersion, Deleted}]
    /\ \A f \in File : disk[f] \in {row[f], NoVersion, row[f] + 1}
    /\ asking \subseteq File /\ adding \in BOOLEAN
    /\ queued \subseteq File /\ saved \subseteq File /\ wake \in BOOLEAN
    /\ pc \in {"waiting", "picking", "loading", "generating", "done", "saving", "off"}
    /\ pc \in {"loading", "generating", "done"} => current.file \in queued
    /\ ~ (adding /\ pc = "saving")
    /\ pc = "generating" => current.version \in Version
    /\ thumbs \subseteq [file : File, version : Version, content : Version]
    /\ stopping \in BOOLEAN /\ starts \in 1..MaxStarts

\* A thumbnail kept for a version never shows an older one: reading the row
\* before the file is enough, although uploads are not locked out.
ThumbNotOlder == \A t \in thumbs : t.content >= t.version

\* A process that ends at any moment, between a change of the queue and its save
\* too, loses no request that has been answered and repeats no work but the last:
\* what queue.json lacks is being added, and what it has in excess is the file the
\* worker is done with (as long as it can be written).
QueueSaved ==
    "save" \notin faults =>
        /\ queued # saved => ~ Free
        /\ adding => saved \subseteq queued
        /\ pc = "saving" => queued = saved \ {current.file}

\* A client that keeps asking for the preview of a file that no longer changes,
\* and that the tools and the database can serve,
\* gets it, although an upload's request is swallowed while the worker is busy
\* with the version before, and although nobody is woken after a restart.
PreviewMade ==
    faults \subseteq {"save", "stop", "kill"} =>
        \A f \in File : <>[](row[f] \in Version /\ disk[f] = row[f] /\ ~ stopping) => []<>Current(f)

\* What the comment in run promises for a shutdown ("leave the file queued so it
\* is retried next start"): a file that is still wanted keeps its place.
ShutdownKeepsQueue ==
    [][\A f \in File : stopping /\ f \in saved /\ row[f] \in Version /\ ~ Current(f)
          => f \in saved']_vars
=============================================================================
