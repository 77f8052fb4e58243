-------------------------- MODULE PreviewQueueProofs --------------------------
(***************************************************************************)
(* Proofs about PreviewQueue, for every set of files, any number of        *)
(* versions and starts and every set of faults: type correctness, no       *)
(* thumbnail older than its version, and nothing queued that queue.json    *)
(* does not list once the mutex is given back.                             *)
(***************************************************************************)
EXTENDS PreviewQueue, TLAPS

(***************************************************************************)
(* The inductive invariant.  ThumbNotOlder is about thumbnails that exist; *)
(* it rests on where the worker and the uploads are with the others.       *)
(***************************************************************************)

\* The name of a file shows its committed version, nothing, or the version an
\* upload is about to commit.
DiskNear ==
    \A f \in File : disk[f] = row[f] + 1 => row[f] < MaxVersion

\* The version the worker has read was committed before.
ReadCommitted ==
    pc = "generating" => current.version <= row[current.file]

IInv ==
    /\ TypeOK
    /\ disk \in [File -> Nat]
    /\ current \in [file : File \cup {NoFile.file}, version : Version \cup {NoVersion}]
    /\ DiskNear
    /\ ReadCommitted
    /\ ThumbNotOlder
    /\ QueueSaved

-----------------------------------------------------------------------------
\* No file, no thumbnail and an empty queue satisfy the invariant.
LEMMA InitInvariant == Init => IInv
<1> SUFFICES ASSUME Init PROVE IInv
  OBVIOUS
<1>1. TypeOK /\ disk \in [File -> Nat]
  <2>1. row \in [File -> Version \cup {NoVersion, Deleted}] /\ disk \in [File -> Nat]
    BY DEF Init, NoVersion
  <2>2. \A f \in File : disk[f] = row[f]
    BY DEF Init
  <2>3. starts \in 1..MaxStarts
    BY PreviewAssumption DEF Init
  <2>4. stopping \in BOOLEAN /\ wake \in BOOLEAN
    BY DEF Init
  <2>5. /\ queued = {} /\ saved = {} /\ thumbs = {} /\ pc = "waiting"
        /\ asking = {} /\ adding = FALSE
    BY DEF Init
  <2>6. QED
    BY <2>1, <2>2, <2>3, <2>4, <2>5 DEF TypeOK
<1>2. current \in [file : File \cup {NoFile.file}, version : Version \cup {NoVersion}]
  BY DEF Init, NoFile
<1>3. DiskNear
  BY PreviewAssumption DEF Init, DiskNear, NoVersion
<1>4. ReadCommitted /\ ThumbNotOlder /\ QueueSaved
  BY DEF Init, ReadCommitted, ThumbNotOlder, QueueSaved
<1>5. QED
  BY <1>1, <1>2, <1>3, <1>4 DEF IInv

\* Steps of uploads and DELETEs: a row only grows, and its name shows the row's
\* version, nothing, or the next version.
LEMMA FileStepInvariant ==
    ASSUME IInv, NEW f \in File, NEW v, NEW d,
           row' = [row EXCEPT ![f] = v], disk' = [disk EXCEPT ![f] = d],
           v \in 0..MaxVersion + 1, row[f] <= v,
           d \in {v, 0, v + 1}, d = v + 1 => v < MaxVersion,
           asking' \subseteq File, adding' = adding,
           UNCHANGED service, UNCHANGED worker, UNCHANGED process
    PROVE  IInv'
<1>1. /\ row' \in [File -> Version \cup {NoVersion, Deleted}]
      /\ \A g \in File : row[g] <= row'[g]
  BY PreviewAssumption DEF IInv, TypeOK, Version, NoVersion, Deleted
<1>2. /\ \A g \in File : disk'[g] \in {row'[g], NoVersion, row'[g] + 1}
      /\ DiskNear'
      /\ disk' \in [File -> Nat]
  BY PreviewAssumption DEF IInv, TypeOK, DiskNear, Version, NoVersion, Deleted
<1>3. TypeOK'
  BY <1>1, <1>2 DEF service, worker, process, IInv, TypeOK
<1>4. ReadCommitted'
  <2>1. ASSUME pc' = "generating" PROVE current'.version <= row'[current'.file]
    <3>1. current' = current /\ current.file \in File /\ current.version <= row[current.file]
      BY <2>1 DEF worker, IInv, TypeOK, ReadCommitted
    <3>2. current.version \in Nat /\ row[current.file] \in Nat /\ row'[current.file] \in Nat
      BY <1>1, <3>1, PreviewAssumption DEF IInv, TypeOK, Version, NoVersion, Deleted
    <3>3. QED
      BY <1>1, <3>1, <3>2
  <2>2. QED
    BY <2>1 DEF ReadCommitted
<1>5. QueueSaved'
  BY DEF service, worker, process, IInv, QueueSaved, Free
<1>6. QED
  BY <1>2, <1>3, <1>4, <1>5 DEF worker, IInv, ThumbNotOlder

\* Uploads, DELETEs and clients that show a file preserve the invariant.
LEMMA HandlerInvariant ==
    ASSUME IInv, NEW f \in File,
           Save(f) \/ Place(f) \/ Commit(f) \/ Abort(f) \/ Delete(f) \/ Get(f)
    PROVE  IInv'
<1>1. /\ MaxVersion \in Nat
      /\ row \in [File -> Nat] /\ disk \in [File -> Nat] /\ row[f] \in 0..MaxVersion + 1
      /\ disk[f] \in {row[f], 0, row[f] + 1}
      /\ disk[f] = row[f] + 1 => row[f] < MaxVersion
  BY PreviewAssumption DEF IInv, TypeOK, DiskNear, Version, NoVersion, Deleted
<1>2. asking \subseteq File
  BY DEF IInv, TypeOK
<1>3. CASE Save(f)
  <2>1. row' = [row EXCEPT ![f] = row[f]] /\ disk' = [disk EXCEPT ![f] = 0]
    BY <1>1, <1>3 DEF Save, NoVersion
  <2>2. /\ UNCHANGED requests /\ UNCHANGED service
        /\ UNCHANGED worker /\ UNCHANGED process
    BY <1>3 DEF Save
  <2>3. row[f] <= row[f] /\ (0 = row[f] + 1 => row[f] < MaxVersion)
    BY <1>1
  <2>4. QED
    BY <1>1, <1>2, <2>1, <2>2, <2>3, FileStepInvariant DEF requests
<1>4. CASE Place(f)
  <2>1. row' = [row EXCEPT ![f] = row[f]] /\ disk' = [disk EXCEPT ![f] = row[f] + 1]
    BY <1>1, <1>4 DEF Place
  <2>2. /\ UNCHANGED requests /\ UNCHANGED service
        /\ UNCHANGED worker /\ UNCHANGED process
    BY <1>4 DEF Place
  <2>3. row[f] <= row[f] /\ row[f] < MaxVersion
    <3>1. Uploads[f] \in 0..MaxVersion
      BY PreviewAssumption
    <3>2. row[f] < Uploads[f]
      BY <1>4 DEF Place
    <3>3. QED
      BY <1>1, <3>1, <3>2
  <2>4. QED
    BY <1>1, <1>2, <2>1, <2>2, <2>3, FileStepInvariant DEF requests
<1>5. CASE Commit(f)
  <2>1. row' = [row EXCEPT ![f] = disk[f]] /\ disk' = [disk EXCEPT ![f] = disk[f]]
    BY <1>1, <1>5 DEF Commit
  <2>2. asking' \subseteq File /\ adding' = adding /\ UNCHANGED service
    BY <1>2, <1>5 DEF Commit
  <2>3. UNCHANGED worker /\ UNCHANGED process
    BY <1>5 DEF Commit
  <2>4. row[f] <= disk[f] /\ disk[f] \in 0..MaxVersion + 1 /\ disk[f] # disk[f] + 1
    BY <1>1, <1>5 DEF Commit
  <2>5. QED
    BY <2>1, <2>2, <2>3, <2>4, FileStepInvariant
<1>6. CASE Abort(f)
  <2>1. row' = [row EXCEPT ![f] = row[f]] /\ disk' = [disk EXCEPT ![f] = row[f]]
    BY <1>1, <1>6 DEF Abort
  <2>2. /\ UNCHANGED requests /\ UNCHANGED service
        /\ UNCHANGED worker /\ UNCHANGED process
    BY <1>6 DEF Abort
  <2>3. row[f] <= row[f] /\ row[f] # row[f] + 1
    BY <1>1
  <2>4. QED
    BY <1>1, <1>2, <2>1, <2>2, <2>3, FileStepInvariant DEF requests
<1>7. CASE Delete(f)
  <2>1. row' = [row EXCEPT ![f] = MaxVersion + 1] /\ disk' = [disk EXCEPT ![f] = MaxVersion + 1]
    BY <1>7 DEF Delete, Deleted
  <2>2. /\ UNCHANGED requests /\ UNCHANGED service
        /\ UNCHANGED worker /\ UNCHANGED process
    BY <1>7 DEF Delete
  <2>3. /\ MaxVersion + 1 \in 0..MaxVersion + 1 /\ row[f] <= MaxVersion + 1
        /\ MaxVersion + 1 # MaxVersion + 1 + 1
    BY <1>1
  <2>4. QED
    BY <1>2, <2>1, <2>2, <2>3, FileStepInvariant DEF requests
<1>8. CASE Get(f)
  <2>1. row' = [row EXCEPT ![f] = row[f]] /\ disk' = [disk EXCEPT ![f] = disk[f]]
    BY <1>1, <1>8 DEF Get, files
  <2>2. asking' \subseteq File /\ adding' = adding /\ UNCHANGED service
    BY <1>2, <1>8 DEF Get
  <2>3. UNCHANGED worker /\ UNCHANGED process
    BY <1>8 DEF Get
  <2>4. row[f] <= row[f]
    BY <1>1
  <2>5. QED
    BY <1>1, <2>1, <2>2, <2>3, <2>4, FileStepInvariant
<1>9. QED
  BY <1>3, <1>4, <1>5, <1>6, <1>7, <1>8

\* Steps that touch no file: what they have to leave in order.
LEMMA ServiceStepInvariant ==
    ASSUME IInv, UNCHANGED files, faults' = faults,
           asking' \subseteq File, adding' \in BOOLEAN,
           queued' \subseteq File, saved' \subseteq File, wake' \in BOOLEAN,
           pc' \in {"waiting", "picking", "loading", "generating", "done", "saving", "off"},
           ~ (adding' /\ pc' = "saving"),
           current' \in [file : File \cup {NoFile.file}, version : Version \cup {NoVersion}],
           pc' \in {"loading", "generating", "done"} => current'.file \in queued',
           pc' = "generating" => current'.version \in Version
                                 /\ current'.version <= row[current'.file],
           thumbs' \subseteq [file : File, version : Version, content : Version],
           ThumbNotOlder', QueueSaved',
           stopping' \in BOOLEAN, starts' \in 1..MaxStarts
    PROVE  IInv'
<1>1. TypeOK'
  BY DEF files, IInv, TypeOK
<1>2. ReadCommitted'
  BY DEF files, ReadCommitted
<1>3. QED
  BY <1>1, <1>2 DEF files, IInv, DiskNear

\* Steps of the worker that leave the queue alone.
LEMMA WorkerStepInvariant ==
    ASSUME IInv, UNCHANGED files, UNCHANGED requests, UNCHANGED process,
           queued' = queued, saved' = saved, wake' \in BOOLEAN,
           pc # "saving", pc' \in {"waiting", "picking", "loading", "generating", "done", "off"},
           current' \in [file : File \cup {NoFile.file}, version : Version \cup {NoVersion}],
           pc' \in {"loading", "generating", "done"} => current'.file \in queued,
           pc' = "generating" => current'.version \in Version
                                 /\ current'.version <= row[current'.file],
           thumbs' \subseteq [file : File, version : Version, content : Version],
           ThumbNotOlder'
    PROVE  IInv'
<1>1. QueueSaved'
  BY DEF requests, process, IInv, QueueSaved, Free
<1>2. /\ asking' \subseteq File /\ adding' \in BOOLEAN
      /\ queued' \subseteq File /\ saved' \subseteq File
      /\ stopping' \in BOOLEAN /\ starts' \in 1..MaxStarts /\ faults' = faults
  BY DEF requests, process, IInv, TypeOK
<1>3. QED
  BY <1>1, <1>2, ServiceStepInvariant

\* A request adds a file to the queue and saves it, holding the mutex in between.
LEMMA RequestInvariant ==
    ASSUME IInv, SaveAdded \/ \E f \in File : Enqueue(f)
    PROVE  IInv'
<1>1. /\ UNCHANGED files /\ UNCHANGED worker /\ UNCHANGED process
      /\ asking' \subseteq File /\ adding' \in BOOLEAN /\ wake' \in BOOLEAN
      /\ queued \subseteq queued' /\ queued' \subseteq File /\ saved' \subseteq File
  BY DEF SaveAdded, Enqueue, IInv, TypeOK
<1>2. ~ (adding' /\ pc' = "saving")
  BY DEF SaveAdded, Enqueue, Free, worker
<1>3. QueueSaved'
  <2>1. CASE SaveAdded
    <3>1. pc' # "saving" /\ ~ adding'
      BY <2>1 DEF SaveAdded, worker, IInv, TypeOK
    <3>2. "save" \notin faults => queued' = saved'
      BY <2>1 DEF SaveAdded
    <3>3. QED
      BY <3>1, <3>2, <1>1 DEF process, QueueSaved
  <2>2. CASE \E f \in File : Enqueue(f)
    <3>1. PICK f \in File : Enqueue(f)
      BY <2>2
    <3>2. /\ Free /\ saved' = saved /\ pc' = pc /\ faults' = faults
          /\ queued' = queued \cup {f} /\ adding' = (f \notin queued)
      BY <3>1 DEF Enqueue, worker, process
    <3>3. pc' # "saving"
      BY <3>2 DEF Free
    <3>4. "save" \notin faults => queued = saved
      BY <3>2 DEF IInv, QueueSaved
    <3>5. CASE f \in queued
      <4>1. queued' = queued
        BY <3>2, <3>5
      <4>2. ~ adding'
        BY <3>2, <3>5
      <4>3. QED
        BY <3>2, <3>3, <3>4, <4>1, <4>2 DEF QueueSaved
    <3>6. CASE f \notin queued
      <4>1. adding'
        BY <3>2, <3>6
      <4>2. ~ Free' /\ ("save" \notin faults => saved' \subseteq queued')
        BY <3>2, <3>4, <4>1 DEF Free
      <4>3. QED
        BY <3>2, <3>3, <4>1, <4>2 DEF QueueSaved
    <3>7. QED
      BY <3>5, <3>6
  <2>3. QED
    BY <2>1, <2>2
<1>4. /\ pc \in {"waiting", "picking", "loading", "generating", "done", "saving", "off"}
      /\ pc \in {"loading", "generating", "done"} => current.file \in queued
      /\ pc = "generating" => current.version \in Version
                              /\ current.version <= row[current.file]
      /\ current \in [file : File \cup {NoFile.file}, version : Version \cup {NoVersion}]
      /\ thumbs \subseteq [file : File, version : Version, content : Version]
      /\ stopping \in BOOLEAN /\ starts \in 1..MaxStarts
  BY DEF IInv, TypeOK, ReadCommitted
<1>5. ThumbNotOlder'
  BY <1>1 DEF worker, IInv, ThumbNotOlder
<1>6. QED
  BY <1>1, <1>2, <1>3, <1>4, <1>5, ServiceStepInvariant DEF worker, process

\* Steps of the worker preserve the invariant.
LEMMA WorkerInvariant ==
    ASSUME IInv, \/ Wake \/ Timeout \/ Leave \/ Peek \/ Load \/ Generate \/ Skip
                 \/ Dequeue \/ SaveRest \/ GiveUp
    PROVE  IInv'
<1> DEFINE Working == [file : File \cup {NoFile.file}, version : Version \cup {NoVersion}]
<1>1. /\ current \in Working /\ NoFile \in Working
      /\ wake \in BOOLEAN /\ stopping \in BOOLEAN /\ starts \in 1..MaxStarts
      /\ queued \subseteq File /\ saved \subseteq File
      /\ asking \subseteq File /\ adding \in BOOLEAN
      /\ thumbs \subseteq [file : File, version : Version, content : Version]
  BY DEF IInv, TypeOK, NoFile
<1>2. thumbs' = thumbs => ThumbNotOlder'
  BY DEF IInv, ThumbNotOlder
<1>3. Done => pc' = "done" /\ current' \in Working /\ current'.file = current.file
  BY <1>1 DEF Done
<1>4. CASE Wake \/ Timeout \/ Leave
  <2>1. /\ UNCHANGED files /\ UNCHANGED requests /\ UNCHANGED process
        /\ queued' = queued /\ saved' = saved /\ wake' \in BOOLEAN
        /\ current' = current /\ thumbs' = thumbs
        /\ pc = "waiting" /\ pc' \in {"picking", "off"}
    BY <1>1, <1>4 DEF Wake, Timeout, Leave, service
  <2>2. QED
    BY <1>1, <1>2, <2>1, WorkerStepInvariant
<1>5. CASE Peek
  <2>1. /\ UNCHANGED files /\ UNCHANGED requests /\ UNCHANGED process
        /\ queued' = queued /\ saved' = saved /\ wake' = wake /\ thumbs' = thumbs
        /\ pc = "picking"
    BY <1>5 DEF Peek, service
  <2>2. CASE queued = {}
    <3>1. pc' = "waiting" /\ current' = current
      BY <1>5, <2>2 DEF Peek
    <3>2. QED
      BY <1>1, <1>2, <2>1, <3>1, WorkerStepInvariant
  <2>3. CASE queued # {}
    <3>1. pc' = "loading" /\ \E f \in queued : current' = [file |-> f, version |-> NoVersion]
      BY <1>5, <2>3 DEF Peek
    <3>2. current' \in Working /\ current'.file \in queued
      BY <1>1, <3>1
    <3>3. QED
      BY <1>1, <1>2, <2>1, <3>1, <3>2, WorkerStepInvariant
  <2>4. QED
    BY <2>2, <2>3
<1>6. CASE Load
  <2>1. /\ UNCHANGED files /\ UNCHANGED requests /\ UNCHANGED process
        /\ queued' = queued /\ saved' = saved /\ wake' = wake /\ thumbs' = thumbs
        /\ pc = "loading" /\ current.file \in queued
    BY <1>6 DEF Load, service, IInv, TypeOK
  <2>2. CASE Done
    BY <1>1, <1>2, <1>3, <2>1, <2>2, WorkerStepInvariant
  <2>3. CASE ~ Done
    <3>1. /\ pc' = "generating" /\ row[current.file] \in Version
          /\ current' = [current EXCEPT !.version = row[current.file]]
      BY <1>6, <2>3 DEF Load
    <3>2. /\ current' \in Working
          /\ current'.file = current.file /\ current'.version = row[current.file]
      BY <1>1, <3>1
    <3>3. row[current.file] <= row[current.file]
      BY <3>1, PreviewAssumption DEF Version
    <3>4. QED
      BY <1>1, <1>2, <2>1, <3>1, <3>2, <3>3, WorkerStepInvariant
  <2>4. QED
    BY <2>2, <2>3
<1>7. CASE Generate
  <2> DEFINE t == [file |-> current.file, version |-> current.version,
                   content |-> disk[current.file]]
  <2>1. /\ UNCHANGED files /\ UNCHANGED requests /\ UNCHANGED process
        /\ queued' = queued /\ saved' = saved /\ wake' = wake
        /\ thumbs' = thumbs \cup {t} /\ Done
        /\ pc = "generating" /\ disk[current.file] \in Version
    BY <1>7 DEF Generate, service
  <2>2. /\ current.file \in queued /\ current.file \in File /\ current.version \in Version
        /\ current.version <= row[current.file]
        /\ row[current.file] \in Version \cup {NoVersion, Deleted}
        /\ disk[current.file] \in {row[current.file], NoVersion, row[current.file] + 1}
    BY <2>1 DEF IInv, TypeOK, ReadCommitted
  <2>3. t.content >= t.version
    BY <2>1, <2>2, PreviewAssumption DEF Version, NoVersion, Deleted
  <2>4. thumbs' \subseteq [file : File, version : Version, content : Version]
    BY <1>1, <2>1, <2>2
  <2>5. ThumbNotOlder'
    BY <2>1, <2>3 DEF IInv, ThumbNotOlder
  <2>6. QED
    BY <1>1, <1>3, <2>1, <2>2, <2>4, <2>5, WorkerStepInvariant
<1>8. CASE Skip
  <2>1. /\ UNCHANGED files /\ UNCHANGED requests /\ UNCHANGED process
        /\ queued' = queued /\ saved' = saved /\ wake' = wake /\ thumbs' = thumbs
        /\ Done /\ pc = "generating" /\ current.file \in queued
    BY <1>8 DEF Skip, service, IInv, TypeOK
  <2>2. QED
    BY <1>1, <1>2, <1>3, <2>1, WorkerStepInvariant
<1>9. CASE GiveUp
  <2>1. /\ UNCHANGED files /\ UNCHANGED requests /\ UNCHANGED process
        /\ queued' = queued /\ saved' = saved /\ wake' = wake /\ thumbs' = thumbs
        /\ pc = "generating" /\ pc' = "off" /\ current' = NoFile
    BY <1>9 DEF GiveUp, service
  <2>2. QED
    BY <1>1, <1>2, <2>1, WorkerStepInvariant
<1>10. CASE Dequeue
  <2>1. /\ UNCHANGED files /\ UNCHANGED requests /\ UNCHANGED process
        /\ queued' = queued \ {current.file} /\ saved' = saved /\ wake' = wake
        /\ current' = current /\ thumbs' = thumbs /\ pc' = "saving" /\ Free
    BY <1>10 DEF Dequeue
  <2>2. QueueSaved' /\ ~ adding'
    BY <2>1 DEF requests, process, IInv, QueueSaved, Free
  <2>3. QED
    BY <1>1, <1>2, <2>1, <2>2, ServiceStepInvariant DEF requests, process
<1>11. CASE SaveRest
  <2>1. /\ UNCHANGED files /\ UNCHANGED requests /\ UNCHANGED process
        /\ queued' = queued /\ saved' \subseteq File /\ wake' = wake
        /\ current' = NoFile /\ thumbs' = thumbs /\ pc = "saving" /\ pc' = "picking"
    BY <1>1, <1>11 DEF SaveRest
  <2>2. ~ adding
    BY <2>1 DEF IInv, TypeOK
  <2>3. QueueSaved'
    BY <1>11, <2>1, <2>2 DEF SaveRest, requests, process, QueueSaved, Free
  <2>4. QED
    BY <1>1, <1>2, <2>1, <2>2, <2>3, ServiceStepInvariant DEF requests, process
<1>12. QED
  BY <1>4, <1>5, <1>6, <1>7, <1>8, <1>9, <1>10, <1>11

\* A shutdown and a restart, which loads queue.json, preserve the invariant.
LEMMA ProcessInvariant ==
    ASSUME IInv, Shutdown \/ Restart \/ Stopped
    PROVE  IInv'
<1>1. CASE Shutdown
  <2>1. /\ UNCHANGED files /\ UNCHANGED requests /\ UNCHANGED service /\ UNCHANGED worker
        /\ stopping' \in BOOLEAN /\ UNCHANGED <<starts, faults>>
    BY <1>1 DEF Shutdown
  <2>2. QED
    BY <2>1 DEF files, requests, service, worker, IInv, TypeOK, DiskNear, ReadCommitted,
                ThumbNotOlder, QueueSaved, Free
<1>2. CASE Restart
  <2>1. /\ UNCHANGED files /\ UNCHANGED <<saved, thumbs, faults>> /\ queued' = saved
        /\ asking' = {} /\ adding' = FALSE
        /\ wake' \in BOOLEAN /\ stopping' \in BOOLEAN /\ pc' = "waiting" /\ current' = NoFile
    BY <1>2 DEF Restart
  <2>2. starts' \in 1..MaxStarts
    BY <1>2, PreviewAssumption DEF Restart, IInv, TypeOK
  <2>3. /\ current' \in [file : File \cup {NoFile.file}, version : Version \cup {NoVersion}]
        /\ saved \subseteq File
        /\ thumbs \subseteq [file : File, version : Version, content : Version]
    BY <2>1 DEF NoFile, IInv, TypeOK
  <2>4. ThumbNotOlder' /\ QueueSaved'
    BY <2>1 DEF IInv, ThumbNotOlder, QueueSaved
  <2>5. QED
    BY <2>1, <2>2, <2>3, <2>4, ServiceStepInvariant
<1>3. CASE Stopped
  BY <1>3 DEF Stopped, vars, IInv, TypeOK, DiskNear, ReadCommitted, ThumbNotOlder,
              QueueSaved, Free
<1>4. QED
  BY <1>1, <1>2, <1>3

\* Every step preserves the invariant.
LEMMA StepInvariant == IInv /\ [Next]_vars => IInv'
<1> SUFFICES ASSUME IInv, [Next]_vars PROVE IInv'
  OBVIOUS
<1>1. CASE UNCHANGED vars
  BY <1>1 DEF vars, IInv, TypeOK, DiskNear, ReadCommitted, ThumbNotOlder,
              QueueSaved, Free
<1>2. ASSUME NEW f \in File,
             Save(f) \/ Place(f) \/ Commit(f) \/ Abort(f) \/ Delete(f) \/ Get(f)
      PROVE  IInv'
  BY <1>2, HandlerInvariant
<1>3. CASE \/ Wake \/ Timeout \/ Leave \/ Peek \/ Load \/ Generate \/ Skip
           \/ Dequeue \/ SaveRest \/ GiveUp
  BY <1>3, WorkerInvariant
<1>4. CASE Shutdown \/ Restart \/ Stopped
  BY <1>4, ProcessInvariant
<1>5. CASE SaveAdded \/ \E f \in File : Enqueue(f)
  BY <1>5, RequestInvariant
<1>6. QED
  BY <1>1, <1>2, <1>3, <1>4, <1>5 DEF Next

-----------------------------------------------------------------------------
\* The inductive invariant holds in every reachable state: files and rows are at
\* most one version apart, and the worker has read a committed version.
THEOREM Invariant == Spec => []IInv
<1>1. QED
  BY InitInvariant, StepInvariant, PTL DEF Spec

\* Rows, files, queue and thumbnails keep their types, and the worker is in a file
\* only while it is queued.
THEOREM TypeCorrect == Spec => []TypeOK
<1>1. IInv => TypeOK
  BY DEF IInv
<1>2. QED
  BY <1>1, Invariant, PTL

\* The worker reads the row first and the file after, without the path lock, while
\* uploads put the file in place first and commit the row after: no thumbnail is
\* ever older than the version it is kept for, whatever fails.
THEOREM ThumbnailsNotOlder == Spec => []ThumbNotOlder
<1>1. IInv => ThumbNotOlder
  BY DEF IInv
<1>2. QED
  BY <1>1, Invariant, PTL

\* enqueueMany, complete and fail change the queue and save it under the mutex; a
\* process that ends at any moment, between the two as well, loses no request that has
\* been answered and repeats no work but the last (as long as queue.json can be
\* written).
THEOREM NothingQueuedIsLost == Spec => []QueueSaved
<1>1. IInv => QueueSaved
  BY DEF IInv
<1>2. QED
  BY <1>1, Invariant, PTL
=============================================================================
