-------------------------- MODULE MediaStore_proofs --------------------------
(***************************************************************************)
(* For every set of posts, every number of requests and every budget: a row *)
(* stands without its file only for a reason that is written down, and the  *)
(* index is over its budget only while it is being evicted or when an       *)
(* eviction was cut short.                                                  *)
(***************************************************************************)
EXTENDS MediaStore, FiniteSetTheorems, SequenceTheorems, TLAPS

USE StoreConstantsOK

(* The invariant *)

\* The worker is a record with its four fields, whatever their values.
WorkerShape ==
    worker = [at |-> worker.at, batch |-> worker.batch, post |-> worker.post,
              tries |-> worker.tries]

\* A removal takes only files that it listed.
RemovalShape ==
    /\ removal \in [Tasks -> RemovalRecord]
    /\ \A t \in Tasks : /\ removal[t].done \subseteq removal[t].list
                        /\ removal[t].at # "removing" => removal[t].done = {}

\* The worker removes files only while it evicts or purges, and goes on when it
\* has finished.
WorkerRemoves ==
    removal[Worker].at # "none" => worker.at \in {"evicting", "purging"}

\* An original that was just stored is on disk, or was taken away since.
JustStored == worker.at = "saved" => worker.post \in files \cup torn

\* Every post whose row may stand without its file.
Excused == torn \cup UNION {Doomed(t) : t \in Tasks}

IInv ==
    /\ posts \subseteq Posts /\ indexed \subseteq Posts
    /\ WorkerShape /\ RemovalShape /\ WorkerRemoves
    /\ JustStored
    /\ indexed \subseteq files \cup Excused
    /\ BudgetUnlessCut

LEMMA NoRemovalType ==
    /\ NoRemoval \in RemovalRecord /\ NoRemoval.at = "none"
    /\ NoRemoval.done = {} /\ NoRemoval.list = {}
BY DEF NoRemoval, RemovalRecord, RemovalStep

LEMMA RemovingType ==
    \A list \in SUBSET Posts, wipe \in BOOLEAN :
        /\ Removing(list, wipe) \in RemovalRecord /\ Removing(list, wipe).at = "removing"
        /\ Removing(list, wipe).done = {} /\ Removing(list, wipe).list = list
BY DEF Removing, RemovalRecord, RemovalStep

LEMMA RestingFields == Resting.at = "idle" /\
    Resting = [at |-> Resting.at, batch |-> Resting.batch, post |-> Resting.post,
               tries |-> Resting.tries]
BY DEF Resting

\* The index only becomes smaller.
LEMMA StaysWithin ==
    ASSUME indexed \subseteq Posts, indexed' \subseteq indexed, WithinBudget
    PROVE  WithinBudget'
<1>1. IsFiniteSet(indexed)
    BY FS_Subset
<1>2. /\ Cardinality(indexed) \in Nat /\ Cardinality(indexed') \in Nat
      /\ Cardinality(indexed') <= Cardinality(indexed)
    BY <1>1, FS_Subset, FS_CardinalityType
<1> QED BY <1>2 DEF WithinBudget

LEMMA EmptyWithin == Cardinality({}) = 0 /\ 0 <= Budget
BY FS_EmptySet

LEMMA InitIInv == Init => IInv
<1> SUFFICES ASSUME Init PROVE IInv
    OBVIOUS
<1>1. WithinBudget
    BY EmptyWithin DEF Init, WithinBudget
<1>2. RemovalShape /\ WorkerRemoves
    BY NoRemovalType DEF Init, RemovalShape, WorkerRemoves, Tasks
<1> QED BY <1>1, <1>2, RestingFields DEF Init, IInv, WorkerShape, JustStored, BudgetUnlessCut

-----------------------------------------------------------------------------
(* Steps that take no file and end no removal half-way *)

\* Rows may go and the worker may move, but not away from an eviction that is
\* not done and not to an original that is not on disk.
LEMMA Quiet ==
    ASSUME IInv, posts' \subseteq Posts, indexed' \subseteq indexed,
           files' = files, torn' = torn, cut' = cut, removal' = removal,
           WorkerShape',
           worker'.at = "saved" => worker' = worker,
           worker.at = "evicting" => worker'.at = "evicting" \/ WithinBudget,
           removal[Worker].at # "none" => worker'.at \in {"evicting", "purging"}
    PROVE  IInv'
<1>1. BudgetUnlessCut'
    BY StaysWithin DEF IInv, BudgetUnlessCut
<1>2. RemovalShape' /\ WorkerRemoves' /\ Excused' = Excused
    BY DEF IInv, RemovalShape, WorkerRemoves, Excused, Doomed
<1>3. JustStored'
    BY DEF IInv, JustStored
<1>4. indexed' \subseteq files' \cup Excused'
    BY <1>2 DEF IInv
<1> QED BY <1>1, <1>2, <1>3, <1>4 DEF IInv

\* A task lists the files it will take, or gives its list up, before it took any.
LEMMA Lists ==
    ASSUME IInv, NEW t \in Tasks, NEW x \in RemovalRecord,
           posts' = posts, indexed' = indexed, files' = files,
           torn' = torn, cut' = cut,
           removal[t].at # "removing", x.done = {},
           removal' = [removal EXCEPT ![t] = x],
           WorkerShape', worker'.at # "saved" \/ worker' = worker,
           worker.at = "evicting" => worker'.at = "evicting",
           t = Worker => worker'.at \in {"evicting", "purging"},
           t # Worker => worker' = worker
    PROVE  IInv'
<1>0. removal \in [Tasks -> RemovalRecord] /\ Worker \in Tasks
    BY DEF IInv, RemovalShape, Tasks
<1>1. removal'[t] = x /\ \A u \in Tasks \ {t} : removal'[u] = removal[u]
    BY <1>0
<1>2. RemovalShape'
    BY <1>0, <1>1 DEF IInv, RemovalShape
<1>3. WorkerRemoves'
    BY <1>0, <1>1 DEF IInv, WorkerRemoves
<1>4. \A u \in Tasks : Doomed(u)' = Doomed(u)
    BY <1>1 DEF Doomed
<1>5. Excused' = Excused
    BY <1>4 DEF Excused
<1>6. BudgetUnlessCut'
    BY DEF IInv, BudgetUnlessCut, WithinBudget
<1>7. JustStored'
    BY DEF IInv, JustStored
<1> QED BY <1>2, <1>3, <1>5, <1>6, <1>7 DEF IInv

\* A removal is over; what it took is excused by torn, or has lost its row.
LEMMA Ends ==
    ASSUME IInv, NEW t \in Tasks, removal[t].at = "removing",
           posts' = posts, indexed' \subseteq indexed, files' = files,
           removal' = [removal EXCEPT ![t] = NoRemoval],
           torn \subseteq torn', Doomed(t) \cap indexed' \subseteq torn',
           WorkerShape',
           \/ worker' = worker /\ (cut => cut')
           \/ t = Worker /\ worker.at = "evicting" /\ worker'.at = "item" /\ cut'
    PROVE  IInv'
<1>0. removal \in [Tasks -> RemovalRecord] /\ Worker \in Tasks
    BY DEF IInv, RemovalShape, Tasks
<1>1. removal'[t] = NoRemoval /\ \A u \in Tasks \ {t} : removal'[u] = removal[u]
    BY <1>0
<1>2. RemovalShape'
    BY <1>0, <1>1, NoRemovalType DEF IInv, RemovalShape
<1>3. WorkerRemoves'
    BY <1>0, <1>1, NoRemovalType DEF IInv, WorkerRemoves
<1>4. \A u \in Tasks \ {t} : Doomed(u)' = Doomed(u)
    BY <1>1 DEF Doomed
<1>5. Excused \subseteq Excused' \cup Doomed(t)
    BY <1>4 DEF Excused
<1>6. indexed' \subseteq files' \cup Excused'
  <2>1. torn' \subseteq Excused'
    BY DEF Excused
  <2> QED BY <1>5, <2>1 DEF IInv
<1>7. BudgetUnlessCut'
    BY StaysWithin DEF IInv, BudgetUnlessCut
<1>8. JustStored'
    BY DEF IInv, JustStored
<1> QED BY <1>2, <1>3, <1>6, <1>7, <1>8 DEF IInv

-----------------------------------------------------------------------------
(* Removing files, then their rows *)

LEMMA RemoveFileStep == ASSUME IInv, NEW t \in Tasks, RemoveFile(t) PROVE IInv'
<1>1. PICK p \in removal[t].list \ removal[t].done :
        /\ files' = files \ {p}
        /\ removal' = [removal EXCEPT ![t].done = @ \cup {p}]
        /\ torn' = IF worker.at = "saved" /\ worker.post = p THEN torn \cup {p} ELSE torn
    BY DEF RemoveFile
<1>2. /\ removal[t].at = "removing"
      /\ UNCHANGED <<posts, indexed, worker, cut>>
    BY DEF RemoveFile, library
<1>3. /\ removal \in [Tasks -> RemovalRecord] /\ removal[t] \in RemovalRecord
      /\ removal[t].done \subseteq removal[t].list /\ removal[t].list \subseteq Posts
    BY DEF IInv, RemovalShape, RemovalRecord
<1> DEFINE e == [removal[t] EXCEPT !.done = removal[t].done \cup {p}]
<1>4. /\ e \in RemovalRecord /\ e.at = "removing" /\ e.list = removal[t].list
      /\ e.done = removal[t].done \cup {p} /\ e.done \subseteq e.list
    BY <1>2, <1>3 DEF RemovalRecord
<1>5. removal' = [removal EXCEPT ![t] = e]
    BY <1>1, <1>3
<1> HIDE DEF e
<1> PICK x \in RemovalRecord : x = e
    BY <1>4
<1>6. removal'[t] = x /\ \A u \in Tasks \ {t} : removal'[u] = removal[u]
    BY <1>3, <1>5
<1>7. RemovalShape'
    BY <1>3, <1>4, <1>5, <1>6 DEF IInv, RemovalShape
<1>8. WorkerRemoves'
    BY <1>2, <1>4, <1>6 DEF IInv, WorkerRemoves, Tasks
<1>9. /\ Doomed(t)' = Doomed(t) \cup {p}
      /\ \A u \in Tasks \ {t} : Doomed(u)' = Doomed(u)
    BY <1>2, <1>4, <1>6 DEF Doomed
<1>10. Excused \cup {p} \subseteq Excused'
    BY <1>1, <1>9 DEF Excused
<1>11. indexed' \subseteq files' \cup Excused'
    BY <1>1, <1>2, <1>10 DEF IInv
<1>12. JustStored'
    BY <1>1, <1>2 DEF IInv, JustStored
<1> QED BY <1>2, <1>7, <1>8, <1>11, <1>12 DEF IInv, WorkerShape, BudgetUnlessCut, WithinBudget

LEMMA DeleteRowsStep == ASSUME IInv, NEW t \in Tasks, DeleteRows(t) PROVE IInv'
<1>1. /\ removal[t].at = "removing" /\ removal[t].done = removal[t].list
      /\ indexed' = IF removal[t].wipe THEN {} ELSE indexed \ removal[t].list
      /\ removal' = [removal EXCEPT ![t] = NoRemoval]
      /\ UNCHANGED <<posts, files, worker, torn, cut>>
    BY DEF DeleteRows, library, ghosts
<1>2. indexed' \subseteq indexed /\ Doomed(t) \cap indexed' = {}
    BY <1>1 DEF Doomed
<1>3. WorkerShape'
    BY <1>1 DEF IInv, WorkerShape
<1>4. /\ posts' = posts /\ files' = files /\ torn \subseteq torn'
      /\ Doomed(t) \cap indexed' \subseteq torn'
      /\ worker' = worker /\ (cut => cut')
    BY <1>1, <1>2
<1> QED BY <1>1, <1>2, <1>3, <1>4, Ends

LEMMA DeleteRowsFailsStep == ASSUME IInv, NEW t \in Tasks, DeleteRowsFails(t) PROVE IInv'
<1>1. /\ removal[t].at = "removing" /\ removal[t].done = removal[t].list
      /\ removal' = [removal EXCEPT ![t] = NoRemoval]
      /\ torn' = torn \cup removal[t].list
      /\ UNCHANGED <<posts, indexed, files>>
      /\ IF t = Worker /\ worker.at = "evicting"
         THEN worker' = At("item") /\ cut' = TRUE
         ELSE UNCHANGED <<worker, cut>>
    BY DEF DeleteRowsFails, library, store
<1>2. Doomed(t) \subseteq torn'
    BY <1>1 DEF Doomed
<1>3. WorkerShape' /\ (worker' = worker \/ worker'.at = "item")
    BY <1>1 DEF IInv, WorkerShape, At
<1>4. /\ posts' = posts /\ files' = files /\ indexed' \subseteq indexed
      /\ torn \subseteq torn' /\ Doomed(t) \cap indexed' \subseteq torn'
    BY <1>1, <1>2
<1>5. CASE t = Worker /\ worker.at = "evicting"
  <2>1. worker' = At("item") /\ cut'
    BY <1>1, <1>5
  <2>2. worker'.at = "item"
    BY <1>5, <2>1 DEF IInv, WorkerShape, At
  <2> QED BY <1>1, <1>3, <1>4, <1>5, <2>1, <2>2, Ends
<1>6. CASE ~(t = Worker /\ worker.at = "evicting")
  <2>1. worker' = worker /\ (cut => cut')
    BY <1>1, <1>6
  <2> QED BY <1>1, <1>3, <1>4, <2>1, Ends
<1> QED BY <1>5, <1>6

LEMMA RemoveStep == ASSUME IInv, NEW t \in Tasks, Remove(t) PROVE IInv'
BY RemoveFileStep, DeleteRowsStep, DeleteRowsFailsStep DEF Remove

-----------------------------------------------------------------------------
(* The download worker *)

LEMMA StartPassStep == ASSUME IInv, StartPass PROVE IInv'
<1>1. PICK batch : worker' = [worker EXCEPT !.at = "item", !.batch = batch]
    BY DEF StartPass
<1>0. /\ worker.at = "idle"
      /\ UNCHANGED <<posts, indexed, files, torn, cut, removal>>
    BY DEF StartPass, library, store, ghosts
<1>2. WorkerShape' /\ worker'.at = "item"
    BY <1>1, <1>0 DEF IInv, WorkerShape
<1>3. removal[Worker].at = "none"
    BY <1>1, <1>0 DEF IInv, WorkerRemoves
<1> QED BY <1>0, <1>2, <1>3, Quiet DEF IInv

LEMMA NextItemStep == ASSUME IInv, NextItem PROVE IInv'
<1>1. /\ worker.at = "item"
      /\ UNCHANGED <<posts, indexed, files, torn, cut, removal>>
    BY DEF NextItem, library, store, ghosts
<1>3. WorkerShape' /\ worker'.at \in {"idle", "item", "loading"}
  <2>1. CASE paused \/ worker.batch = <<>>
    BY <2>1, RestingFields DEF NextItem, WorkerShape
  <2>2. CASE ~(paused \/ worker.batch = <<>>)
    <3>1. PICK step \in Treatments(Head(worker.batch)) :
             worker' = [worker EXCEPT !.batch = Tail(@), !.post = Head(worker.batch),
                                      !.tries = 0, !.at = step]
        BY <2>2 DEF NextItem
    <3>2. step \in {"item", "loading"}
        BY DEF Treatments
    <3> QED BY <3>1, <3>2 DEF IInv, WorkerShape
  <2> QED BY <2>1, <2>2
<1>4. removal[Worker].at = "none"
    BY <1>1 DEF IInv, WorkerRemoves
<1> QED BY <1>1, <1>3, <1>4, Quiet DEF IInv

LEMMA AttemptFailsStep == ASSUME IInv, AttemptFails PROVE IInv'
<1>1. /\ worker.at \in {"loading", "saved"}
      /\ worker' = IF worker.tries + 1 = Attempts THEN At("item")
                   ELSE [worker EXCEPT !.tries = @ + 1, !.at = "loading"]
      /\ UNCHANGED <<posts, indexed, files, torn, cut, removal>>
    BY DEF AttemptFails, AfterFailure, library, store, ghosts
<1>2. WorkerShape' /\ worker'.at \in {"item", "loading"}
    BY <1>1 DEF IInv, WorkerShape, At
<1>3. removal[Worker].at = "none"
    BY <1>1 DEF IInv, WorkerRemoves
<1> QED BY <1>1, <1>2, <1>3, Quiet DEF IInv

LEMMA DownloadStep == ASSUME IInv, NEW p \in Posts, Download(p) PROVE IInv'
<1>1. /\ worker.at = "loading" /\ worker.post = p
      /\ files' = files \cup {p} /\ torn' = torn \ {p} /\ worker' = At("saved")
      /\ UNCHANGED <<posts, indexed, cut, removal>>
    BY DEF Download, OnDisk, library
<1>2. WorkerShape' /\ worker'.at = "saved" /\ worker'.post = p
    BY <1>1 DEF IInv, WorkerShape, At
<1>3. removal[Worker].at = "none"
    BY <1>1 DEF IInv, WorkerRemoves
<1>4. RemovalShape' /\ WorkerRemoves'
    BY <1>1, <1>3 DEF IInv, RemovalShape, WorkerRemoves
<1>5. Excused \subseteq Excused' \cup {p}
    BY <1>1 DEF Excused, Doomed
<1>6. indexed' \subseteq files' \cup Excused'
    BY <1>1, <1>5 DEF IInv
<1>7. BudgetUnlessCut'
    BY <1>1 DEF IInv, BudgetUnlessCut, WithinBudget
<1>8. JustStored'
    BY <1>1, <1>2 DEF JustStored
<1> QED BY <1>1, <1>2, <1>4, <1>6, <1>7, <1>8 DEF IInv

LEMMA IndexOriginalStep == ASSUME IInv, NEW p \in Posts, IndexOriginal(p) PROVE IInv'
<1>1. /\ worker.at = "saved" /\ worker.post = p
      /\ indexed' = indexed \cup {p} /\ worker' = At("evicting")
      /\ UNCHANGED <<posts, files, torn, cut, removal>>
    BY DEF IndexOriginal, library, ghosts
<1>2. WorkerShape' /\ worker'.at = "evicting"
    BY <1>1 DEF IInv, WorkerShape, At
<1>3. p \in files \cup torn
    BY <1>1 DEF IInv, JustStored
<1>4. Excused' = Excused /\ torn \subseteq Excused
    BY <1>1 DEF Excused, Doomed
<1>5. indexed' \subseteq files' \cup Excused'
    BY <1>1, <1>3, <1>4 DEF IInv
<1>6. RemovalShape' /\ WorkerRemoves'
    BY <1>1, <1>2 DEF IInv, RemovalShape, WorkerRemoves
<1>7. BudgetUnlessCut' /\ JustStored'
    BY <1>2 DEF BudgetUnlessCut, JustStored
<1> QED BY <1>1, <1>2, <1>5, <1>6, <1>7 DEF IInv

LEMMA EvictStep == ASSUME IInv, Evict PROVE IInv'
<1>1. /\ worker.at = "evicting" /\ removal[Worker].at = "none"
      /\ UNCHANGED <<posts, indexed, files, torn>>
    BY DEF Evict, library, store
<1>2. CASE WithinBudget
  <2>1. worker' = At("item") /\ cut' = FALSE /\ removal' = removal
    BY <1>2 DEF Evict, Fits
  <2>2. WorkerShape' /\ worker'.at = "item"
    BY <2>1 DEF IInv, WorkerShape, At
  <2>3. BudgetUnlessCut'
    BY <1>1, <1>2 DEF BudgetUnlessCut, WithinBudget
  <2>4. RemovalShape' /\ WorkerRemoves' /\ JustStored' /\ Excused' = Excused
    BY <1>1, <2>1, <2>2 DEF IInv, RemovalShape, WorkerRemoves, JustStored, Excused, Doomed
  <2> QED BY <1>1, <2>2, <2>3, <2>4 DEF IInv
<1>3. CASE ~WithinBudget
  <2>1. PICK oldest \in SUBSET indexed :
           /\ removal' = [removal EXCEPT ![Worker] = Removing(oldest, FALSE)]
           /\ UNCHANGED <<worker, cut>>
    BY <1>3 DEF Evict, Fits
  <2>2. oldest \in SUBSET Posts
    BY DEF IInv
  <2>3. Removing(oldest, FALSE) \in RemovalRecord /\ Removing(oldest, FALSE).done = {}
    BY <2>2, RemovingType
  <2>4. WorkerShape' /\ worker' = worker /\ Worker \in Tasks
    BY <2>1 DEF IInv, WorkerShape, Tasks
  <2> QED BY <1>1, <2>1, <2>3, <2>4, Lists
<1> QED BY <1>2, <1>3

\* An eviction that is given up counts as cut short.
LEMMA EvictionStopsStep == ASSUME IInv, EvictionStops PROVE IInv'
<1>1. /\ worker' = At("item") /\ cut' = TRUE
      /\ removal[Worker].at = "none"
      /\ UNCHANGED <<posts, indexed, files, torn, removal>>
    BY DEF EvictionStops, library, store
<1>2. WorkerShape' /\ worker'.at = "item"
    BY <1>1 DEF IInv, WorkerShape, At
<1>3. BudgetUnlessCut'
    BY <1>1, Zenon DEF BudgetUnlessCut
<1>4. RemovalShape' /\ WorkerRemoves' /\ JustStored' /\ Excused' = Excused
    BY <1>1, <1>2 DEF IInv, RemovalShape, WorkerRemoves, JustStored, Excused, Doomed
<1> QED BY <1>1, <1>2, <1>3, <1>4 DEF IInv

LEMMA GoneStep == ASSUME IInv, Gone PROVE IInv'
<1>1. /\ worker.at = "loading" /\ worker' = At("gone")
      /\ UNCHANGED <<posts, indexed, files, torn, cut, removal>>
    BY DEF Gone, library, store, ghosts
<1>2. WorkerShape' /\ worker'.at = "gone"
    BY <1>1 DEF IInv, WorkerShape, At
<1>3. removal[Worker].at = "none"
    BY <1>1 DEF IInv, WorkerRemoves
<1> QED BY <1>1, <1>2, <1>3, Quiet DEF IInv

LEMMA UnindexStep == ASSUME IInv, Unindex PROVE IInv'
<1>1. /\ worker.at = "gone" /\ worker' = At("purging")
      /\ UNCHANGED <<posts, indexed, files, torn, cut>>
    BY DEF Unindex, library, store, ghosts
<1>2. WorkerShape' /\ worker'.at = "purging"
    BY <1>1 DEF IInv, WorkerShape, At
<1>3. removal[Worker].at = "none" /\ Worker \in Tasks
    BY <1>1 DEF IInv, WorkerRemoves, Tasks
<1>4. CASE /\ worker.post \in indexed
           /\ removal' = [removal EXCEPT ![Worker] = Removing({worker.post}, FALSE)]
  <2>1. {worker.post} \in SUBSET Posts
    BY <1>4 DEF IInv
  <2> PICK list \in SUBSET Posts : list = {worker.post}
    BY <2>1
  <2>2. removal' = [removal EXCEPT ![Worker] = Removing(list, FALSE)]
    BY <1>4
  <2>3. Removing(list, FALSE) \in RemovalRecord /\ Removing(list, FALSE).done = {}
    BY RemovingType
  <2> QED BY <1>1, <1>2, <1>3, <2>2, <2>3, Lists
<1>5. CASE removal' = removal
    BY <1>1, <1>2, <1>5, Quiet DEF IInv
<1> QED BY <1>4, <1>5 DEF Unindex

LEMMA PurgeStep == ASSUME IInv, Purge PROVE IInv'
<1>1. /\ worker.at = "purging" /\ worker' = At("item") /\ removal[Worker].at = "none"
      /\ UNCHANGED <<torn, cut, removal>>
      /\ files' = files /\ posts' \subseteq posts /\ indexed' \subseteq indexed
    BY DEF Purge, PostDeleted, library, store, ghosts
<1>2. WorkerShape' /\ worker'.at = "item"
    BY <1>1 DEF IInv, WorkerShape, At
<1> QED BY <1>1, <1>2, Quiet DEF IInv

LEMMA WorkStep == ASSUME IInv, Work PROVE IInv'
<1>1. Worker \in Tasks
    BY DEF Tasks
<1> QED BY <1>1, StartPassStep, NextItemStep, AttemptFailsStep, DownloadStep, IndexOriginalStep,
           EvictStep, EvictionStopsStep, GoneStep, UnindexStep, PurgeStep, RemoveStep DEF Work

-----------------------------------------------------------------------------
(* The others *)

\* Whatever leaves store, worker and removals alone, or only deletes rows.
LEMMA Aside ==
    ASSUME IInv, posts' \subseteq Posts, indexed' \subseteq indexed,
           UNCHANGED <<files, worker, removal, torn, cut>>
    PROVE  IInv'
<1>1. WorkerShape' /\ worker' = worker
    BY DEF IInv, WorkerShape
<1>2. removal[Worker].at # "none" => worker'.at \in {"evicting", "purging"}
    BY <1>1 DEF IInv, WorkerRemoves
<1>3. worker.at = "evicting" => worker'.at = "evicting"
    BY <1>1
<1> QED BY <1>1, <1>2, <1>3, Quiet

LEMMA OthersStep ==
    ASSUME IInv,
           \/ \E p \in Posts : Save(p) \/ DropPost(p)
           \/ Pause \/ Resume \/ Toggle
    PROVE  IInv'
<1>1. /\ posts' \subseteq Posts /\ indexed' \subseteq indexed
      /\ UNCHANGED <<files, worker, removal, torn, cut>>
    BY DEF IInv, Save, DropPost, PostDeleted, Pause, Resume, Toggle, library, store, ghosts
<1> QED BY <1>1, Aside

\* A request that goes from one list to another before it takes anything.
LEMMA RequestLists ==
    ASSUME IInv, NEW t \in Removers, NEW x \in RemovalRecord, x.done = {},
           removal[t].at # "removing", removal' = [removal EXCEPT ![t] = x],
           UNCHANGED <<posts, store, worker, ghosts>>
    PROVE  IInv'
<1>1. t \in Tasks /\ t # Worker
    BY DEF Tasks
<1>2. WorkerShape' /\ worker' = worker
    BY DEF IInv, WorkerShape
<1>3. worker.at = "evicting" => worker'.at = "evicting"
    BY <1>2
<1>4. posts' = posts /\ indexed' = indexed /\ files' = files /\ torn' = torn /\ cut' = cut
    BY DEF store, ghosts
<1> QED BY <1>1, <1>2, <1>3, <1>4, Lists

LEMMA UnlinkStep == ASSUME IInv, NEW t \in Removers, NEW p \in Posts, Unlink(t, p) PROVE IInv'
<1>1. /\ removal[t].at = "none" /\ UNCHANGED <<posts, store, worker, ghosts>>
      /\ removal' = [removal EXCEPT ![t].at = "unlinked", ![t].list = {p}]
    BY DEF Unlink
<1>2. /\ removal \in [Tasks -> RemovalRecord] /\ removal[t] \in RemovalRecord
      /\ removal[t].done = {}
    BY <1>1 DEF IInv, RemovalShape, Tasks
<1> DEFINE e == [removal[t] EXCEPT !.at = "unlinked", !.list = {p}]
<1>3. e \in RemovalRecord /\ e.done = {} /\ removal' = [removal EXCEPT ![t] = e]
    BY <1>1, <1>2 DEF RemovalRecord, RemovalStep, Tasks
<1> HIDE DEF e
<1> PICK x \in RemovalRecord : x = e
    BY <1>3
<1> QED BY <1>1, <1>3, RequestLists

LEMMA CheckSavedStep == ASSUME IInv, NEW t \in Removers, CheckSaved(t) PROVE IInv'
<1>1. /\ removal[t].at = "unlinked" /\ UNCHANGED <<posts, store, worker, ghosts>>
      /\ removal' = [removal EXCEPT ![t] =
                       IF @.list \cap owned # {} THEN NoRemoval ELSE [@ EXCEPT !.at = "unowned"]]
    BY DEF CheckSaved, library
<1>2. /\ removal \in [Tasks -> RemovalRecord] /\ removal[t] \in RemovalRecord
      /\ removal[t].done = {} /\ t \in Tasks
    BY <1>1 DEF IInv, RemovalShape, Tasks
<1> DEFINE e == IF removal[t].list \cap owned # {} THEN NoRemoval
                ELSE [removal[t] EXCEPT !.at = "unowned"]
<1>3. e \in RemovalRecord /\ e.done = {}
    BY <1>2, NoRemovalType DEF RemovalRecord, RemovalStep
<1>4. removal' = [removal EXCEPT ![t] = e]
    BY <1>1, <1>2
<1> HIDE DEF e
<1> PICK x \in RemovalRecord : x = e
    BY <1>3
<1> QED BY <1>1, <1>3, <1>4, RequestLists

LEMMA LookUpStep == ASSUME IInv, NEW t \in Removers, LookUp(t) PROVE IInv'
<1>1. /\ removal[t].at = "unowned" /\ UNCHANGED <<posts, store, worker, ghosts>>
      /\ removal' = [removal EXCEPT ![t] =
                       IF @.list \subseteq indexed THEN Removing(@.list, FALSE) ELSE NoRemoval]
    BY DEF LookUp, library
<1>2. /\ removal \in [Tasks -> RemovalRecord] /\ removal[t].list \in SUBSET Posts /\ t \in Tasks
    BY <1>1 DEF IInv, RemovalShape, RemovalRecord, Tasks
<1> DEFINE e == IF removal[t].list \subseteq indexed THEN Removing(removal[t].list, FALSE)
                ELSE NoRemoval
<1>3. e \in RemovalRecord /\ e.done = {}
  <2>1. /\ Removing(removal[t].list, FALSE) \in RemovalRecord
        /\ Removing(removal[t].list, FALSE).done = {}
    BY <1>2, RemovingType
  <2> QED BY <2>1, NoRemovalType
<1>4. removal' = [removal EXCEPT ![t] = e]
    BY <1>1, <1>2
<1> HIDE DEF e
<1> PICK x \in RemovalRecord : x = e
    BY <1>3
<1> QED BY <1>1, <1>3, <1>4, RequestLists

LEMMA RequestFailsStep == ASSUME IInv, NEW t \in Removers, RequestFails(t) PROVE IInv'
<1>1. /\ removal[t].at # "removing" /\ UNCHANGED <<posts, store, worker, ghosts>>
      /\ removal' = [removal EXCEPT ![t] = NoRemoval]
    BY DEF RequestFails, library
<1> QED BY <1>1, NoRemovalType, RequestLists

LEMMA ClearStep == ASSUME IInv, NEW t \in Removers, Clear(t) PROVE IInv'
<1>1. /\ removal[t].at = "none" /\ UNCHANGED <<posts, store, worker, ghosts>>
      /\ removal' = [removal EXCEPT ![t] = Removing(indexed, TRUE)]
    BY DEF Clear, library
<1>2. Removing(indexed, TRUE) \in RemovalRecord /\ Removing(indexed, TRUE).done = {}
  <2>1. indexed \in SUBSET Posts
    BY DEF IInv
  <2> QED BY <2>1, RemovingType
<1> DEFINE e == Removing(indexed, TRUE)
<1> HIDE DEF e
<1> PICK x \in RemovalRecord : x = e
    BY <1>2 DEF e
<1>3. removal' = [removal EXCEPT ![t] = x] /\ x.done = {}
    BY <1>1, <1>2 DEF e
<1> QED BY <1>1, <1>3, RequestLists

LEMMA RequestStep == ASSUME IInv, NEW t \in Removers, Request(t) PROVE IInv'
<1>1. t \in Tasks
    BY DEF Tasks
<1> QED BY <1>1, CheckSavedStep, LookUpStep, RequestFailsStep, RemoveStep DEF Request

LEMMA CrashStep == ASSUME IInv, Crash PROVE IInv'
<1>1. /\ worker' = Resting /\ UNCHANGED <<posts, indexed, files>>
      /\ removal' = [t \in Tasks |-> NoRemoval]
      /\ torn' = torn \cup UNION {Doomed(t) : t \in Tasks}
      /\ cut' = (cut \/ ~WithinBudget)
    BY DEF Crash, library, store
<1>2. WorkerShape' /\ worker'.at = "idle"
    BY <1>1, RestingFields DEF WorkerShape
<1>3. RemovalShape' /\ WorkerRemoves' /\ JustStored'
    BY <1>1, <1>2, NoRemovalType DEF RemovalShape, WorkerRemoves, JustStored, Tasks
<1>4. Excused \subseteq Excused'
    BY <1>1 DEF Excused
<1>5. indexed' \subseteq files' \cup Excused'
    BY <1>1, <1>4 DEF IInv
<1>6. BudgetUnlessCut'
  <2>1. WithinBudget' <=> WithinBudget
    BY <1>1 DEF WithinBudget
  <2> QED BY <1>1, <2>1 DEF BudgetUnlessCut
<1> QED BY <1>1, <1>2, <1>3, <1>5, <1>6 DEF IInv

-----------------------------------------------------------------------------
(* Every step *)

LEMMA NextKeepsIInv == IInv /\ [Next]_vars => IInv'
<1> SUFFICES ASSUME IInv, [Next]_vars PROVE IInv'
    OBVIOUS
<1>1. CASE Work
    BY <1>1, WorkStep
<1>2. CASE \/ \E p \in Posts : Save(p) \/ DropPost(p)
           \/ Pause \/ Resume \/ Toggle
    BY <1>2, OthersStep
<1>3. CASE \E t \in Removers : Request(t) \/ Clear(t) \/ \E p \in Posts : Unlink(t, p)
    BY <1>3, RequestStep, ClearStep, UnlinkStep
<1>4. CASE Crash
    BY <1>4, CrashStep
<1>5. CASE UNCHANGED vars
    BY <1>5, Aside DEF vars, IInv
<1> QED BY <1>1, <1>2, <1>3, <1>4, <1>5 DEF Next

LEMMA Inductive == Spec => []IInv
<1> QED BY InitIInv, NextKeepsIInv, PTL DEF Spec

-----------------------------------------------------------------------------
(* Types *)

\* The worker moves on, keeping its item.
LEMMA AtType ==
    ASSUME worker \in WorkerRecord, NEW step \in WorkerStep
    PROVE  At(step) \in WorkerRecord
BY DEF At, WorkerRecord

LEMMA RestingType == Resting \in WorkerRecord
<1>1. (CHOOSE p \in Posts : TRUE) \in Posts
    OBVIOUS
<1>2. <<>> \in Seq(Posts) /\ 0 \in 0..Attempts - 1
    OBVIOUS
<1> QED BY <1>1, <1>2 DEF Resting, WorkerRecord, WorkerStep

LEMMA InitType == Init => TypeOK
<1> SUFFICES ASSUME Init PROVE TypeOK
    OBVIOUS
<1>1. seen \in Seq(Posts)
  <2>1. Cardinality(Posts) \in Nat /\ seen \in [1..Cardinality(Posts) -> Posts]
    BY FS_CardinalityType DEF Init, Orders
  <2> QED BY <2>1
<1>2. removal \in [Tasks -> RemovalRecord]
    BY NoRemovalType DEF Init
<1> QED BY <1>1, <1>2, RestingType DEF Init, TypeOK

\* A batch is a sequence of posts, however many there are.
LEMMA StartPassType == ASSUME TypeOK, StartPass PROVE worker' \in WorkerRecord
<1>1. PICK batch \in [1..Cardinality(Newest) -> Newest] :
         worker' = [worker EXCEPT !.at = "item", !.batch = batch]
    BY DEF StartPass
<1>2. Newest \subseteq Posts
    BY DEF Newest, Pending
<1>3. Cardinality(Newest) \in Nat
    BY <1>2, FS_Subset, FS_CardinalityType
<1>4. batch \in Seq(Posts)
    BY <1>2, <1>3
<1> QED BY <1>1, <1>4 DEF TypeOK, WorkerRecord, WorkerStep

LEMMA NextItemType == ASSUME TypeOK, NextItem PROVE worker' \in WorkerRecord
<1>1. CASE paused \/ worker.batch = <<>>
    BY <1>1, RestingType DEF NextItem
<1>2. CASE ~(paused \/ worker.batch = <<>>)
  <2>1. PICK step \in Treatments(Head(worker.batch)) :
           worker' = [worker EXCEPT !.batch = Tail(worker.batch), !.post = Head(worker.batch),
                                    !.tries = 0, !.at = step]
    BY <1>2 DEF NextItem, TypeOK, WorkerRecord
  <2>2. step \in WorkerStep
    BY DEF Treatments, WorkerStep
  <2>3. worker.batch \in Seq(Posts) /\ worker.batch # <<>>
    BY <1>2 DEF TypeOK, WorkerRecord
  <2>4. Head(worker.batch) \in Posts /\ Tail(worker.batch) \in Seq(Posts)
    BY <2>3, HeadTailProperties
  <2>5. 0 \in 0..Attempts - 1
    OBVIOUS
  <2> QED BY <2>1, <2>2, <2>4, <2>5 DEF TypeOK, WorkerRecord
<1> QED BY <1>1, <1>2

LEMMA AttemptFailsType == ASSUME TypeOK, AttemptFails PROVE worker' \in WorkerRecord
<1>1. CASE worker.tries + 1 = Attempts
    BY <1>1, AtType DEF AttemptFails, AfterFailure, TypeOK, WorkerStep
<1>2. CASE worker.tries + 1 # Attempts
  <2>1. worker.tries + 1 \in 0..Attempts - 1
    BY <1>2 DEF TypeOK, WorkerRecord
  <2>2. worker' = [worker EXCEPT !.tries = worker.tries + 1, !.at = "loading"]
    BY <1>2 DEF AttemptFails, TypeOK, WorkerRecord
  <2> QED BY <2>1, <2>2 DEF TypeOK, WorkerRecord, WorkerStep
<1> QED BY <1>1, <1>2

\* A post that is saved goes to the front.
LEMMA SaveType == ASSUME TypeOK, NEW p \in Posts, Save(p) PROVE seen' \in Seq(Posts)
<1>1. PICK i \in DOMAIN seen :
         seen' = <<p>> \o SubSeq(seen, 1, i - 1) \o SubSeq(seen, i + 1, Len(seen))
    BY DEF Save
<1>2. seen \in Seq(Posts) /\ Len(seen) \in Nat /\ i \in 1..Len(seen)
    BY DEF TypeOK
<1>3. SubSeq(seen, 1, i - 1) \in Seq(Posts) /\ SubSeq(seen, i + 1, Len(seen)) \in Seq(Posts)
    BY <1>2, SubSeqProperties
<1>4. <<p>> \in Seq(Posts)
    OBVIOUS
<1> QED BY <1>1, <1>3, <1>4, ConcatProperties

LEMMA WorkType == ASSUME TypeOK, RemovalShape', Work PROVE TypeOK'
<1> USE DEF TypeOK, library, store, switches, ghosts
<1>1. CASE StartPass
    BY <1>1, StartPassType DEF StartPass
<1>2. CASE NextItem
    BY <1>2, NextItemType DEF NextItem
<1>3. CASE AttemptFails
    BY <1>3, AttemptFailsType DEF AttemptFails
<1>4. CASE Evict
    BY <1>4, AtType DEF Evict, RemovalShape, WorkerStep
<1>5. CASE Gone
    BY <1>5, AtType DEF Gone, WorkerStep
<1>6. CASE Unindex
    BY <1>6, AtType DEF Unindex, RemovalShape, WorkerStep
<1>7. CASE Purge
    BY <1>7, AtType DEF Purge, PostDeleted, WorkerStep
<1>8. ASSUME NEW p \in Posts, Download(p) PROVE TypeOK'
    BY <1>8, AtType DEF Download, OnDisk, WorkerStep
<1>9. ASSUME NEW p \in Posts, IndexOriginal(p) PROVE TypeOK'
    BY <1>9, AtType DEF IndexOriginal, HasPost, WorkerStep
<1>10. CASE Remove(Worker)
    BY <1>10, AtType DEF Remove, RemoveFile, DeleteRows, DeleteRowsFails, RemovalShape,
                        RemovalRecord, WorkerStep, Tasks
<1>11. CASE EvictionStops
    BY <1>11, AtType DEF EvictionStops, WorkerStep
<1> QED BY <1>1, <1>2, <1>3, <1>4, <1>5, <1>6, <1>7, <1>8, <1>9, <1>10, <1>11 DEF Work

LEMMA MoveType == TypeOK /\ Move => moves' \in Nat
BY DEF TypeOK, Move

LEMMA OthersType ==
    ASSUME TypeOK, RemovalShape',
           \/ \E p \in Posts : Save(p) \/ DropPost(p)
           \/ Pause \/ Resume \/ Toggle \/ Crash
    PROVE  TypeOK'
<1> USE DEF TypeOK, library, store, switches, ghosts
<1>1. ASSUME NEW p \in Posts, Save(p) PROVE TypeOK'
    BY <1>1, SaveType, MoveType DEF Save
<1>2. ASSUME NEW p \in Posts, DropPost(p) PROVE TypeOK'
    BY <1>2, MoveType DEF DropPost, PostDeleted
<1>3. CASE Pause \/ Resume
    BY <1>3, MoveType DEF Pause, Resume
<1>5. CASE Toggle
  <2>1. collecting' \in BOOLEAN
    BY <1>5, Zenon DEF Toggle
  <2>2. moves' \in Nat
    BY <1>5, MoveType DEF Toggle
  <2>3. UNCHANGED <<library, store, paused, worker, removal, ghosts>>
    BY <1>5 DEF Toggle
  <2> QED BY <2>1, <2>2, <2>3
<1>4. CASE Crash
  <2>1. \A t \in Tasks : Doomed(t) \subseteq Posts
    BY DEF Doomed, RemovalRecord
  <2>2. torn' \in SUBSET Posts
    BY <1>4, <2>1 DEF Crash
  <2>3. cut' \in BOOLEAN /\ paused' \in BOOLEAN
    BY <1>4, Zenon DEF Crash
  <2>4. worker' \in WorkerRecord /\ moves' \in Nat
    BY <1>4, RestingType, MoveType DEF Crash
  <2>5. UNCHANGED <<posts, owned, hidden, seen, indexed, files, collecting>>
    BY <1>4 DEF Crash
  <2> QED BY <2>2, <2>3, <2>4, <2>5 DEF RemovalShape
<1> QED BY <1>1, <1>2, <1>3, <1>4, <1>5

LEMMA RequestsType ==
    ASSUME TypeOK, RemovalShape', NEW t \in Removers,
           Request(t) \/ Clear(t) \/ \E p \in Posts : Unlink(t, p)
    PROVE  TypeOK'
<1> USE DEF TypeOK, library, store, switches, ghosts
<1>1. CASE CheckSaved(t) \/ LookUp(t) \/ RequestFails(t) \/ Clear(t)
    BY <1>1, MoveType DEF CheckSaved, LookUp, RequestFails, Clear, RemovalShape
<1>2. CASE \E p \in Posts : Unlink(t, p)
    BY <1>2, MoveType DEF Unlink, RemovalShape
<1>3. CASE Remove(t)
    BY <1>3, AtType DEF Remove, RemoveFile, DeleteRows, DeleteRowsFails, RemovalShape,
                        RemovalRecord, WorkerStep, Tasks
<1> QED BY <1>1, <1>2, <1>3 DEF Request

LEMMA NextKeepsType == TypeOK /\ IInv' /\ [Next]_vars => TypeOK'
<1> SUFFICES ASSUME TypeOK, IInv', [Next]_vars PROVE TypeOK'
    OBVIOUS
<1>1. RemovalShape'
    BY DEF IInv
<1>2. CASE UNCHANGED vars
    BY <1>2 DEF vars, TypeOK
<1> QED BY <1>1, <1>2, WorkType, OthersType, RequestsType DEF Next

-----------------------------------------------------------------------------
(* Theorems *)

\* Every reachable state is well typed: a row of the index references a post
\* (V28, media_entries.post_id), however often posts are dropped, saved and
\* moved to the front between the steps of the worker.
THEOREM TypeCorrect == Spec => []TypeOK
<1> QED BY InitType, NextKeepsType, Inductive, PTL DEF Spec

\* For any number of requests that delete posts or clear the cache beside the
\* worker, a row without its file is one of the three kinds that are accounted
\* for (store_original, delete_and_unindex, clear_cache).
THEOREM RowsHaveFiles == Spec => []RowHasFileUnlessTorn
<1>1. IInv => RowHasFileUnlessTorn
    BY DEF IInv, Excused, RowHasFileUnlessTorn
<1> QED BY <1>1, Inductive, PTL

\* For every budget and size of eviction, the index is over its budget only
\* while it is evicted or after an eviction was cut short (evict_to_budget).
THEOREM BudgetHolds == Spec => []BudgetUnlessCut
<1>1. IInv => BudgetUnlessCut
    BY DEF IInv
<1> QED BY <1>1, Inductive, PTL
=============================================================================
