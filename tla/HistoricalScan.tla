---------------------------- MODULE HistoricalScan ----------------------------
(***************************************************************************)
(* The historical_test mode: MiningController::run_historical              *)
(* (mining_controller.cpp) over the part of WorkAllocator it uses           *)
(* (work_allocator.cpp, prepare_historical).                               *)
(*                                                                         *)
(* Worker threads scan one range of nonces of a fixed header until one of   *)
(* them finds a hash under the target; the main thread saves the allocator  *)
(* now and then, and a later process resumes from the file.  In this mode   *)
(* no unit is ever erased: units_ is a sequence, and the methods that take  *)
(* an id act on the first unit that has it.  The workers look at the stop   *)
(* flags before every nonce, so a nonce is a nonce here.                    *)
(***************************************************************************)
EXTENDS Integers, Sequences

CONSTANTS
  Count,        \* config.cpu.threads, at least 1
  Headers,      \* what header_id tells apart: the first 76 bytes
  Ranges,       \* the <<nonce_start, nonce_end>> pairs the operator configures
  Hits,         \* Hits[h]: the nonces of h whose hash meets the target
  Batch,        \* hashes between two update_progress calls, 65536 in the code
  CanStop,      \* does the operator ever press Ctrl+C?
  CanCrash,     \* may the power fail?
  MaxRuns,      \* bound on the processes started
  NoMeta        \* no range was ever prepared

ASSUME ScanAssumption ==
  /\ Count \in Nat \ {0} /\ Batch \in Nat \ {0} /\ MaxRuns \in Nat
  /\ CanStop \in BOOLEAN /\ CanCrash \in BOOLEAN
  /\ Ranges \subseteq Nat \X Nat /\ \A r \in Ranges : r[1] < r[2]
  /\ Hits \in [Headers -> SUBSET Nat]
  /\ NoMeta \notin Headers \X Ranges

VARIABLES
  units,     \* units_ of the allocator
  meta,      \* header_id, nonce_start and nonce_end of metadata_
  disk,      \* state/historical_state.json
  thr,       \* the worker threads
  found,     \* the flag the workers share
  stopped,   \* stop_requested
  main,      \* where the main thread is
  saved,     \* the candidates on disk, as <<header, nonce>>
  hashed,    \* history: the nonces of the range that this process or the
             \* checkpoint it started from has behind it
  runs       \* processes started so far

vars == <<units, meta, disk, thr, found, stopped, main, saved, hashed, runs>>

Threads == 1..Count
Header == meta[1]
Nonces(r) == r[1]..(r[2] - 1)

Open(u) == u.status \in {"pending", "in_progress"}

(* The nonces the open units still have to scan. *)
Waiting(us) ==
  UNION {us[i].next .. (us[i].end - 1) : i \in {k \in DOMAIN us : Open(us[k])}}

-----------------------------------------------------------------------------
(***************************************************************************)
(* WorkAllocator in this mode.                                             *)
(***************************************************************************)
LoadExisting(us) ==
  [i \in DOMAIN us |->
     IF us[i].status = "in_progress" THEN [us[i] EXCEPT !.status = "pending"] ELSE us[i]]

(* The ids are made of the header, the round (always 64) and the index. *)
Cut(r, i) == r[1] + ((r[2] - r[1]) * i) \div Count

ScanUnits(h, r) ==
  [i \in Threads |-> [id |-> <<h, i>>, start |-> Cut(r, i - 1), end |-> Cut(r, i),
                      next |-> Cut(r, i - 1), status |-> "pending"]]

MarkStale(us) ==
  [i \in DOMAIN us |->
     IF us[i].status = "complete" THEN us[i] ELSE [us[i] EXCEPT !.status = "stale"]]

Compatible(st, h, r) ==
  /\ st.meta = <<h, r>>
  /\ \E i \in DOMAIN st.units : st.units[i].id[1] = h /\ st.units[i].status # "stale"

PrepareHistorical(st, h, r) ==
  IF Compatible(st, h, r) THEN st.units ELSE MarkStale(st.units) \o ScanUnits(h, r)

(* The first unit in the vector that satisfies a condition. *)
IsFirst(S, i) == i \in S /\ \A k \in S : i <= k

WithId(id) == {i \in DOMAIN units : units[i].id = id}
Acquirable == {i \in DOMAIN units : units[i].status = "pending" /\ units[i].next < units[i].end}

Clamp(n, u) == IF n < u.start THEN u.start ELSE IF n > u.end THEN u.end ELSE n

UpdateProgress(id, n) ==
  [i \in DOMAIN units |->
     IF IsFirst(WithId(id), i) /\ Open(units[i])
     THEN [units[i] EXCEPT !.next = Clamp(n, units[i])] ELSE units[i]]

\* Mutant of Complete: the cursor moves to the end, the status stays.
CompleteCursorOnly(id) ==
  [i \in DOMAIN units |->
     IF IsFirst(WithId(id), i) THEN [units[i] EXCEPT !.next = units[i].end] ELSE units[i]]

Complete(id) ==
  [i \in DOMAIN units |->
     IF IsFirst(WithId(id), i)
     THEN [units[i] EXCEPT !.next = units[i].end, !.status = "complete"] ELSE units[i]]

Release(id) ==
  [i \in DOMAIN units |->
     IF IsFirst({k \in WithId(id) : units[k].status = "in_progress"}, i)
     THEN [units[i] EXCEPT !.status = "pending"] ELSE units[i]]

-----------------------------------------------------------------------------
NoThread(pc) == [pc |-> pc, id |-> <<>>, next |-> 0, end |-> 0, pending |-> 0, stop |-> FALSE]

Init ==
  /\ units = <<>> /\ meta = NoMeta /\ disk = [units |-> <<>>, meta |-> NoMeta]
  /\ thr = [t \in Threads |-> NoThread("done")]
  /\ found = FALSE /\ stopped = FALSE
  /\ main = "off" /\ saved = {} /\ hashed = {} /\ runs = 0

(* A process is there, whatever its main thread is doing. *)
Running == {"watch", "sleep", "join", "save", "unwind"}

(***************************************************************************)
(* A process starts: the file is loaded, the range prepared, the threads    *)
(* started.  Nothing else runs before that.                                *)
(***************************************************************************)
Start(h, r) ==
  /\ main \notin Running /\ runs < MaxRuns
  /\ runs' = runs + 1
  /\ units' = PrepareHistorical([disk EXCEPT !.units = LoadExisting(@)], h, r)
  /\ meta' = <<h, r>>
  /\ hashed' = IF Compatible([disk EXCEPT !.units = LoadExisting(@)], h, r)
               THEN Nonces(r) \ Waiting(disk.units) ELSE {}
  /\ thr' = [t \in Threads |-> NoThread("check")]
  /\ found' = FALSE /\ stopped' = FALSE /\ main' = "watch"
  /\ UNCHANGED <<disk, saved>>

Interrupted == found \/ stopped

(* Whether the thread goes on to another unit; only here it sees its token. *)
Check(t) ==
  /\ thr[t].pc = "check"
  /\ thr' = [thr EXCEPT ![t].pc = IF thr[t].stop \/ Interrupted THEN "done" ELSE "acquire"]
  /\ UNCHANGED <<units, meta, disk, found, stopped, main, saved, hashed, runs>>

Acquire(t) ==
  /\ thr[t].pc = "acquire"
  /\ \E i \in DOMAIN units :
       /\ IsFirst(Acquirable, i)
       /\ units' = [units EXCEPT ![i].status = "in_progress"]
       /\ thr' = [thr EXCEPT ![t].pc = "scan", ![t].id = units[i].id,
                    ![t].next = units[i].next, ![t].end = units[i].end, ![t].pending = 0]
  /\ UNCHANGED <<meta, disk, found, stopped, main, saved, hashed, runs>>

AcquireNone(t) ==
  /\ thr[t].pc = "acquire" /\ Acquirable = {}
  /\ thr' = [thr EXCEPT ![t].pc = "done"]
  /\ UNCHANGED <<units, meta, disk, found, stopped, main, saved, hashed, runs>>

(* The head of the nonce loop, and the flush that follows the loop. *)
LeaveLoop(t) ==
  /\ thr[t].pc = "scan" /\ (thr[t].next >= thr[t].end \/ Interrupted)
  /\ units' = IF thr[t].pending = 0 THEN units ELSE UpdateProgress(thr[t].id, thr[t].next)
  /\ thr' = [thr EXCEPT ![t].pc = "settle", ![t].pending = 0]
  /\ UNCHANGED <<meta, disk, found, stopped, main, saved, hashed, runs>>

EnterLoop(t) ==
  /\ thr[t].pc = "scan" /\ thr[t].next < thr[t].end /\ ~Interrupted
  /\ thr' = [thr EXCEPT ![t].pc = "hash"]
  /\ UNCHANGED <<units, meta, disk, found, stopped, main, saved, hashed, runs>>

(* The rest of the loop body: the cursor moves, and is published by batches. *)
Publish(t) ==
  /\ units' = IF thr[t].pending + 1 = Batch THEN UpdateProgress(thr[t].id, thr[t].next + 1)
                                            ELSE units
  /\ thr' = [thr EXCEPT ![t].pc = "scan", ![t].next = @ + 1,
                        ![t].pending = IF @ + 1 = Batch THEN 0 ELSE @ + 1]

(***************************************************************************)
(* A hash under the target: only the first thread to set found saves its    *)
(* candidate, before its cursor moves past the nonce.                      *)
(***************************************************************************)
IsHit(t) == thr[t].next \in Hits[Header]

\* Mutant of Hash: the cursor is published before the candidate is saved.
HashPublishFirst(t) ==
  /\ thr[t].pc = "hash"
  /\ hashed' = hashed \cup {thr[t].next}
  /\ found' = (found \/ IsHit(t))
  /\ IF IsHit(t) /\ ~found
     THEN /\ units' = UpdateProgress(thr[t].id, thr[t].next + 1)
          /\ thr' = [thr EXCEPT ![t].pc = "save"]
     ELSE Publish(t)
  /\ UNCHANGED <<meta, disk, stopped, main, saved, runs>>

Hash(t) ==
  /\ thr[t].pc = "hash"
  /\ hashed' = hashed \cup {thr[t].next}
  /\ found' = (found \/ IsHit(t))
  /\ IF IsHit(t) /\ ~found
     THEN thr' = [thr EXCEPT ![t].pc = "save"] /\ UNCHANGED units
     ELSE Publish(t)
  /\ UNCHANGED <<meta, disk, stopped, main, saved, runs>>

SaveCandidate(t) ==
  /\ thr[t].pc = "save"
  /\ saved' = saved \cup {<<Header, thr[t].next>>}
  /\ Publish(t)
  /\ UNCHANGED <<meta, disk, found, stopped, main, hashed, runs>>

CompleteUnit(t) ==
  /\ thr[t].pc = "settle" /\ thr[t].next >= thr[t].end
  /\ units' = Complete(thr[t].id)
  /\ thr' = [thr EXCEPT ![t].pc = "check"]
  /\ UNCHANGED <<meta, disk, found, stopped, main, saved, hashed, runs>>

ReleaseUnit(t) ==
  /\ thr[t].pc = "settle" /\ thr[t].next < thr[t].end
  /\ units' = Release(thr[t].id)
  /\ thr' = [thr EXCEPT ![t].pc = "check"]
  /\ UNCHANGED <<meta, disk, found, stopped, main, saved, hashed, runs>>

Worker(t) ==
  \/ Check(t) \/ Acquire(t) \/ AcquireNone(t) \/ EnterLoop(t) \/ LeaveLoop(t)
  \/ Hash(t) \/ SaveCandidate(t) \/ CompleteUnit(t) \/ ReleaseUnit(t)

-----------------------------------------------------------------------------
(***************************************************************************)
(* The main thread: it watches until something is found, Ctrl+C is pressed  *)
(* or no unit is open, then joins the workers and writes the last           *)
(* checkpoint.  A save that fails throws out of run_historical: the         *)
(* destructors of the threads ask for the stop and join.                   *)
(***************************************************************************)
AskStop == thr' = [t \in Threads |-> [thr[t] EXCEPT !.stop = TRUE]]

NoOpenUnit == \A i \in DOMAIN units : ~Open(units[i])

EndWatch ==
  /\ main = "watch" /\ (Interrupted \/ NoOpenUnit)
  /\ AskStop /\ main' = "join"
  /\ UNCHANGED <<units, meta, disk, found, stopped, saved, hashed, runs>>

Sleep ==
  /\ main = "watch" /\ ~Interrupted /\ ~NoOpenUnit
  /\ main' = "sleep"
  /\ UNCHANGED <<units, meta, disk, thr, found, stopped, saved, hashed, runs>>

(* After the sleep the checkpoint is due, or not yet. *)
Wake ==
  /\ main = "sleep"
  /\ main' = "watch"
  /\ disk' \in {disk, [units |-> units, meta |-> meta]}
  /\ UNCHANGED <<units, meta, thr, found, stopped, saved, hashed, runs>>

PeriodicSaveFails ==
  /\ main = "sleep"
  /\ AskStop /\ main' = "unwind"
  /\ UNCHANGED <<units, meta, disk, found, stopped, saved, hashed, runs>>

AllDone == \A t \in Threads : thr[t].pc = "done"

\* Mutant of Joined: the last checkpoint does not wait for the threads.
JoinedAtOnce ==
  /\ main \in {"join", "unwind"}
  /\ main' = IF main = "join" THEN "save" ELSE "failed"
  /\ UNCHANGED <<units, meta, disk, thr, found, stopped, saved, hashed, runs>>

Joined ==
  /\ main \in {"join", "unwind"} /\ AllDone
  /\ main' = IF main = "join" THEN "save" ELSE "failed"
  /\ UNCHANGED <<units, meta, disk, thr, found, stopped, saved, hashed, runs>>

FinalSave ==
  /\ main = "save"
  /\ \/ disk' = [units |-> units, meta |-> meta] /\ main' = "exited"
     \/ main' = "failed" /\ UNCHANGED disk
  /\ UNCHANGED <<units, meta, thr, found, stopped, saved, hashed, runs>>

CtrlC ==
  /\ CanStop /\ main \in Running /\ ~stopped
  /\ stopped' = TRUE
  /\ UNCHANGED <<units, meta, disk, thr, found, main, saved, hashed, runs>>

(* A power failure, or a candidate that cannot be saved: the exception leaves
   the thread function and the process ends. *)
Crash ==
  /\ CanCrash \/ \E t \in Threads : thr[t].pc = "save"
  /\ main \in Running
  /\ thr' = [t \in Threads |-> NoThread("done")]
  /\ main' = "off"
  /\ UNCHANGED <<units, meta, disk, found, stopped, saved, hashed, runs>>

MainThread == Sleep \/ Wake \/ EndWatch \/ Joined \/ FinalSave

(* A process that ended is over, unless another one is started. *)
Ended == main \notin Running /\ UNCHANGED vars

Next ==
  \/ \E h \in Headers, r \in Ranges : Start(h, r)
  \/ \E t \in Threads : Worker(t)
  \/ MainThread \/ PeriodicSaveFails
  \/ CtrlC \/ Crash \/ Ended

Spec == Init /\ [][Next]_vars

(* The scheduler runs every thread, and hashing and saving end. *)
Fairness == (\A t \in Threads : WF_vars(Worker(t))) /\ WF_vars(MainThread)

FairSpec == Spec /\ Fairness

-----------------------------------------------------------------------------
Unit == [id : Headers \X Threads, start : Nat, end : Nat, next : Nat,
         status : {"pending", "in_progress", "complete", "stale"}]
UnitOK(u) == u \in Unit /\ u.start <= u.next /\ u.next <= u.end
Metas == (Headers \X Ranges) \cup {NoMeta}

(* The type invariant, the place of the cursors in their ranges included. *)
TypeOK ==
  /\ units \in Seq(Unit) /\ \A i \in DOMAIN units : UnitOK(units[i])
  /\ disk.units \in Seq(Unit) /\ \A i \in DOMAIN disk.units : UnitOK(disk.units[i])
  /\ meta \in Metas /\ disk.meta \in Metas
  /\ \A t \in Threads :
       /\ thr[t].pc \in {"check", "acquire", "scan", "hash", "save", "settle", "done"}
       /\ thr[t].next <= thr[t].end /\ thr[t].pending < Batch
  /\ found \in BOOLEAN /\ stopped \in BOOLEAN
  /\ main \in Running \cup {"off", "exited", "failed"}
  /\ saved \subseteq Headers \X Nat /\ hashed \subseteq Nat /\ runs \in Nat

(***************************************************************************)
(* A solution is never lost: as long as a range with a hit has no saved     *)
(* candidate, the checkpoint a restart would resume from still has a hit to *)
(* scan.  The thread that finds a hit saves it before its cursor moves on,  *)
(* and another thread may move its cursor past a hit of its own only while  *)
(* that one is being saved.                                                *)
(***************************************************************************)
HitNeverLost ==
  disk.meta # NoMeta =>
    LET h == disk.meta[1]
        hits == Hits[h] \cap Nonces(disk.meta[2])
    IN hits # {} => \/ hits \cap Waiting(disk.units) # {}
                    \/ \E n \in hits : <<h, n>> \in saved

\* The invariant of the checkpoint: its types, and no hit lost.
ScanInv == TypeOK /\ HitNeverLost

(***************************************************************************)
(* README: a clean stop resumes exactly at the saved nonce_next.  After the *)
(* last checkpoint, what the file has left to scan is what was not hashed.  *)
(***************************************************************************)
CleanStopIsExact ==
  main = "exited" => Waiting(disk.units) = Nonces(meta[2]) \ hashed

(***************************************************************************)
(* The scan ends: with a candidate, at Ctrl+C, or when the range is done.   *)
(* Not so from a checkpoint taken between the last update_progress of a     *)
(* unit and its complete: acquire skips a pending unit that has no nonce    *)
(* left, the loop of the main thread counts it as work and waits for ever.  *)
(***************************************************************************)
HalfFinished ==
  \E i \in DOMAIN units : units[i].status = "pending" /\ units[i].next >= units[i].end

ScanEnds ==
  (main \in {"watch", "sleep"} /\ ~HalfFinished) ~> (main \notin {"watch", "sleep"})
=============================================================================
