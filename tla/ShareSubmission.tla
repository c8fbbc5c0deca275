--------------------------- MODULE ShareSubmission ---------------------------
(***************************************************************************)
(* What happens to a proof of work from the moment a worker finds it until  *)
(* the pool has answered (MiningController::on_candidate and the submission *)
(* callback, StratumClient::submit and handle, BestPowTracker, ResultLogger, *)
(* the candidate buffer of the GPU).  The workers call on_candidate on their *)
(* own threads; answers, jobs and disconnections are handled one at a time   *)
(* on the network thread, which joins the workers when the work changes.    *)
(***************************************************************************)
EXTENDS Integers, Sequences, FiniteSets

CONSTANTS
  Cpu, Gpu,       \* the two worker threads
  Kind,           \* Kind[f]: what the hash of find f meets; f orders the hashes
  BufferSize,     \* candidates one GPU launch can return (64 in the code)
  KeepAudits,     \* logging.save_share_audits
  KeepCandidates, \* logging.save_block_candidates
  Accepts,        \* the solutions the pool accepts
  FirstId,        \* the first submission id (100 in the code)
  MaxJobs,        \* bound: jobs of one process
  MaxTroubles,    \* bound: lost connections, failed writes and kills together
  None

Workers == {Cpu, Gpu}
Finds == DOMAIN Kind

(* A call of on_candidate: for a hash that meets the target, or for the best
   hash of a thread, which is reported again as a personal best. *)
Solutions == Finds \X {"target", "best"}

ASSUME SubmissionAssumption ==
  /\ Cpu # Gpu /\ None \notin Workers \cup {"net"} \cup Solutions
  /\ Kind \in Seq({"plain", "share", "network"}) /\ None \notin Finds
  /\ {KeepAudits, KeepCandidates} \subseteq BOOLEAN
  /\ BufferSize \in Nat \ {0} /\ Accepts \subseteq Solutions
  /\ {FirstId, MaxJobs, MaxTroubles} \subseteq Nat

ShareCandidate(s) == s[2] = "target" /\ Kind[s[1]] # "plain"
NetworkCandidate(s) == Kind[s[1]] = "network"

VARIABLES
  generation,  \* active_generation
  link,        \* the TCP connection works
  conn,        \* is_connected and is_authorized
  net,         \* the network thread: [pc, id, sol, accepted]
  w,           \* the worker threads
  owner,       \* who holds submissions_mutex
  nextId,      \* StratumClient: next_id
  awaited,     \* StratumClient: pending_submissions
  filed,       \* MiningController: pending_submissions, as pairs <<id, solution>>
  requests,    \* the submissions the pool has received and whose answer, if any,
               \* the network thread has not read: pairs <<id, solution>>
  best,        \* BestPowTracker: current_, and who holds its mutex
  bestFile,    \* best_pow_all_time.json
  records,     \* best_pow_records.jsonl
  candidate,   \* the status in the block_candidate file of each solution
  audit,       \* the last status in the share audit of each solution
  found,       \* history: hashes found
  dropped,     \* history: hits a GPU launch had no room for
  breaks,      \* connections lost so far
  faults       \* writes that failed and kills so far

files == <<bestFile, records, candidate, audit>>
client == <<nextId, awaited>>
vars == <<generation, link, conn, net, w, owner, client, filed, requests, best, files,
          found, dropped, breaks, faults>>

Off == [up |-> FALSE, auth |-> FALSE]
NoAnswer == [pc |-> "offline", id |-> 0, sol |-> None, accepted |-> FALSE]
Listening == [NoAnswer EXCEPT !.pc = "listen"]

(* A worker between two calls: `queue` is what it still has to report. *)
NoWorker == [pc |-> "none", gen |-> 0, best |-> None, queue |-> {}, sol |-> None,
             active |-> FALSE, can |-> FALSE, id |-> 0]
Started(gen) == [NoWorker EXCEPT !.pc = "hash", !.gen = gen]

Init ==
  /\ generation = 0 /\ link = FALSE /\ conn = Off /\ net = NoAnswer
  /\ w = [t \in Workers |-> NoWorker] /\ owner = None
  /\ nextId = FirstId /\ awaited = {} /\ filed = {}
  /\ requests = {}
  /\ best = [hash |-> None, owner |-> None] /\ bestFile = None /\ records = <<>>
  /\ candidate = [s \in Solutions |-> "none"] /\ audit = [s \in Solutions |-> "none"]
  /\ found = {} /\ dropped = {} /\ breaks = 0 /\ faults = 0

Go(t, pc) == w' = [w EXCEPT ![t].pc = pc]

\* on_candidate returns.
Done(th) == [th EXCEPT !.pc = "hash", !.sol = None, !.active = FALSE, !.can = FALSE, !.id = 0]
Return(t) == w' = [w EXCEPT ![t] = Done(@)]

(* A write succeeds, or throws PersistenceError. *)
Disk(ok) ==
  \/ ok /\ faults' = faults
  \/ ~ok /\ breaks + faults < MaxTroubles /\ faults' = faults + 1

Better(f, than) == IF than = None THEN TRUE ELSE f < than

-----------------------------------------------------------------------------
(* The miners.  A batch of nonces is hashed, H are the notable ones.  A GPU
   launch looks for shares and, after the first, for what beats the best it has
   returned; it returns BufferSize of its hits, in whatever order the work items
   came.  A CPU worker hands over no share of a generation that has passed. *)
Hits(t, H) == {f \in H : Kind[f] # "plain" \/ (t = Gpu /\ w[t].best # None /\ f < w[t].best)}

Handed(t, H, K) ==
  /\ K \subseteq Hits(t, H)
  /\ IF t = Gpu
       THEN Cardinality(K) = (IF Cardinality(Hits(t, H)) > BufferSize
                                THEN BufferSize ELSE Cardinality(Hits(t, H)))
       ELSE K = IF w[t].gen = generation THEN Hits(t, H) ELSE {}

Top(H) == CHOOSE f \in H : \A g \in H : f <= g

\* A CPU worker starts every unit without a best hash; the GPU thread keeps its
\* personal target from unit to unit.
BestBefore(t) == IF t = Cpu THEN {None, w[t].best} ELSE {w[t].best}

\* The best hash so far is reported too: by the CPU at the end of a batch when
\* it is new, by the GPU from the minima of its first launch.
Personal(t, H, b) == IF Better(Top(H), b) /\ (t = Cpu \/ b = None) THEN {Top(H)} ELSE {}

BestAfter(b, R) == IF R # {} /\ Better(Top(R), b) THEN Top(R) ELSE b

Batch(t, H) ==
  /\ w[t].pc = "hash" /\ w[t].queue = {} /\ H # {} /\ H \cap found = {}
  /\ \E K \in SUBSET H, b \in BestBefore(t) :
       LET own == Personal(t, H, b) IN
       /\ Handed(t, H, K)
       /\ dropped' = IF t = Gpu THEN dropped \cup (Hits(t, H) \ (K \cup own)) ELSE dropped
       /\ w' = [w EXCEPT ![t].best = BestAfter(b, K \cup own),
                         ![t].queue = (K \X {"target"}) \cup (own \X {"best"})]
  /\ found' = found \cup H
  /\ UNCHANGED <<generation, link, conn, net, owner, client, filed, requests, best,
                 files, breaks, faults>>

\* Mutant of Report: stale work is not even recorded.
ReportActive(t, s) ==
  /\ w[t].pc = "hash" /\ s \in w[t].queue
  /\ w' = [w EXCEPT ![t].pc = IF w[t].gen = generation THEN "observe" ELSE "hash",
                    ![t].sol = s, ![t].queue = @ \ {s}, ![t].active = TRUE]
  /\ UNCHANGED <<generation, link, conn, net, owner, client, filed, requests, best,
                 files, found, dropped, breaks, faults>>

(* The top of on_candidate: the generation is read here and not again. *)
Report(t, s) ==
  /\ w[t].pc = "hash" /\ s \in w[t].queue
  /\ w' = [w EXCEPT ![t].pc = "observe", ![t].sol = s, ![t].queue = @ \ {s},
                    ![t].active = (w[t].gen = generation)]
  /\ UNCHANGED <<generation, link, conn, net, owner, client, filed, requests, best,
                 files, found, dropped, breaks, faults>>

-----------------------------------------------------------------------------
(* BestPowTracker::observe, under its mutex: the file is replaced, then the
   history is appended to. *)
NotRecord(t) ==
  /\ w[t].pc = "observe" /\ best.owner = None
  /\ ~Better(w[t].sol[1], best.hash)
  /\ Go(t, "gate")
  /\ UNCHANGED <<generation, link, conn, net, owner, client, filed, requests, best,
                 files, found, dropped, breaks, faults>>

SaveBest(t) ==
  /\ w[t].pc = "observe" /\ best.owner = None
  /\ Better(w[t].sol[1], best.hash)
  /\ \E ok \in BOOLEAN :
       /\ Disk(ok)
       /\ IF ok
            THEN /\ bestFile' = w[t].sol[1]
                 /\ best' = [hash |-> w[t].sol[1], owner |-> t] /\ Go(t, "append")
            ELSE /\ Go(t, "gate")
                 /\ UNCHANGED <<best, bestFile>>
  /\ UNCHANGED <<generation, link, conn, net, owner, client, filed, requests,
                 records, candidate, audit, found, dropped, breaks>>

AppendRecord(t) ==
  /\ w[t].pc = "append"
  /\ \E ok \in BOOLEAN :
       /\ Disk(ok)
       /\ records' = IF ok THEN Append(records, w[t].sol[1]) ELSE records
  /\ Go(t, "gate")
  /\ best' = [best EXCEPT !.owner = None]
  /\ UNCHANGED <<generation, link, conn, net, owner, client, filed, requests, bestFile,
                 candidate, audit, found, dropped, breaks>>

-----------------------------------------------------------------------------
(* The rest of on_candidate.  The hash of stale work has been recorded and is
   never submitted; active work that meets a target goes on.  (The lines of
   high_difficulty_shares.jsonl are left out: nothing reads them and a failure
   to append one changes nothing.) *)
Submittable(t) == w[t].active /\ (ShareCandidate(w[t].sol) \/ NetworkCandidate(w[t].sol))

Gate(t) ==
  /\ w[t].pc = "gate"
  /\ IF Submittable(t)
       THEN w' = [w EXCEPT ![t].pc = IF NetworkCandidate(w[t].sol) THEN "candidate" ELSE "audit",
                           ![t].can = conn.up /\ conn.auth]
       ELSE Return(t)
  /\ UNCHANGED <<generation, link, conn, net, owner, client, filed, requests, best, files,
                 found, dropped, breaks, faults>>

(* What the files say of a solution before it is sent. *)
Status(t) == IF w[t].can THEN "pending" ELSE "not_submitted"

\* The network candidate is saved first.  When that fails nothing is sent: the
\* file is tried once more, then the audit, and either may fail again.
SaveCandidate(t) ==
  /\ w[t].pc = "candidate"
  /\ \/ /\ candidate' = IF KeepCandidates THEN [candidate EXCEPT ![w[t].sol] = Status(t)]
                                          ELSE candidate
        /\ Go(t, "audit") /\ UNCHANGED <<audit, faults>>
     \/ /\ KeepCandidates /\ Disk(FALSE)
        /\ candidate' \in {candidate, [candidate EXCEPT ![w[t].sol] = "local_error"]}
        /\ audit' \in {audit} \cup
              (IF KeepAudits THEN {[audit EXCEPT ![w[t].sol] = "local_error"]} ELSE {})
        /\ Return(t)
  /\ UNCHANGED <<generation, link, conn, net, owner, client, filed, requests, best,
                 bestFile, records, found, dropped, breaks>>

\* Mutant of SaveAudit: a share whose audit cannot be written is sent all the same.
SaveAuditLoosely(t) ==
  /\ w[t].pc = "audit"
  /\ \E ok \in BOOLEAN :
       /\ Disk(ok)
       /\ audit' = IF ok /\ KeepAudits THEN [audit EXCEPT ![w[t].sol] = Status(t)] ELSE audit
  /\ IF w[t].can THEN Go(t, "submit") ELSE Return(t)
  /\ UNCHANGED <<generation, link, conn, net, owner, client, filed, requests, best,
                 bestFile, records, candidate, found, dropped, breaks>>

\* The audit of a network candidate is secondary, that of a share is not.
SaveAudit(t) ==
  /\ w[t].pc = "audit"
  /\ \E ok \in BOOLEAN :
       /\ Disk(ok) /\ (~KeepAudits => ok)
       /\ IF ok THEN audit' = IF KeepAudits THEN [audit EXCEPT ![w[t].sol] = Status(t)] ELSE audit
          ELSE IF NetworkCandidate(w[t].sol) THEN audit' = audit
          ELSE \E again \in BOOLEAN :
                 audit' = IF again THEN [audit EXCEPT ![w[t].sol] = "local_error"] ELSE audit
       /\ IF w[t].can /\ (ok \/ NetworkCandidate(w[t].sol)) THEN Go(t, "submit") ELSE Return(t)
  /\ UNCHANGED <<generation, link, conn, net, owner, client, filed, requests, best,
                 bestFile, records, candidate, found, dropped, breaks>>

-----------------------------------------------------------------------------
(* The submission: submissions_mutex is held from before the id is drawn until
   the solution is filed under it and its files name it. *)
\* Mutant of DrawId: the id is drawn outside submissions_mutex.
DrawIdUnlocked(t) ==
  /\ w[t].pc = "submit"
  /\ nextId' = nextId + 1 /\ awaited' = awaited \cup {nextId}
  /\ w' = [w EXCEPT ![t].pc = "send", ![t].id = nextId]
  /\ UNCHANGED <<generation, link, conn, net, owner, filed, requests, best, files,
                 found, dropped, breaks, faults>>

DrawId(t) ==
  /\ w[t].pc = "submit" /\ owner = None
  /\ owner' = t
  /\ nextId' = nextId + 1 /\ awaited' = awaited \cup {nextId}
  /\ w' = [w EXCEPT ![t].pc = "send", ![t].id = nextId]
  /\ UNCHANGED <<generation, link, conn, net, filed, requests, best, files, found,
                 dropped, breaks, faults>>

Send(t) ==
  /\ w[t].pc = "send" /\ conn.up
  /\ requests' = IF link THEN requests \cup {<<w[t].id, w[t].sol>>} ELSE requests
  /\ Go(t, "file")
  /\ UNCHANGED <<generation, link, conn, net, owner, client, filed,
                 best, files, found, dropped, breaks, faults>>

\* The socket is closed, or the write fails: the id is taken back and the lock
\* released as the exception leaves the block.
SendFails(t) ==
  /\ w[t].pc = "send" /\ ~(conn.up /\ link)
  /\ awaited' = awaited \ {w[t].id} /\ owner' = None
  /\ Go(t, "error")
  /\ UNCHANGED <<generation, link, conn, net, nextId, filed, requests, best, files,
                 found, dropped, breaks, faults>>

(* update_candidate and update_share_audit: a file that was never written is
   left alone, and either write may fail. *)
Update(s, status) ==
  LET there == {file \in {"candidate", "audit"} :
                  (IF file = "candidate" THEN candidate ELSE audit)[s] # "none"}
  IN  \E written \in SUBSET there :
        /\ faults' = faults + Cardinality(there \ written) /\ breaks + faults' <= MaxTroubles
        /\ candidate' = IF "candidate" \in written THEN [candidate EXCEPT ![s] = status] ELSE candidate
        /\ audit' = IF "audit" \in written THEN [audit EXCEPT ![s] = status] ELSE audit

LocalError(t) ==
  /\ w[t].pc = "error"
  /\ Update(w[t].sol, "local_error") /\ Return(t)
  /\ UNCHANGED <<generation, link, conn, net, owner, client, filed, requests, best,
                 bestFile, records, found, dropped, breaks>>

\* Mutant of File: submissions_mutex is released before the files are updated.
FileAndRelease(t) ==
  /\ w[t].pc = "file"
  /\ filed' = filed \cup {<<w[t].id, w[t].sol>>} /\ owner' = None
  /\ Go(t, "update")
  /\ UNCHANGED <<generation, link, conn, net, client, requests, best, files, found,
                 dropped, breaks, faults>>

File(t) ==
  /\ w[t].pc = "file"
  /\ filed' = filed \cup {<<w[t].id, w[t].sol>>}
  /\ Go(t, "update")
  /\ UNCHANGED <<generation, link, conn, net, owner, client, requests, best, files,
                 found, dropped, breaks, faults>>

\* "sent": still pending in the files, now with the id of the submission.
UpdateSent(t) ==
  /\ w[t].pc = "update"
  /\ Update(w[t].sol, "sent")
  /\ owner' = IF owner = t THEN None ELSE owner
  /\ Return(t)
  /\ UNCHANGED <<generation, link, conn, net, client, filed, requests, best, bestFile,
                 records, found, dropped, breaks>>

-----------------------------------------------------------------------------
(* The network thread. *)
Connect ==
  /\ net.pc = "offline" /\ \A t \in Workers : w[t].pc = "none"
  /\ link' = TRUE /\ conn' = [up |-> TRUE, auth |-> FALSE] /\ net' = Listening
  /\ UNCHANGED <<generation, w, owner, client, filed, requests, best, files, found,
                 dropped, breaks, faults>>

Authorized ==
  /\ net.pc = "listen" /\ link /\ ~conn.auth
  /\ conn' = [conn EXCEPT !.auth = TRUE]
  /\ UNCHANGED <<generation, link, net, w, owner, client, filed, requests, best, files,
                 found, dropped, breaks, faults>>

(* launch_job: the generation moves on, the workers are joined, then started. *)
\* Mutant of NewJob: the callback keeps submissions_mutex while it joins.
NewJobLocked ==
  /\ net.pc = "listen" /\ link /\ conn.auth /\ generation < MaxJobs + breaks /\ owner = None
  /\ generation' = generation + 1 /\ owner' = "net"
  /\ net' = [net EXCEPT !.pc = "join"]
  /\ UNCHANGED <<link, conn, w, client, filed, requests, best, files, found, dropped,
                 breaks, faults>>

NewJob ==
  /\ net.pc = "listen" /\ link /\ conn.auth /\ generation < MaxJobs + breaks
  /\ generation' = generation + 1
  /\ net' = [net EXCEPT !.pc = "join"]
  /\ UNCHANGED <<link, conn, w, owner, client, filed, requests, best, files, found,
                 dropped, breaks, faults>>

\* A joined worker has reported all it found: both miners look at the stop
\* token only between two batches.
AllJoined == \A t \in Workers : w[t].pc \in {"none", "hash"} /\ w[t].queue = {}

Launch ==
  /\ net.pc = "join" /\ AllJoined
  /\ w' = [t \in Workers |-> Started(generation)] /\ net' = Listening
  /\ owner' = IF owner = "net" THEN None ELSE owner
  /\ UNCHANGED <<generation, link, conn, client, filed, requests, best, files, found,
                 dropped, breaks, faults>>

\* The connection breaks: what is on the way is lost.
LinkBreaks ==
  /\ link /\ breaks + faults < MaxTroubles /\ breaks' = breaks + 1
  /\ link' = FALSE /\ requests' = {}
  /\ UNCHANGED <<generation, conn, net, w, owner, client, filed, best,
                 files, found, dropped, faults>>

\* read_until throws: the flags fall and the socket is closed, then the
\* disconnected callback runs.
Drop ==
  /\ net.pc = "listen" /\ ~link
  /\ conn' = Off /\ net' = [net EXCEPT !.pc = "dropped"]
  /\ UNCHANGED <<generation, link, w, owner, client, filed, requests, best, files,
                 found, dropped, breaks, faults>>

Disconnected ==
  /\ net.pc = "dropped"
  /\ generation' = generation + 1 /\ net' = [net EXCEPT !.pc = "leave"]
  /\ UNCHANGED <<link, conn, w, owner, client, filed, requests, best, files, found,
                 dropped, breaks, faults>>

Leave ==
  /\ net.pc = "leave" /\ AllJoined
  /\ w' = [t \in Workers |-> NoWorker] /\ net' = NoAnswer
  /\ UNCHANGED <<generation, link, conn, owner, client, filed, requests, best, files, found,
                 dropped, breaks, faults>>

(* The pool answers in any order.  StratumClient::handle ignores an id nobody
   waits for. *)
TakeAnswer(r) ==
  /\ net.pc = "listen" /\ link
  /\ requests' = requests \ {r} /\ awaited' = awaited \ {r[1]}
  /\ net' = IF r[1] \in awaited
              THEN [pc |-> "callback", id |-> r[1], sol |-> None, accepted |-> r[2] \in Accepts]
              ELSE net
  /\ UNCHANGED <<generation, link, conn, w, owner, nextId, filed, best, files, found,
                 dropped, breaks, faults>>

\* The submission callback, under submissions_mutex.
FindSolution ==
  /\ net.pc = "callback" /\ owner = None
  /\ LET mine == {p \in filed : p[1] = net.id}
     IN  /\ filed' = filed \ mine
         /\ net' = IF mine = {} THEN Listening
                   ELSE [net EXCEPT !.pc = "result", !.sol = (CHOOSE p \in mine : TRUE)[2]]
  /\ UNCHANGED <<generation, link, conn, w, owner, client, requests, best, files, found,
                 dropped, breaks, faults>>

UpdateAnswered ==
  /\ net.pc = "result"
  /\ Update(net.sol, IF net.accepted THEN "accepted" ELSE "rejected")
  /\ net' = Listening
  /\ UNCHANGED <<generation, link, conn, w, owner, client, filed, requests, best,
                 bestFile, records, found, dropped, breaks>>

-----------------------------------------------------------------------------
(* The process is killed and started again: the files remain. *)
Crash ==
  /\ breaks + faults < MaxTroubles /\ faults' = faults + 1
  /\ generation' = 0 /\ link' = FALSE /\ conn' = Off /\ net' = NoAnswer
  /\ w' = [t \in Workers |-> NoWorker] /\ owner' = None
  /\ nextId' = FirstId /\ awaited' = {} /\ filed' = {}
  /\ requests' = {}
  /\ best' = [hash |-> bestFile, owner |-> None]
  /\ UNCHANGED <<files, found, dropped, breaks>>

OnCandidate(t) ==
  \/ \E s \in Solutions : Report(t, s)
  \/ NotRecord(t) \/ SaveBest(t) \/ AppendRecord(t) \/ Gate(t)
  \/ SaveCandidate(t) \/ SaveAudit(t)
  \/ DrawId(t) \/ Send(t) \/ SendFails(t) \/ LocalError(t) \/ File(t) \/ UpdateSent(t)

NetStep ==
  \/ Launch \/ Drop \/ Disconnected \/ Leave
  \/ FindSolution \/ UpdateAnswered

Next ==
  \/ \E t \in Workers : OnCandidate(t) \/ \E H \in SUBSET Finds : Batch(t, H)
  \/ NetStep \/ (\E r \in requests : TakeAnswer(r))
  \/ Connect \/ Authorized \/ NewJob \/ LinkBreaks \/ Crash

Spec == Init /\ [][Next]_vars

(* The threads are preemptively scheduled and no write blocks for ever; the pool
   owes no answer. *)
FairSpec ==
  Spec /\ WF_vars(NetStep) /\ \A t \in Workers : WF_vars(OnCandidate(t))

-----------------------------------------------------------------------------
Statuses == {"none", "pending", "sent", "not_submitted", "local_error", "accepted", "rejected"}

TypeOK ==
  /\ generation \in 0..MaxJobs + MaxTroubles /\ link \in BOOLEAN
  /\ conn \in [up : BOOLEAN, auth : BOOLEAN] /\ (conn.auth => conn.up)
  /\ net.pc \in {"offline", "listen", "join", "dropped", "leave", "callback", "result"}
  /\ \A t \in Workers :
       /\ w[t].pc \in {"none", "hash", "observe", "append", "gate", "candidate",
                       "audit", "submit", "send", "file", "update", "error"}
       /\ w[t].queue \subseteq Solutions /\ w[t].sol \in Solutions \cup {None}
  /\ owner \in Workers \cup {"net", None}
  /\ awaited \subseteq FirstId..nextId - 1
  /\ bestFile \in Finds \cup {None} /\ records \in Seq(Finds)
  /\ candidate \in [Solutions -> Statuses] /\ audit \in [Solutions -> Statuses]
  /\ dropped \subseteq found /\ found \subseteq Finds
  /\ breaks + faults \in 0..MaxTroubles

(* Nothing reaches the pool that is not on disk first: a network candidate in
   its own file, a share in the audit, whatever write failed on the way. *)
DurableBeforeSubmit ==
  \A r \in requests :
    IF NetworkCandidate(r[2]) THEN KeepCandidates => candidate[r[2]] # "none"
                              ELSE KeepAudits => audit[r[2]] # "none"

(* However fast the pool answers, the callback that has taken an id finds the
   solution filed under it: submit holds submissions_mutex until then. *)
AnswerFindsSolution ==
  net.pc = "callback" /\ owner = None => \E p \in filed : p[1] = net.id

(* A file that says accepted or rejected says what the pool answered for that
   very solution (ids are never used again while the process lives). *)
AnswerIsOwn ==
  \A s \in Solutions : \A status \in {candidate[s], audit[s]} :
    /\ status = "accepted" => s \in Accepts
    /\ status = "rejected" => s \notin Accepts

(* Answers and submissions are matched: each answer finds its solution, and only
   its own, across disconnections (on_candidate, callbacks.submission). *)
AnswersMatch == AnswerFindsSolution /\ AnswerIsOwn

(* An answer that is recorded is never taken back by a later write. *)
AnswerIsFinal ==
  [][\A s \in Solutions :
       /\ candidate[s] \in {"accepted", "rejected"} => candidate'[s] = candidate[s]
       /\ audit[s] \in {"accepted", "rejected"} => audit'[s] = audit[s]]_vars

(* The history of records improves strictly, across restarts too, and never
   runs ahead of best_pow_all_time.json. *)
RecordsImprove ==
  /\ \A i, j \in 1..Len(records) : i < j => records[j] < records[i]
  /\ \A i \in 1..Len(records) : bestFile # None /\ bestFile <= records[i]

(* The best hash is kept whatever becomes of the connection and of the job it
   was found for: unless a write failed or the process was killed, it is in
   best_pow_all_time.json once the workers have reported; only a GPU launch
   with more hits than its buffer, and not the first, may lose it. *)
BestIsKept ==
  faults = 0 /\ AllJoined => \A f \in found \ dropped : bestFile # None /\ bestFile <= f

(* The invariant of the records: types, a history that improves, the best hash
   kept. *)
RecordsInv == TypeOK /\ RecordsImprove /\ BestIsKept

(* A call of on_candidate ends: a worker that submits, the callback that wants
   its solution and the join of a job change never wait for one another. *)
CandidateEnds ==
  \A t \in Workers : (w[t].sol # None) ~> (w[t].sol = None)
=============================================================================
