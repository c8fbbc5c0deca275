------------------------ MODULE ShareSubmissionProofs ------------------------
(***************************************************************************)
(* Theorems about ShareSubmission, for any hashes, any pool and any number  *)
(* of jobs, lost connections, failed writes and restarts: what reaches the  *)
(* pool is on disk, each answer is matched with its own solution and is     *)
(* final, and the record of the best hash only improves.                   *)
(***************************************************************************)
EXTENDS ShareSubmission, TLAPS, FiniteSetTheorems, WellFoundedInduction

WorkerPcs == {"none", "hash", "observe", "append", "gate", "candidate", "audit", "submit",
              "send", "file", "update", "error"}
NetPcs == {"offline", "listen", "join", "dropped", "leave", "callback", "result"}

WorkerState ==
  [pc : WorkerPcs, gen : Nat, best : Finds \cup {None}, queue : SUBSET Solutions,
   sol : Solutions \cup {None}, active : BOOLEAN, can : BOOLEAN, id : Nat]

NetState == [pc : NetPcs, id : Nat, sol : Solutions \cup {None}, accepted : BOOLEAN]

(* The types of all variables. *)
Types ==
  /\ generation \in Nat /\ link \in BOOLEAN
  /\ conn \in [up : BOOLEAN, auth : BOOLEAN] /\ (conn.auth => conn.up)
  /\ net \in NetState /\ w \in [Workers -> WorkerState]
  /\ net.pc \in {"listen", "join", "callback", "result"} => conn.up
  /\ net.pc = "result" => net.sol \in Solutions
  /\ owner \in Workers \cup {None}
  /\ nextId \in Nat /\ FirstId <= nextId
  /\ awaited \subseteq FirstId..(nextId - 1)
  /\ filed \subseteq (FirstId..(nextId - 1)) \X Solutions
  /\ requests \subseteq (FirstId..(nextId - 1)) \X Solutions
  /\ best \in [hash : Finds \cup {None}, owner : Workers \cup {None}]
  /\ bestFile \in Finds \cup {None} /\ records \in Seq(Finds)
  /\ candidate \in [Solutions -> Statuses] /\ audit \in [Solutions -> Statuses]
  /\ dropped \subseteq found /\ found \subseteq Finds
  /\ breaks \in Nat /\ faults \in Nat /\ breaks + faults <= MaxTroubles

-----------------------------------------------------------------------------
(* What the steps do to the workers and to the files. *)

(* The finds are numbered from 1. *)
LEMMA FindsAreNumbers ==
  /\ Finds \subseteq Nat /\ None \notin Finds /\ None \notin Solutions /\ None \notin Workers
  /\ FirstId \in Nat /\ MaxJobs \in Nat /\ MaxTroubles \in Nat /\ Cpu # Gpu
  /\ Cpu \in Workers /\ Gpu \in Workers
  <1>1. Kind \in Seq({"plain", "share", "network"})
    BY SubmissionAssumption
  <1>2. Finds = 1..Len(Kind) /\ Len(Kind) \in Nat
    BY <1>1 DEF Finds
  <1> QED BY <1>2, SubmissionAssumption DEF Workers

(* The other worker is not touched. *)
Others(t) == \A u \in Workers : u # t => w'[u] = w[u]

(* The call goes on: the worker is at pc, with the same solution. *)
Keeps(t, pc) ==
  /\ Others(t) /\ w'[t].pc = pc /\ w'[t].sol = w[t].sol /\ w'[t].queue = w[t].queue
  /\ w'[t].best = w[t].best /\ w'[t].id = w[t].id

(* The call is over. *)
Ends(t) ==
  /\ Others(t) /\ w'[t].pc = "hash" /\ w'[t].sol = None
  /\ w'[t].queue = w[t].queue /\ w'[t].best = w[t].best

(* A step that only moves on keeps the solution in hand. *)
LEMMA GoKeeps ==
  ASSUME Types, NEW t \in Workers, NEW pc \in WorkerPcs, Go(t, pc)
  PROVE  Keeps(t, pc) /\ w' \in [Workers -> WorkerState]
  BY DEF Types, Go, Keeps, Others, WorkerState

(* A return of on_candidate ends the call. *)
LEMMA ReturnEnds ==
  ASSUME Types, NEW t \in Workers, Return(t)
  PROVE  Ends(t) /\ w' \in [Workers -> WorkerState]
  <1>1. w \in [Workers -> WorkerState] /\ w[t] \in WorkerState
    BY DEF Types
  <1>2. Done(w[t]) \in WorkerState /\ Done(w[t]).pc = "hash" /\ Done(w[t]).sol = None
        /\ Done(w[t]).queue = w[t].queue /\ Done(w[t]).best = w[t].best
    BY <1>1 DEF Done, WorkerState, WorkerPcs
  <1>3. w' = [w EXCEPT ![t] = Done(w[t])]
    BY DEF Return
  <1> HIDE DEF Done
  <1> QED BY <1>1, <1>2, <1>3 DEF Ends, Others

(* A write of one of the statuses V for the solution s, in either file. *)
Wrote(s, V) ==
  /\ candidate' \in [Solutions -> Statuses] /\ audit' \in [Solutions -> Statuses]
  /\ \A z \in Solutions : z # s => candidate'[z] = candidate[z] /\ audit'[z] = audit[z]
  /\ candidate'[s] = candidate[s] \/ candidate'[s] \in V
  /\ audit'[s] = audit[s] \/ audit'[s] \in V

(* update_candidate and update_share_audit write one status, or fail and are counted. *)
LEMMA UpdateWrote ==
  ASSUME Types, NEW s \in Solutions, NEW v \in Statuses, Update(s, v)
  PROVE  /\ Wrote(s, {v})
         /\ faults' \in Nat /\ faults <= faults' /\ breaks + faults' <= MaxTroubles
  <1> DEFINE there == {file \in {"candidate", "audit"} :
                  (IF file = "candidate" THEN candidate ELSE audit)[s] # "none"}
  <1>1. PICK written \in SUBSET there :
        /\ faults' = faults + Cardinality(there \ written) /\ breaks + faults' <= MaxTroubles
        /\ candidate' = IF "candidate" \in written THEN [candidate EXCEPT ![s] = v] ELSE candidate
        /\ audit' = IF "audit" \in written THEN [audit EXCEPT ![s] = v] ELSE audit
    BY DEF Update
  <1>2. Cardinality(there \ written) \in Nat
    <2>1. IsFiniteSet({"candidate", "audit"})
      <3>1. IsFiniteSet({"candidate"})
        BY FS_Singleton
      <3>2. {"candidate", "audit"} = {"candidate"} \cup {"audit"}
        OBVIOUS
      <3> QED BY <3>1, <3>2, FS_AddElement
    <2>2. IsFiniteSet(there \ written)
      BY <2>1, FS_Subset
    <2> QED BY <2>2, FS_CardinalityType
  <1>3. Wrote(s, {v})
    BY <1>1 DEF Types, Wrote
  <1> QED BY <1>1, <1>2, <1>3 DEF Types

(* What is written before the pool has answered. *)
Interim == {"pending", "sent", "not_submitted", "local_error"}

(* The calls that change no file, best hash or submission: the worker goes on. *)
LEMMA QuietCalls ==
  ASSUME Types, NEW t \in Workers, NotRecord(t) \/ Gate(t)
  PROVE  /\ w' \in [Workers -> WorkerState]
         /\ NotRecord(t) => w[t].pc = "observe" /\ Keeps(t, "gate")
         /\ Gate(t) => /\ w[t].pc = "gate"
                       /\ \/ Ends(t)
                          \/ Keeps(t, "candidate") /\ NetworkCandidate(w[t].sol)
                          \/ Keeps(t, "audit") /\ ~NetworkCandidate(w[t].sol)
  <1>1. CASE NotRecord(t)
    <2>1. w[t].pc = "observe" /\ Go(t, "gate") /\ "gate" \in WorkerPcs
      BY <1>1 DEF NotRecord, WorkerPcs
    <2>2. ~Gate(t)
      BY <2>1 DEF Gate
    <2> QED BY <2>1, <2>2, GoKeeps
  <1>2. CASE Gate(t)
    <2>1. w[t].pc = "gate" /\ ~NotRecord(t)
      BY <1>2 DEF Gate, NotRecord
    <2>2. CASE Submittable(t)
      <3> DEFINE pc == IF NetworkCandidate(w[t].sol) THEN "candidate" ELSE "audit"
      <3>1. PICK can \in BOOLEAN : w' = [w EXCEPT ![t].pc = pc, ![t].can = can]
        BY <1>2, <2>2 DEF Gate
      <3>2. pc \in WorkerPcs
        BY DEF WorkerPcs
      <3>5. IF NetworkCandidate(w[t].sol) THEN pc = "candidate" ELSE pc = "audit"
        OBVIOUS
      <3> HIDE DEF pc
      <3>6. w[t] \in WorkerState /\ w \in [Workers -> WorkerState]
        BY DEF Types
      <3>7. [w[t] EXCEPT !.pc = pc, !.can = can] \in WorkerState
        BY <3>2, <3>6, Zenon DEF WorkerState
      <3>3. w' \in [Workers -> WorkerState]
        BY <3>1, <3>6, <3>7
      <3>4. Keeps(t, pc)
        BY <3>1 DEF Types, WorkerState, Keeps, Others
      <3> QED BY <2>1, <3>3, <3>4, <3>5
    <2>3. CASE ~Submittable(t)
      BY <1>2, <2>1, <2>3, ReturnEnds DEF Gate
    <2> QED BY <2>2, <2>3
  <1> QED BY <1>1, <1>2

(* The best hash is saved and its history appended to, or a write fails. *)
LEMMA BestCalls ==
  ASSUME Types, NEW t \in Workers, w[t].sol \in Solutions, SaveBest(t) \/ AppendRecord(t)
  PROVE  /\ w' \in [Workers -> WorkerState]
         /\ faults' \in Nat /\ breaks + faults' <= MaxTroubles /\ faults <= faults'
         /\ SaveBest(t) =>
              /\ w[t].pc = "observe" /\ best.owner = None /\ Better(w[t].sol[1], best.hash)
              /\ UNCHANGED records
              /\ \/ /\ Keeps(t, "append") /\ bestFile' = w[t].sol[1]
                    /\ best' = [hash |-> w[t].sol[1], owner |-> t]
                 \/ Keeps(t, "gate") /\ UNCHANGED <<best, bestFile>> /\ faults' # 0
         /\ AppendRecord(t) =>
              /\ w[t].pc = "append" /\ Keeps(t, "gate") /\ UNCHANGED bestFile
              /\ best' = [best EXCEPT !.owner = None]
              /\ records' \in {records, Append(records, w[t].sol[1])}
  <1>1. ASSUME NEW ok \in BOOLEAN, Disk(ok)
        PROVE  /\ faults' \in Nat /\ breaks + faults' <= MaxTroubles /\ faults <= faults'
               /\ ~ok => faults' # 0
    BY <1>1, FindsAreNumbers DEF Disk, Types
  <1>2. CASE SaveBest(t)
    <2>1. w[t].pc = "observe" /\ ~AppendRecord(t) /\ best.owner = None
          /\ Better(w[t].sol[1], best.hash) /\ UNCHANGED records
      BY <1>2 DEF SaveBest, AppendRecord
    <2>2. PICK ok \in BOOLEAN :
            /\ Disk(ok)
            /\ IF ok
                 THEN /\ bestFile' = w[t].sol[1]
                      /\ best' = [hash |-> w[t].sol[1], owner |-> t] /\ Go(t, "append")
                 ELSE /\ Go(t, "gate")
                      /\ UNCHANGED <<best, bestFile>>
      BY <1>2 DEF SaveBest
    <2>3. "append" \in WorkerPcs /\ "gate" \in WorkerPcs
      BY DEF WorkerPcs
    <2> QED BY <1>1, <2>1, <2>2, <2>3, GoKeeps
  <1>3. CASE AppendRecord(t)
    <2>1. w[t].pc = "append" /\ ~SaveBest(t) /\ Go(t, "gate") /\ "gate" \in WorkerPcs
          /\ best' = [best EXCEPT !.owner = None] /\ UNCHANGED bestFile
      BY <1>3 DEF SaveBest, AppendRecord, WorkerPcs
    <2>2. PICK ok \in BOOLEAN :
            /\ Disk(ok)
            /\ records' = IF ok THEN Append(records, w[t].sol[1]) ELSE records
      BY <1>3 DEF AppendRecord
    <2> QED BY <1>1, <2>1, <2>2, GoKeeps
  <1> QED BY <1>2, <1>3

(* The calls that write what is known of the solution. *)
LEMMA FileCalls ==
  ASSUME Types, NEW t \in Workers, w[t].sol \in Solutions,
         SaveCandidate(t) \/ SaveAudit(t) \/ LocalError(t) \/ UpdateSent(t)
  PROVE  /\ w' \in [Workers -> WorkerState]
         /\ faults' \in Nat /\ breaks + faults' <= MaxTroubles /\ faults <= faults'
         /\ Wrote(w[t].sol, Interim)
         /\ SaveCandidate(t) => /\ w[t].pc = "candidate"
                                /\ \/ Ends(t)
                                   \/ /\ Keeps(t, "audit")
                                      /\ KeepCandidates => candidate'[w[t].sol] # "none"
         /\ SaveAudit(t) => /\ w[t].pc = "audit"
                            /\ \/ Ends(t)
                               \/ /\ Keeps(t, "submit")
                                  /\ \/ NetworkCandidate(w[t].sol)
                                     \/ KeepAudits => audit'[w[t].sol] # "none"
         /\ LocalError(t) => w[t].pc = "error" /\ Ends(t)
         /\ UpdateSent(t) => w[t].pc = "update" /\ Ends(t)
  <1> DEFINE z == w[t].sol
  <1>1. /\ candidate \in [Solutions -> Statuses] /\ audit \in [Solutions -> Statuses]
        /\ Interim \subseteq Statuses /\ "none" \notin Interim
    BY DEF Types, Interim, Statuses
  <1>2. Status(t) \in Interim /\ "local_error" \in Interim /\ "sent" \in Interim
    BY DEF Status, Interim
  <1>3. ASSUME NEW ok \in BOOLEAN, Disk(ok)
        PROVE  faults' \in Nat /\ breaks + faults' <= MaxTroubles /\ faults <= faults'
    BY <1>3, FindsAreNumbers DEF Disk, Types
  <1>4. ASSUME NEW v \in Interim, Update(z, v)
        PROVE  /\ Wrote(z, Interim)
               /\ faults' \in Nat /\ breaks + faults' <= MaxTroubles /\ faults <= faults'
    <2>1. Wrote(z, {v}) /\ faults' \in Nat /\ faults <= faults' /\ breaks + faults' <= MaxTroubles
      BY <1>1, <1>4, UpdateWrote
    <2> QED BY <1>4, <2>1 DEF Wrote
  <1>5. ASSUME NEW v1 \in Interim, NEW v2 \in Interim,
               candidate' \in {candidate, [candidate EXCEPT ![z] = v1]},
               audit' \in {audit, [audit EXCEPT ![z] = v2]}
        PROVE  Wrote(z, Interim)
    BY <1>1, <1>5 DEF Wrote
  <1>6. CASE LocalError(t)
    <2>1. w[t].pc = "error" /\ Update(z, "local_error") /\ Return(t)
      BY <1>6 DEF LocalError
    <2>2. ~SaveCandidate(t) /\ ~SaveAudit(t) /\ ~UpdateSent(t)
      BY <2>1 DEF SaveCandidate, SaveAudit, UpdateSent
    <2> QED BY <1>2, <1>4, <2>1, <2>2, ReturnEnds
  <1>7. CASE UpdateSent(t)
    <2>1. w[t].pc = "update" /\ Update(z, "sent") /\ Return(t)
      BY <1>7 DEF UpdateSent
    <2>2. ~SaveCandidate(t) /\ ~SaveAudit(t) /\ ~LocalError(t)
      BY <2>1 DEF SaveCandidate, SaveAudit, LocalError
    <2> QED BY <1>2, <1>4, <2>1, <2>2, ReturnEnds
  <1>8. CASE SaveCandidate(t)
    <2>1. w[t].pc = "candidate"
      BY <1>8 DEF SaveCandidate
    <2>2. ~UpdateSent(t) /\ ~SaveAudit(t) /\ ~LocalError(t)
      BY <2>1 DEF UpdateSent, SaveAudit, LocalError
    <2>3. CASE /\ candidate' = IF KeepCandidates THEN [candidate EXCEPT ![z] = Status(t)]
                                                  ELSE candidate
               /\ Go(t, "audit") /\ UNCHANGED <<audit, faults>>
      <3>1. Wrote(z, Interim)
        BY <1>2, <1>5, <2>3
      <3>2. KeepCandidates => candidate'[z] = Status(t)
        BY <1>1, <2>3
      <3>3. faults' \in Nat /\ breaks + faults' <= MaxTroubles /\ faults <= faults'
        BY <2>3 DEF Types
      <3>4. "audit" \in WorkerPcs
        BY DEF WorkerPcs
      <3> QED BY <1>1, <1>2, <2>1, <2>2, <2>3, <3>1, <3>2, <3>3, <3>4, GoKeeps
    <2>4. CASE /\ Disk(FALSE)
               /\ candidate' \in {candidate, [candidate EXCEPT ![z] = "local_error"]}
               /\ audit' \in {audit} \cup
                     (IF KeepAudits THEN {[audit EXCEPT ![z] = "local_error"]} ELSE {})
               /\ Return(t)
      <3>1. Wrote(z, Interim)
        BY <1>2, <1>5, <2>4
      <3> QED BY <1>3, <2>1, <2>2, <2>4, <3>1, ReturnEnds
    <2> QED BY <1>8, <2>3, <2>4 DEF SaveCandidate
  <1>9. CASE SaveAudit(t)
    <2>1. w[t].pc = "audit" /\ UNCHANGED candidate
      BY <1>9 DEF SaveAudit
    <2>2. ~UpdateSent(t) /\ ~SaveCandidate(t) /\ ~LocalError(t)
      BY <2>1 DEF UpdateSent, SaveCandidate, LocalError
    <2>3. PICK ok \in BOOLEAN :
       /\ Disk(ok) /\ (~KeepAudits => ok)
       /\ IF ok THEN audit' = IF KeepAudits THEN [audit EXCEPT ![z] = Status(t)] ELSE audit
          ELSE IF NetworkCandidate(z) THEN audit' = audit
          ELSE \E again \in BOOLEAN :
                 audit' = IF again THEN [audit EXCEPT ![z] = "local_error"] ELSE audit
       /\ IF w[t].can /\ (ok \/ NetworkCandidate(z)) THEN Go(t, "submit") ELSE Return(t)
      BY <1>9 DEF SaveAudit
    <2>4. audit' \in {audit, [audit EXCEPT ![z] = Status(t)], [audit EXCEPT ![z] = "local_error"]}
      BY <2>3
    <2>5. Wrote(z, Interim)
      BY <1>2, <1>5, <2>1, <2>4
    <2>6. ok /\ KeepAudits => audit'[z] # "none"
      BY <1>1, <1>2, <2>3
    <2>7. "submit" \in WorkerPcs
      BY DEF WorkerPcs
    <2>8. \/ Ends(t) /\ w' \in [Workers -> WorkerState]
          \/ /\ Keeps(t, "submit") /\ w' \in [Workers -> WorkerState]
             /\ ok \/ NetworkCandidate(z)
      BY <2>3, <2>7, GoKeeps, ReturnEnds
    <2> QED BY <1>3, <2>1, <2>2, <2>3, <2>5, <2>6, <2>8
  <1> QED BY <1>6, <1>7, <1>8, <1>9

(* The calls that submit it. *)
LEMMA SubmitCalls ==
  ASSUME Types, NEW t \in Workers, DrawId(t) \/ Send(t) \/ SendFails(t) \/ File(t)
  PROVE  /\ w' \in [Workers -> WorkerState]
         /\ DrawId(t) => /\ w[t].pc = "submit" /\ Others(t) /\ w'[t].pc = "send"
                         /\ w'[t].sol = w[t].sol /\ w'[t].queue = w[t].queue
                         /\ w'[t].best = w[t].best /\ w'[t].id = nextId
         /\ Send(t) => w[t].pc = "send" /\ Keeps(t, "file")
         /\ SendFails(t) => w[t].pc = "send" /\ Keeps(t, "error")
         /\ File(t) => w[t].pc = "file" /\ Keeps(t, "update")
  <1>1. {"file", "error", "update", "send"} \subseteq WorkerPcs
    BY DEF WorkerPcs
  <1>2. CASE DrawId(t)
    <2>1. w[t].pc = "submit" /\ w' = [w EXCEPT ![t].pc = "send", ![t].id = nextId]
      BY <1>2 DEF DrawId
    <2>2. ~Send(t) /\ ~SendFails(t) /\ ~File(t)
      BY <2>1 DEF Send, SendFails, File
    <2>5. w[t] \in WorkerState /\ w \in [Workers -> WorkerState] /\ nextId \in Nat
          /\ "send" \in WorkerPcs
      BY <1>1 DEF Types
    <2>6. [w[t] EXCEPT !.pc = "send", !.id = nextId] \in WorkerState
      BY <2>5, Zenon DEF WorkerState
    <2>3. w' \in [Workers -> WorkerState]
      BY <2>1, <2>5, <2>6
    <2>4. /\ Others(t) /\ w'[t].pc = "send" /\ w'[t].sol = w[t].sol /\ w'[t].queue = w[t].queue
          /\ w'[t].best = w[t].best /\ w'[t].id = nextId
      BY <2>1 DEF Types, WorkerState, Others
    <2> QED BY <2>1, <2>2, <2>3, <2>4
  <1>3. CASE Send(t) \/ SendFails(t) \/ File(t)
    <2>1. ~DrawId(t)
      BY <1>3 DEF DrawId, Send, SendFails, File
    <2>2. Send(t) => w[t].pc = "send" /\ Go(t, "file")
      BY DEF Send
    <2>3. SendFails(t) => w[t].pc = "send" /\ Go(t, "error")
      BY DEF SendFails
    <2>4. File(t) => w[t].pc = "file" /\ Go(t, "update")
      BY DEF File
    <2> QED BY <1>1, <1>3, <2>1, <2>2, <2>3, <2>4, GoKeeps
  <1> QED BY <1>2, <1>3

(* The top of on_candidate takes one solution from what is to be reported. *)
LEMMA ReportCall ==
  ASSUME Types, NEW t \in Workers, NEW s \in Solutions, Report(t, s)
  PROVE  /\ w' \in [Workers -> WorkerState]
         /\ w[t].pc = "hash" /\ s \in w[t].queue /\ Others(t)
         /\ w'[t].pc = "observe" /\ w'[t].sol = s /\ w'[t].queue = w[t].queue \ {s}
         /\ w'[t].best = w[t].best /\ w'[t].id = w[t].id
  <1>1. w[t] \in WorkerState /\ w \in [Workers -> WorkerState] /\ "observe" \in WorkerPcs
    BY DEF Types, WorkerPcs
  <1>2. PICK active \in BOOLEAN :
          w' = [w EXCEPT ![t].pc = "observe", ![t].sol = s, ![t].queue = @ \ {s},
                         ![t].active = active]
    BY DEF Report
  <1>3. w[t].queue \ {s} \in SUBSET Solutions /\ s \in Solutions \cup {None}
    BY <1>1 DEF WorkerState
  <1>4. [w[t] EXCEPT !.pc = "observe", !.sol = s, !.queue = @ \ {s}, !.active = active] \in WorkerState
    BY <1>1, <1>3, Zenon DEF WorkerState
  <1>5. w' \in [Workers -> WorkerState]
    BY <1>1, <1>2, <1>4
  <1>6. /\ Others(t) /\ w'[t].pc = "observe" /\ w'[t].sol = s /\ w'[t].queue = w[t].queue \ {s}
        /\ w'[t].best = w[t].best /\ w'[t].id = w[t].id
    BY <1>1, <1>2 DEF WorkerState, Others
  <1>7. w[t].pc = "hash" /\ s \in w[t].queue
    BY DEF Report
  <1> QED BY <1>5, <1>6, <1>7

(* The best of a set of finds exists. *)
LEMMA TopIsLeast ==
  ASSUME NEW H \in SUBSET Finds, H # {}
  PROVE  Top(H) \in H /\ \A g \in H : Top(H) <= g
  <1>1. H \subseteq Nat
    BY FindsAreNumbers
  <1>2. PICK f \in H : \A g \in H : ~(<<g, f>> \in OpToRel(<, Nat))
    BY <1>1, NatLessThanWellFounded, WFMin
  <1>3. \A g \in H : ~(g < f)
    BY <1>1, <1>2 DEF OpToRel
  <1>4. \A g \in H : f <= g
    BY <1>1, <1>3
  <1> QED BY <1>4 DEF Top

(* A batch is hashed: what is not dropped is reported, unless the best hash of
   the worker is as good; and a new best hash of the worker is reported. *)
LEMMA BatchCall ==
  ASSUME Types, NEW t \in Workers, NEW H \in SUBSET Finds, Batch(t, H)
  PROVE  /\ w' \in [Workers -> WorkerState]
         /\ w[t].pc = "hash" /\ w[t].queue = {} /\ Others(t)
         /\ w'[t].pc = "hash" /\ w'[t].sol = w[t].sol /\ w'[t].id = w[t].id
         /\ H \cap found = {} /\ found' = found \cup H
         /\ dropped \subseteq dropped' /\ dropped' \subseteq found'
         /\ \A s \in w'[t].queue : s \in Solutions /\ s[1] \in H
         /\ \A f \in H \ dropped' : \/ \E s \in w'[t].queue : s[1] <= f
                                    \/ w[t].best # None /\ w[t].best <= f
         /\ w'[t].best # None => \/ \E s \in w'[t].queue : s[1] <= w'[t].best
                                 \/ w'[t].best = w[t].best
  <1>1. w[t] \in WorkerState /\ w \in [Workers -> WorkerState] /\ "hash" \in WorkerPcs
        /\ w[t].best \in Finds \cup {None}
    BY DEF Types, WorkerPcs, WorkerState
  <1>2. /\ w[t].pc = "hash" /\ w[t].queue = {} /\ H # {} /\ H \cap found = {}
        /\ found' = found \cup H
    BY DEF Batch
  <1>3. PICK K \in SUBSET H, b \in BestBefore(t) :
          /\ Handed(t, H, K)
          /\ dropped' = IF t = Gpu THEN dropped \cup (Hits(t, H) \ (K \cup Personal(t, H, b))) ELSE dropped
          /\ w' = [w EXCEPT ![t].best = BestAfter(b, K \cup Personal(t, H, b)),
                            ![t].queue = (K \X {"target"}) \cup (Personal(t, H, b) \X {"best"})]
    BY DEF Batch
  <1> DEFINE own == Personal(t, H, b)
             R == K \cup own
             q == (K \X {"target"}) \cup (own \X {"best"})
             new == BestAfter(b, R)
  <1>4. Top(H) \in H /\ \A g \in H : Top(H) <= g
    BY <1>2, TopIsLeast
  <1>5. R \in SUBSET H /\ own \in SUBSET H
    BY <1>4 DEF Personal
  <1>6. R # {} => Top(R) \in R
    BY <1>5, TopIsLeast
  <1>7. b = None \/ b = w[t].best
    BY <1>3 DEF BestBefore
  <1>8. new \in Finds \cup {None} /\ (new \in R \/ new = b)
    BY <1>1, <1>5, <1>6, <1>7 DEF BestAfter
  <1>9. /\ q \in SUBSET Solutions /\ \A s \in q : s[1] \in H
        /\ \A f \in R : \E s \in q : s[1] = f
    <2>1. \A f \in K : <<f, "target">> \in q /\ <<f, "target">>[1] = f
      OBVIOUS
    <2>2. \A f \in own : <<f, "best">> \in q /\ <<f, "best">>[1] = f
      OBVIOUS
    <2>3. \A s \in q : s \in Solutions /\ s[1] \in H
      BY <1>5 DEF Solutions
    <2> QED BY <2>1, <2>2, <2>3
  <1> HIDE DEF own, R, q, new
  <1>10. w' = [w EXCEPT ![t].best = new, ![t].queue = q]
    BY <1>3 DEF q, new, R, own
  <1>11. [w[t] EXCEPT !.best = new, !.queue = q] \in WorkerState
    BY <1>1, <1>8, <1>9, Zenon DEF WorkerState
  <1>12. w' \in [Workers -> WorkerState]
    BY <1>1, <1>10, <1>11
  <1>13. /\ Others(t) /\ w'[t].pc = "hash" /\ w'[t].sol = w[t].sol /\ w'[t].id = w[t].id
         /\ w'[t].queue = q /\ w'[t].best = new
    BY <1>1, <1>2, <1>10 DEF WorkerState, Others
  <1>14. dropped \subseteq dropped' /\ dropped' \subseteq found'
    BY <1>2, <1>3 DEF Types, Hits
  <1>15. \A f \in R : f <= f
    BY <1>5, FindsAreNumbers
  <1>16. new # None => (\E s \in q : s[1] <= new) \/ new = w[t].best
    BY <1>7, <1>8, <1>9, <1>15
  <1>17. ASSUME NEW f \in H, f \notin dropped'
         PROVE  (\E s \in q : s[1] <= f) \/ (w[t].best # None /\ w[t].best <= f)
    <2>1. CASE Better(Top(H), b) /\ (t = Cpu \/ b = None)
      <3>1. Top(H) \in R
        BY <2>1 DEF R, own, Personal
      <3> QED BY <1>4, <1>9, <3>1
    <2>2. CASE ~Better(Top(H), b)
      <3>1. b # None /\ b = w[t].best /\ ~(Top(H) < b)
        BY <1>7, <2>2 DEF Better
      <3>2. b \in Nat /\ Top(H) \in Nat /\ f \in Nat /\ Top(H) <= f
        BY <1>1, <1>4, <3>1, FindsAreNumbers
      <3> QED BY <3>1, <3>2
    <2>3. CASE t # Cpu /\ b # None
      <3>1. t = Gpu /\ b = w[t].best
        BY <1>7, <2>3 DEF Workers
      <3>2. CASE f \in Hits(t, H)
        <4>1. f \in R
          BY <1>3, <1>17, <3>1, <3>2 DEF R, own
        <4> QED BY <1>9, <1>15, <4>1
      <3>3. CASE f \notin Hits(t, H)
        <4>1. ~(f < w[t].best) /\ w[t].best # None
          BY <2>3, <3>1, <3>3 DEF Hits
        <4>2. f \in Nat /\ w[t].best \in Nat
          BY <1>1, <4>1, FindsAreNumbers
        <4> QED BY <4>1, <4>2
      <3> QED BY <3>2, <3>3
    <2> QED BY <2>1, <2>2, <2>3
  <1> QED BY <1>2, <1>9, <1>12, <1>13, <1>14, <1>16, <1>17
-----------------------------------------------------------------------------
(* Types, and the worker that holds submissions_mutex. *)

InLock == {"send", "file", "update"}

(* A worker has a solution in hand exactly while on_candidate runs, and holds
   submissions_mutex exactly between the draw of its id and the update of the
   files. *)
Calls ==
  \A t \in Workers :
    /\ w[t].pc \in {"none", "hash"} <=> w[t].sol = None
    /\ owner = t <=> w[t].pc \in InLock
    /\ w[t].pc \in InLock => w[t].id \in FirstId..(nextId - 1)
    /\ w[t].pc = "none" => w[t].queue = {}

(* While on_candidate runs the worker has a solution in hand. *)
LEMMA InHand ==
  ASSUME Types, Calls, NEW t \in Workers, w[t].pc \notin {"none", "hash"}
  PROVE  w[t].sol \in Solutions
  BY DEF Types, Calls, WorkerState

(* The workers' steps. *)
WorkerStep(t) == OnCandidate(t) \/ \E H \in SUBSET Finds : Batch(t, H)

(* The other steps: those of the network thread, of the pool and of the process. *)
NetworkStep ==
  NetStep \/ (\E r \in requests : TakeAnswer(r)) \/ Connect \/ Authorized \/ NewJob \/ LinkBreaks

(* The types are kept by the steps of the workers. *)
LEMMA WorkerTypes ==
  ASSUME Types, Calls, NEW t \in Workers, WorkerStep(t)
  PROVE  Types'
  <1>1. ASSUME NEW s \in Solutions, Report(t, s) PROVE Types'
    <2>1. w' \in [Workers -> WorkerState]
      BY <1>1, ReportCall
    <2> QED BY <1>1, <2>1 DEF Types, Report, client, files
  <1>2. CASE NotRecord(t) \/ Gate(t)
    <2>1. w' \in [Workers -> WorkerState]
      BY <1>2, QuietCalls
    <2> QED BY <1>2, <2>1 DEF Types, NotRecord, Gate, client, files
  <1>3. CASE SaveBest(t) \/ AppendRecord(t)
    <2>1. w[t].sol \in Solutions
      BY <1>3, InHand DEF SaveBest, AppendRecord
    <2>2. w[t].sol[1] \in Finds
      BY <2>1 DEF Solutions
    <2>3. /\ w' \in [Workers -> WorkerState]
          /\ faults' \in Nat /\ breaks + faults' <= MaxTroubles /\ faults <= faults'
      BY <1>3, <2>1, BestCalls
    <2>4. CASE SaveBest(t)
      <3>1. /\ best' \in [hash : Finds \cup {None}, owner : Workers \cup {None}]
            /\ bestFile' \in Finds \cup {None} /\ records' \in Seq(Finds)
        BY <2>1, <2>2, <2>4, BestCalls DEF Types
      <3> QED BY <2>3, <2>4, <3>1 DEF Types, SaveBest, client
    <2>5. CASE AppendRecord(t)
      <3>1. /\ best' \in [hash : Finds \cup {None}, owner : Workers \cup {None}]
            /\ bestFile' \in Finds \cup {None} /\ records' \in Seq(Finds)
        <4>1. /\ best' = [best EXCEPT !.owner = None] /\ UNCHANGED bestFile
              /\ records' = records \/ records' = Append(records, w[t].sol[1])
          BY <2>1, <2>5, BestCalls
        <4>2. Append(records, w[t].sol[1]) \in Seq(Finds)
          BY <2>2 DEF Types
        <4> QED BY <4>1, <4>2 DEF Types
      <3> QED BY <2>3, <2>5, <3>1 DEF Types, AppendRecord, client
    <2> QED BY <1>3, <2>4, <2>5
  <1>4. CASE SaveCandidate(t) \/ SaveAudit(t) \/ LocalError(t) \/ UpdateSent(t)
    <2>1. w[t].sol \in Solutions
      BY <1>4, InHand DEF SaveCandidate, SaveAudit, LocalError, UpdateSent
    <2>2. /\ w' \in [Workers -> WorkerState]
          /\ faults' \in Nat /\ breaks + faults' <= MaxTroubles /\ faults <= faults'
          /\ Wrote(w[t].sol, Interim)
      BY <1>4, <2>1, FileCalls
    <2>3. candidate' \in [Solutions -> Statuses] /\ audit' \in [Solutions -> Statuses]
      BY <2>2 DEF Wrote
    <2>4. /\ UNCHANGED <<generation, link, conn, net, client, filed, requests, best,
                         bestFile, records, found, dropped, breaks>>
          /\ owner' \in Workers \cup {None}
      BY <1>4 DEF Types, SaveCandidate, SaveAudit, LocalError, UpdateSent
    <2> QED BY <2>2, <2>3, <2>4 DEF Types, client
  <1>5. CASE DrawId(t) \/ Send(t) \/ SendFails(t) \/ File(t)
    <2>1. w' \in [Workers -> WorkerState]
      BY <1>5, SubmitCalls
    <2>2. CASE DrawId(t)
      <3>1. /\ nextId' \in Nat /\ FirstId <= nextId'
            /\ nextId \in FirstId..(nextId' - 1)
            /\ \A n \in FirstId..(nextId - 1) : n \in FirstId..(nextId' - 1)
        BY <2>2, FindsAreNumbers DEF Types, DrawId
      <3>2. /\ awaited' \subseteq FirstId..(nextId' - 1)
            /\ filed' \subseteq (FirstId..(nextId' - 1)) \X Solutions
            /\ requests' \subseteq (FirstId..(nextId' - 1)) \X Solutions
        BY <2>2, <3>1 DEF Types, DrawId
      <3> QED BY <2>1, <2>2, <3>1, <3>2 DEF Types, DrawId, files
    <2>3. CASE Send(t) \/ File(t)
      <3>1. w[t].id \in FirstId..(nextId - 1) /\ w[t].sol \in Solutions
        BY <2>3, InHand DEF Calls, InLock, Send, File
      <3>2. <<w[t].id, w[t].sol>> \in (FirstId..(nextId - 1)) \X Solutions
        BY <3>1
      <3>3. /\ filed' \subseteq (FirstId..(nextId - 1)) \X Solutions
            /\ requests' \subseteq (FirstId..(nextId - 1)) \X Solutions
            /\ UNCHANGED <<generation, link, conn, net, owner, client, best, files, found, dropped, breaks, faults>>
        BY <2>3, <3>2 DEF Types, Send, File
      <3> QED BY <2>1, <3>3 DEF Types, client, files
    <2>4. CASE SendFails(t)
      BY <2>1, <2>4 DEF Types, SendFails, files
    <2> QED BY <1>5, <2>2, <2>3, <2>4
  <1>6. ASSUME NEW H \in SUBSET Finds, Batch(t, H) PROVE Types'
    <2>1. /\ w' \in [Workers -> WorkerState] /\ found' \subseteq Finds /\ dropped' \subseteq found'
      BY <1>6, BatchCall DEF Types
    <2> QED BY <1>6, <2>1 DEF Types, Batch, client, files
  <1> QED BY <1>1, <1>2, <1>3, <1>4, <1>5, <1>6 DEF WorkerStep, OnCandidate

(* The types are kept by the other steps. *)
LEMMA NetworkTypes ==
  ASSUME Types, NetworkStep \/ Crash
  PROVE  Types'
  <1>1. NoWorker \in WorkerState /\ [t \in Workers |-> NoWorker] \in [Workers -> WorkerState]
    BY DEF NoWorker, WorkerState, WorkerPcs
  <1>2. [t \in Workers |-> Started(generation)] \in [Workers -> WorkerState]
    BY <1>1 DEF Started, NoWorker, WorkerState, WorkerPcs, Types
  <1>3. /\ NoAnswer \in NetState /\ NoAnswer.pc = "offline"
        /\ Listening \in NetState /\ Listening.pc = "listen"
    BY DEF NoAnswer, Listening, NetState, NetPcs
  <1>4. \A pc \in NetPcs : [net EXCEPT !.pc = pc] \in NetState /\ [net EXCEPT !.pc = pc].pc = pc
    BY DEF Types, NetState
  <1>5. {"join", "dropped", "leave"} \subseteq NetPcs
    BY DEF NetPcs
  <1>6. Off \in [up : BOOLEAN, auth : BOOLEAN] /\ ~Off.auth
    BY DEF Off
  <1>7. CASE Launch \/ Leave
    <2>1. w' \in [Workers -> WorkerState] /\ net' \in NetState /\ owner' \in Workers \cup {None}
      BY <1>1, <1>2, <1>3, <1>7 DEF Launch, Leave, Types
    <2>2. UNCHANGED <<generation, link, conn, client, filed, requests, best, files, found, dropped, breaks, faults>>
      BY <1>7 DEF Launch, Leave
    <2>3. net'.pc = "offline" \/ (net.pc = "join" /\ net'.pc = "listen")
      BY <1>3, <1>7 DEF Launch, Leave
    <2> QED BY <2>1, <2>2, <2>3 DEF Types, client, files
  <1>8. CASE Drop \/ Disconnected \/ NewJob
    <2>1. /\ net' \in NetState
          /\ (Drop /\ net'.pc = "dropped") \/ (Disconnected /\ net'.pc = "leave")
             \/ (NewJob /\ net'.pc = "join" /\ net.pc = "listen")
      BY <1>4, <1>5, <1>8 DEF Drop, Disconnected, NewJob
    <2>2. /\ UNCHANGED <<link, w, owner, client, filed, requests, best, files, found, dropped, breaks, faults>>
          /\ generation' \in Nat
          /\ conn' \in [up : BOOLEAN, auth : BOOLEAN] /\ (conn'.auth => conn'.up)
          /\ NewJob => conn' = conn
      BY <1>6, <1>8 DEF Drop, Disconnected, NewJob, Types
    <2> QED BY <2>1, <2>2 DEF Types, client, files
  <1>9. CASE FindSolution
    <2> DEFINE mine == {p \in filed : p[1] = net.id}
    <2>1. /\ net' = IF mine = {} THEN Listening
                    ELSE [net EXCEPT !.pc = "result", !.sol = (CHOOSE p \in mine : TRUE)[2]]
          /\ filed' = filed \ mine /\ net.pc = "callback"
          /\ UNCHANGED <<generation, link, conn, w, owner, client, requests, best, files, found,
                         dropped, breaks, faults>>
      BY <1>9 DEF FindSolution
    <2>2. CASE mine = {}
      BY <1>3, <2>1, <2>2 DEF Types, client, files
    <2>3. CASE mine # {}
      <3>1. PICK p \in mine : p = CHOOSE q \in mine : TRUE
        BY <2>3
      <3>2. p[2] \in Solutions
        BY DEF Types
      <3>3. net' = [net EXCEPT !.pc = "result", !.sol = p[2]]
        BY <2>1, <2>3, <3>1
      <3>4. net' \in NetState /\ net'.pc = "result" /\ net'.sol \in Solutions
        BY <3>2, <3>3 DEF Types, NetState, NetPcs
      <3>5. filed' \subseteq (FirstId..(nextId - 1)) \X Solutions
        BY <2>1 DEF Types
      <3> QED BY <2>1, <3>4, <3>5 DEF Types, client, files
    <2> QED BY <2>2, <2>3
  <1>10. CASE UpdateAnswered
    <2> DEFINE v == IF net.accepted THEN "accepted" ELSE "rejected"
    <2>1. net.pc = "result" /\ net' = Listening /\ Update(net.sol, v)
          /\ UNCHANGED <<generation, link, conn, w, owner, client, filed, requests, best,
                 bestFile, records, found, dropped, breaks>>
      BY <1>10 DEF UpdateAnswered
    <2>2. v \in Statuses /\ net.sol \in Solutions
      BY <2>1 DEF Statuses, Types
    <2> HIDE DEF v
    <2>3. Wrote(net.sol, {v}) /\ faults' \in Nat /\ breaks + faults' <= MaxTroubles
      BY <2>1, <2>2, UpdateWrote
    <2>4. candidate' \in [Solutions -> Statuses] /\ audit' \in [Solutions -> Statuses]
      BY <2>3 DEF Wrote
    <2> QED BY <1>3, <2>1, <2>3, <2>4 DEF Types, client
  <1>11. ASSUME NEW r \in requests, TakeAnswer(r) PROVE Types'
    <2>1. r[1] \in Nat
      BY FindsAreNumbers DEF Types
    <2>2. PICK accepted \in BOOLEAN :
            net' = IF r[1] \in awaited
                     THEN [pc |-> "callback", id |-> r[1], sol |-> None, accepted |-> accepted]
                     ELSE net
      <3>1. (r[2] \in Accepts) \in BOOLEAN
        OBVIOUS
      <3> WITNESS (r[2] \in Accepts) \in BOOLEAN
      <3> QED BY <1>11, Zenon DEF TakeAnswer
    <2>3. [pc |-> "callback", id |-> r[1], sol |-> None, accepted |-> accepted] \in NetState
      BY <2>1, Zenon DEF NetState, NetPcs
    <2>4. net' \in {net, [pc |-> "callback", id |-> r[1], sol |-> None, accepted |-> accepted]}
      BY <2>2
    <2>5. net' \in NetState /\ net'.pc \in {net.pc, "callback"} /\ net.pc = "listen"
      BY <1>11, <2>3, <2>4 DEF Types, TakeAnswer
    <2> QED BY <1>11, <2>5 DEF Types, TakeAnswer, files
  <1>12. CASE Connect \/ Authorized \/ LinkBreaks
    <2>1. net' \in NetState /\ (net'.pc = "result" => net' = net)
      BY <1>3, <1>12 DEF Connect, Authorized, LinkBreaks, Types
    <2>2. UNCHANGED <<generation, w, owner, client, filed, best, files, found, dropped, faults>>
      BY <1>12 DEF Connect, Authorized, LinkBreaks
    <2>3. link' \in BOOLEAN /\ requests' \subseteq requests
      BY <1>12 DEF Connect, Authorized, LinkBreaks, Types
    <2>4. /\ conn' \in [up : BOOLEAN, auth : BOOLEAN] /\ (conn'.auth => conn'.up)
          /\ net'.pc \in {"listen", "join", "callback", "result"} => conn'.up
      <3>1. CASE Connect
        <4>1. conn' = [up |-> TRUE, auth |-> FALSE]
          BY <3>1 DEF Connect
        <4> QED BY <4>1
      <3>3. CASE LinkBreaks
        BY <3>3 DEF LinkBreaks, Types
      <3>2. CASE Authorized
        <4>1. conn' = [conn EXCEPT !.auth = TRUE] /\ net' = net /\ net.pc = "listen"
          BY <3>2 DEF Authorized
        <4>2. conn'.up = conn.up /\ conn' \in [up : BOOLEAN, auth : BOOLEAN]
          BY <4>1, Zenon DEF Types
        <4> QED BY <4>1, <4>2 DEF Types
      <3> QED BY <1>12, <3>1, <3>2, <3>3
    <2>5. breaks' \in Nat /\ breaks' + faults <= MaxTroubles
      BY <1>12, FindsAreNumbers DEF Connect, Authorized, LinkBreaks, Types
    <2> QED BY <2>1, <2>2, <2>3, <2>4, <2>5 DEF Types, client, files
  <1>13. CASE Crash
    <2>1. faults' \in Nat /\ breaks + faults' <= MaxTroubles
      BY <1>13, FindsAreNumbers DEF Crash, Types
    <2>2. nextId' \in Nat /\ FirstId <= nextId' /\ awaited' = {} /\ filed' = {} /\ requests' = {}
      BY <1>13, FindsAreNumbers DEF Crash
    <2>3. generation' \in Nat /\ link' \in BOOLEAN /\ net' \in NetState /\ w' \in [Workers -> WorkerState]
          /\ net'.pc = "offline"
          /\ owner' \in Workers \cup {None} /\ best' \in [hash : Finds \cup {None}, owner : Workers \cup {None}]
      BY <1>1, <1>3, <1>13 DEF Crash, Types
    <2>4. conn' \in [up : BOOLEAN, auth : BOOLEAN] /\ (conn'.auth => conn'.up)
      BY <1>6, <1>13 DEF Crash
    <2>5. UNCHANGED <<files, found, dropped, breaks>>
      BY <1>13 DEF Crash
    <2> QED BY <2>1, <2>2, <2>3, <2>4, <2>5 DEF Types, files
  <1> QED BY <1>7, <1>8, <1>9, <1>10, <1>11, <1>12, <1>13 DEF NetworkStep, NetStep
-----------------------------------------------------------------------------
(* What a step of a worker amounts to for the locks, the ids and the solutions. *)

(* A solution is taken from the queue: the top of on_candidate. *)
Taken(t, s) ==
  /\ w[t].pc = "hash" /\ s \in w[t].queue /\ Others(t)
  /\ w'[t].pc = "observe" /\ w'[t].sol = s /\ w'[t].queue = w[t].queue \ {s}
  /\ w'[t].best = w[t].best
  /\ UNCHANGED <<owner, client, filed, requests, files, found, dropped>>

(* A batch is hashed. *)
Hashed(t, H) ==
  /\ w[t].pc = "hash" /\ w[t].queue = {} /\ Others(t)
  /\ w'[t].pc = "hash" /\ w'[t].sol = w[t].sol
  /\ H \cap found = {} /\ found' = found \cup H
  /\ \A s \in w'[t].queue : s \in Solutions /\ s[1] \in H
  /\ UNCHANGED <<owner, client, filed, requests, files>>

(* What all the later steps of on_candidate have in common. *)
Later(t) ==
  /\ w[t].sol \in Solutions /\ Others(t) /\ w'[t].queue = w[t].queue
  /\ w'[t].best = w[t].best /\ Wrote(w[t].sol, Interim) /\ UNCHANGED <<found, dropped>>

Early == {"observe", "append", "gate", "candidate", "audit", "error"}

(* A step outside submissions_mutex, which the call survives or not. *)
Plain(t) ==
  /\ Later(t) /\ w[t].pc \in Early
  /\ \/ w'[t].pc \in (Early \ {"observe", "error"}) \cup {"submit"} /\ w'[t].sol = w[t].sol
     \/ w'[t].pc = "hash" /\ w'[t].sol = None
  /\ UNCHANGED <<owner, client, filed, requests>>

(* The four steps of a submission, and the one that fails. *)
Drawn(t) ==
  /\ Later(t) /\ w[t].pc = "submit" /\ w'[t].pc = "send" /\ w'[t].sol = w[t].sol
  /\ w'[t].id = nextId /\ nextId' = nextId + 1 /\ owner = None /\ owner' = t
  /\ UNCHANGED <<filed, requests>>

Sent(t) ==
  /\ Later(t) /\ w[t].pc = "send" /\ w'[t].pc = "file" /\ w'[t].sol = w[t].sol
  /\ w'[t].id = w[t].id /\ requests' \in {requests, requests \cup {<<w[t].id, w[t].sol>>}}
  /\ UNCHANGED <<owner, client, filed>>

Unsent(t) ==
  /\ Later(t) /\ w[t].pc = "send" /\ w'[t].pc = "error" /\ w'[t].sol = w[t].sol
  /\ owner' = None /\ UNCHANGED <<nextId, filed, requests>>

Noted(t) ==
  /\ Later(t) /\ w[t].pc = "file" /\ w'[t].pc = "update" /\ w'[t].sol = w[t].sol
  /\ w'[t].id = w[t].id /\ filed' = filed \cup {<<w[t].id, w[t].sol>>}
  /\ UNCHANGED <<owner, client, requests>>

Closed(t) ==
  /\ Later(t) /\ w[t].pc = "update" /\ w'[t].pc = "hash" /\ w'[t].sol = None
  /\ owner' = None /\ UNCHANGED <<client, filed, requests>>

(* Every step of a worker is one of the moves above. *)
LEMMA WorkerMoves ==
  ASSUME Types, Calls, NEW t \in Workers, WorkerStep(t)
  PROVE  /\ UNCHANGED <<generation, link, conn, net, breaks>>
         /\ \/ \E s \in Solutions : Taken(t, s)
            \/ \E H \in SUBSET Finds : Hashed(t, H)
            \/ Plain(t) \/ Drawn(t) \/ Sent(t) \/ Unsent(t) \/ Noted(t) \/ Closed(t)
  <1>1. ASSUME NEW s \in Solutions, Report(t, s)
        PROVE  Taken(t, s) /\ UNCHANGED <<generation, link, conn, net, breaks>>
    BY <1>1, ReportCall DEF Taken, Report
  <1>2. ASSUME NEW H \in SUBSET Finds, Batch(t, H)
        PROVE  Hashed(t, H) /\ UNCHANGED <<generation, link, conn, net, breaks>>
    <2>1. UNCHANGED <<generation, link, conn, net, breaks, owner, client, filed, requests, files>>
      BY <1>2 DEF Batch
    <2> QED BY <1>2, <2>1, BatchCall DEF Hashed
  <1>3. UNCHANGED files /\ w[t].sol \in Solutions => Wrote(w[t].sol, Interim)
    BY DEF Wrote, Types, files
  <1>4. CASE NotRecord(t) \/ Gate(t)
    <2>1. w[t].sol \in Solutions
      BY <1>4, InHand DEF NotRecord, Gate
    <2>2. /\ UNCHANGED <<generation, link, conn, net, breaks>>
          /\ UNCHANGED <<owner, client, filed, requests, found, dropped>>
          /\ UNCHANGED files
      BY <1>4 DEF NotRecord, Gate
    <2>3. Later(t)
      BY <1>3, <1>4, <2>1, <2>2, QuietCalls DEF Later, Keeps, Ends
    <2>4. Plain(t)
      BY <1>4, <2>2, <2>3, QuietCalls DEF Plain, Keeps, Ends, Early
    <2> QED BY <2>2, <2>4
  <1>5. CASE SaveBest(t) \/ AppendRecord(t)
    <2>1. w[t].sol \in Solutions
      BY <1>5, InHand DEF SaveBest, AppendRecord
    <2>2. /\ UNCHANGED <<generation, link, conn, net, breaks>>
          /\ UNCHANGED <<owner, client, filed, requests, found, dropped>>
          /\ UNCHANGED <<candidate, audit>>
      BY <1>5 DEF SaveBest, AppendRecord
    <2>3. Wrote(w[t].sol, Interim)
      BY <2>1, <2>2 DEF Wrote, Types
    <2>4. w[t].pc \in {"observe", "append"} /\ (Keeps(t, "gate") \/ Keeps(t, "append"))
      BY <1>5, <2>1, BestCalls
    <2>5. Later(t)
      BY <2>1, <2>2, <2>3, <2>4 DEF Later, Keeps
    <2>6. Plain(t)
      BY <2>2, <2>4, <2>5 DEF Plain, Keeps, Early
    <2> QED BY <2>2, <2>6
  <1>6. CASE SaveCandidate(t) \/ SaveAudit(t) \/ LocalError(t) \/ UpdateSent(t)
    <2>1. w[t].sol \in Solutions
      BY <1>6, InHand DEF SaveCandidate, SaveAudit, LocalError, UpdateSent
    <2>2. /\ UNCHANGED <<generation, link, conn, net, breaks>>
          /\ UNCHANGED <<client, filed, requests, found, dropped>>
      BY <1>6 DEF SaveCandidate, SaveAudit, LocalError, UpdateSent
    <2>3. Wrote(w[t].sol, Interim)
      BY <1>6, <2>1, FileCalls
    <2>4. CASE UpdateSent(t)
      <3>1. w[t].pc = "update" /\ Ends(t)
        BY <2>1, <2>4, FileCalls
      <3>2. owner = t
        BY <3>1 DEF Calls, InLock
      <3>3. owner' = None
        BY <2>4, <3>2 DEF UpdateSent
      <3>4. Later(t)
        BY <2>1, <2>2, <2>3, <3>1 DEF Later, Ends
      <3> QED BY <2>2, <3>1, <3>3, <3>4 DEF Closed, Ends
    <2>5. CASE SaveCandidate(t) \/ SaveAudit(t) \/ LocalError(t)
      <3>1. w[t].pc \in {"candidate", "audit", "error"}
            /\ (Ends(t) \/ Keeps(t, "audit") \/ Keeps(t, "submit"))
        BY <2>1, <2>5, FileCalls
      <3>2. UNCHANGED owner
        BY <2>5 DEF SaveCandidate, SaveAudit, LocalError
      <3>3. Later(t)
        BY <2>1, <2>2, <2>3, <3>1 DEF Later, Ends, Keeps
      <3>4. Plain(t)
        BY <2>2, <3>1, <3>2, <3>3 DEF Plain, Early, Ends, Keeps
      <3> QED BY <2>2, <3>4
    <2> QED BY <1>6, <2>4, <2>5
  <1>7. CASE DrawId(t) \/ Send(t) \/ SendFails(t) \/ File(t)
    <2>1. w[t].sol \in Solutions
      BY <1>7, InHand DEF DrawId, Send, SendFails, File
    <2>2. /\ UNCHANGED <<generation, link, conn, net, breaks>>
          /\ UNCHANGED <<found, dropped>> /\ UNCHANGED files
      BY <1>7 DEF DrawId, Send, SendFails, File
    <2>3. Later(t)
      BY <1>3, <1>7, <2>1, <2>2, SubmitCalls DEF Later, Keeps
    <2>4. CASE DrawId(t)
      BY <2>2, <2>3, <2>4, SubmitCalls DEF Drawn, DrawId
    <2>5. CASE Send(t)
      BY <2>2, <2>3, <2>5, SubmitCalls DEF Sent, Send, Keeps
    <2>6. CASE SendFails(t)
      BY <2>2, <2>3, <2>6, SubmitCalls DEF Unsent, SendFails, Keeps
    <2>7. CASE File(t)
      BY <2>2, <2>3, <2>7, SubmitCalls DEF Noted, File, Keeps
    <2> QED BY <1>7, <2>4, <2>5, <2>6, <2>7
  <1> QED BY <1>1, <1>2, <1>4, <1>5, <1>6, <1>7 DEF WorkerStep, OnCandidate

(* The workers are gone or start again: none has anything in hand. *)
Cleared == \A t \in Workers : w'[t].queue = {} /\ w'[t].sol = None
                              /\ w'[t].pc \in {"none", "hash"} /\ w'[t].best = None

(* Workers that have been joined hold neither a mutex nor a solution. *)
LEMMA Joined ==
  ASSUME Types, Calls, AllJoined
  PROVE  owner = None /\ \A t \in Workers : w[t].queue = {} /\ w[t].sol = None
  BY DEF Types, Calls, AllJoined, InLock

(* Calls is kept by the steps of the workers. *)
LEMMA CallsStep ==
  ASSUME Types, Calls, NEW t \in Workers, WorkerStep(t)
  PROVE  Calls'
  <1>1. /\ Types' /\ nextId \in Nat /\ FirstId <= nextId /\ FirstId \in Nat
    BY WorkerTypes, FindsAreNumbers DEF Types
  <1>2. ASSUME NEW s \in Solutions, Taken(t, s) PROVE Calls'
    BY <1>2, FindsAreNumbers DEF Taken, Calls, Others, InLock, client
  <1>3. ASSUME NEW H \in SUBSET Finds, Hashed(t, H) PROVE Calls'
    BY <1>3, FindsAreNumbers DEF Hashed, Calls, Others, InLock, client
  <1>4. CASE Plain(t)
    BY <1>4, FindsAreNumbers DEF Plain, Later, Early, Calls, Others, InLock, client
  <1>5. CASE Drawn(t)
    <2>1. /\ nextId \in FirstId..(nextId' - 1)
          /\ \A n \in FirstId..(nextId - 1) : n \in FirstId..(nextId' - 1)
      BY <1>1, <1>5 DEF Drawn
    <2> QED BY <1>5, <2>1, FindsAreNumbers DEF Drawn, Later, Calls, Others, InLock
  <1>6. CASE Sent(t)
    BY <1>6, FindsAreNumbers DEF Sent, Later, Calls, Others, InLock, client
  <1>7. CASE Unsent(t)
    BY <1>7, FindsAreNumbers DEF Unsent, Later, Calls, Others, InLock
  <1>8. CASE Noted(t)
    BY <1>8, FindsAreNumbers DEF Noted, Later, Calls, Others, InLock, client
  <1>9. CASE Closed(t)
    BY <1>9, FindsAreNumbers DEF Closed, Later, Calls, Others, InLock, client
  <1> QED BY <1>2, <1>3, <1>4, <1>5, <1>6, <1>7, <1>8, <1>9, WorkerMoves

(* What the other steps leave alone. *)
LEMMA NetworkMoves ==
  ASSUME Types, Calls, NetworkStep
  PROVE  /\ UNCHANGED <<owner, nextId, best, bestFile, records, found, dropped>>
         /\ ~UpdateAnswered => UNCHANGED <<candidate, audit, faults>>
         /\ ~FindSolution => UNCHANGED filed
         /\ requests' \subseteq requests
         /\ UNCHANGED w \/ (AllJoined /\ Cleared)
  <1>1. CASE Launch \/ Leave
    <2>1. AllJoined
      BY <1>1 DEF Launch, Leave
    <2>2. owner = None
      BY <2>1, Joined
    <2>3. Cleared
      <3>1. NoWorker.queue = {} /\ NoWorker.sol = None /\ NoWorker.pc = "none" /\ NoWorker.best = None
        BY DEF NoWorker
      <3>2. /\ Started(generation).queue = {} /\ Started(generation).sol = None
            /\ Started(generation).pc = "hash" /\ Started(generation).best = None
        BY DEF Started, NoWorker
      <3>3. w' = [t \in Workers |-> NoWorker] \/ w' = [t \in Workers |-> Started(generation)]
        BY <1>1 DEF Launch, Leave
      <3> HIDE DEF NoWorker, Started
      <3> QED BY <3>1, <3>2, <3>3 DEF Cleared
    <2>4. UNCHANGED <<owner, client, best, files, found, dropped, faults, filed, requests>>
      BY <1>1, <2>2 DEF Launch, Leave
    <2> QED BY <2>1, <2>3, <2>4 DEF client, files
  <1>2. CASE Drop \/ Disconnected \/ NewJob \/ Connect \/ Authorized \/ LinkBreaks
    <2>1. UNCHANGED <<owner, client, best, files, found, dropped, faults, filed, w>>
      BY <1>2 DEF Drop, Disconnected, NewJob, Connect, Authorized, LinkBreaks
    <2>2. requests' \subseteq requests
      BY <1>2 DEF Drop, Disconnected, NewJob, Connect, Authorized, LinkBreaks
    <2> QED BY <2>1, <2>2 DEF client, files
  <1>3. CASE FindSolution
    BY <1>3 DEF FindSolution, client, files
  <1>4. CASE UpdateAnswered
    <2>1. ~FindSolution
      BY <1>4 DEF UpdateAnswered, FindSolution
    <2> QED BY <1>4, <2>1 DEF UpdateAnswered, client
  <1>5. ASSUME NEW r \in requests, TakeAnswer(r)
        PROVE  /\ UNCHANGED <<owner, nextId, best, files, found, dropped, faults, filed, w>>
               /\ requests' \subseteq requests
    BY <1>5 DEF TakeAnswer
  <1> QED BY <1>1, <1>2, <1>3, <1>4, <1>5 DEF NetworkStep, NetStep, files

(* Calls is kept by the other steps. *)
LEMMA NetworkCalls ==
  ASSUME Types, Calls, NetworkStep \/ Crash
  PROVE  Calls'
  <1>1. CASE NetworkStep
    <2>1. UNCHANGED <<owner, nextId>> /\ (UNCHANGED w \/ (AllJoined /\ Cleared))
      BY <1>1, NetworkMoves
    <2>2. CASE UNCHANGED w
      BY <2>1, <2>2 DEF Calls
    <2>3. CASE AllJoined /\ Cleared
      <3>1. owner' = None
        BY <2>1, <2>3, Joined
      <3> QED BY <2>3, <3>1, FindsAreNumbers DEF Calls, Cleared, InLock
    <2> QED BY <2>1, <2>2, <2>3
  <1>2. CASE Crash
    BY <1>2, FindsAreNumbers DEF Crash, Calls, NoWorker, InLock
  <1> QED BY <1>1, <1>2
-----------------------------------------------------------------------------
(* Where a solution is: in the hands of a worker, filed under an id, with the
   callback, or answered.  It moves in that order and is never in two places
   (except while the worker that filed it updates its files). *)

Held(s) == \E t \in Workers : s \in w[t].queue \/ w[t].sol = s
Filed(s) == \E p \in filed : p[2] = s
InResult(s) == net.pc = "result" /\ net.sol = s
Answers == {"accepted", "rejected"}
Answered(s) == candidate[s] \in Answers \/ audit[s] \in Answers

(* Each solution is in one hand only. *)
Once ==
  /\ \A t \in Workers : \A s \in w[t].queue :
       /\ s[1] \in found
       /\ \A u \in Workers : w[u].sol # s /\ (u # t => s \notin w[u].queue)
  /\ \A t \in Workers : w[t].sol # None =>
       /\ w[t].sol[1] \in found
       /\ \A u \in Workers : u # t => w[u].sol # w[t].sol

(* Ids and solutions are matched one to one; a filed solution has left the
   hands of the workers, but for the one that still holds the mutex. *)
FiledOnce ==
  /\ \A p, q \in filed : p[1] = q[1] \/ p[2] = q[2] => p = q
  /\ \A p \in filed :
       /\ p[2][1] \in found
       /\ \A t \in Workers : /\ p[2] \notin w[t].queue
                             /\ w[t].sol = p[2] => w[t].pc = "update"
                             /\ w[t].pc \in {"send", "file"} => w[t].id # p[1]
  /\ \A r \in requests :
       r \in filed \/ \E t \in Workers : w[t].pc = "file" /\ r = <<w[t].id, w[t].sol>>

(* The id the callback has taken is filed, or about to be by the worker that
   holds the mutex; no other answer for it can come. *)
TakenIsKnown ==
  net.pc = "callback" =>
    /\ \A r \in requests : r[1] # net.id
    /\ \A t \in Workers : w[t].pc = "send" => w[t].id # net.id
    /\ \/ \E p \in filed : p[1] = net.id /\ (p[2] \in Accepts <=> net.accepted)
       \/ \E t \in Workers : /\ w[t].pc = "file" /\ w[t].id = net.id
                             /\ w[t].sol \in Accepts <=> net.accepted

(* A solution whose answer is being recorded is nowhere else. *)
ResultIsAlone ==
  \A s \in Solutions : InResult(s) =>
    s[1] \in found /\ ~Held(s) /\ ~Filed(s) /\ (s \in Accepts <=> net.accepted)

(* A solution that has been answered is settled. *)
Settled ==
  \A s \in Solutions : Answered(s) => s[1] \in found /\ ~Held(s) /\ ~Filed(s) /\ ~InResult(s)

(* Once is kept by the steps of the workers. *)
LEMMA OnceStep ==
  ASSUME Types, Calls, Once, NEW t \in Workers, WorkerStep(t)
  PROVE  Once'
  <1>1. ASSUME NEW s \in Solutions, Taken(t, s) PROVE Once'
    <2>1. w[t].sol = None
      BY <1>1 DEF Taken, Calls
    <2> QED BY <1>1, <2>1 DEF Once, Taken, Others
  <1>2. ASSUME NEW H \in SUBSET Finds, Hashed(t, H) PROVE Once'
    <2>1. \A s \in w'[t].queue : s[1] \in H /\ s[1] \notin found
      BY <1>2 DEF Hashed
    <2>2. \A u \in Workers : \A s \in w'[t].queue : s \notin w[u].queue
      BY <2>1 DEF Once
    <2>3. \A u \in Workers : \A s \in w'[t].queue : s \in Solutions /\ w[u].sol # s
      <3> SUFFICES ASSUME NEW u \in Workers, NEW s \in w'[t].queue, w[u].sol = s PROVE s \notin Solutions
        BY <1>2 DEF Hashed
      <3>1. s[1] \notin found
        BY <2>1
      <3>2. w[u].sol = None
        BY <3>1 DEF Once
      <3> QED BY <3>2, FindsAreNumbers
    <2> QED BY <1>2, <2>1, <2>2, <2>3 DEF Once, Hashed, Others
  <1>3. ASSUME Others(t), w'[t].queue = w[t].queue, UNCHANGED found,
               w'[t].sol = w[t].sol \/ w'[t].sol = None
        PROVE  Once'
    <2>1. \A s \in w[t].queue : s # None
      BY FindsAreNumbers DEF Types, WorkerState
    <2>2. \A u \in Workers : \A s \in w[u].queue : s # None
      BY FindsAreNumbers DEF Types, WorkerState
    <2> QED BY <1>3, <2>1, <2>2 DEF Once, Others
  <1>4. CASE Plain(t)
    BY <1>3, <1>4 DEF Plain, Later
  <1>5. CASE Drawn(t) \/ Sent(t) \/ Unsent(t) \/ Noted(t) \/ Closed(t)
    BY <1>3, <1>5 DEF Drawn, Sent, Unsent, Noted, Closed, Later
  <1> QED BY <1>1, <1>2, <1>4, <1>5, WorkerMoves

(* Once is kept by the other steps. *)
LEMMA NetworkOnce ==
  ASSUME Types, Calls, Once, NetworkStep \/ Crash
  PROVE  Once'
  <1>1. CASE NetworkStep
    <2>1. UNCHANGED found /\ (UNCHANGED w \/ (AllJoined /\ Cleared))
      BY <1>1, NetworkMoves
    <2> QED BY <2>1 DEF Once, Cleared
  <1>2. CASE Crash
    BY <1>2 DEF Crash, Once, NoWorker
  <1> QED BY <1>1, <1>2

(* Only a batch brings new solutions, and those are of hashes never found before. *)
LEMMA HeldStep ==
  ASSUME Types, Calls, NEW t \in Workers, WorkerStep(t), NEW s \in Solutions, Held(s)'
  PROVE  Held(s) \/ s[1] \notin found
  <1>0. s # None
    BY FindsAreNumbers
  <1>1. ASSUME NEW z \in Solutions, Taken(t, z) PROVE Held(s)
    BY <1>1 DEF Held, Taken, Others
  <1>2. ASSUME NEW H \in SUBSET Finds, Hashed(t, H) PROVE Held(s) \/ s[1] \notin found
    BY <1>2 DEF Held, Hashed, Others
  <1>3. ASSUME Others(t), w'[t].queue = w[t].queue,
               w'[t].sol = w[t].sol \/ w'[t].sol = None
        PROVE  Held(s)
    BY <1>0, <1>3 DEF Held, Others
  <1>4. CASE Plain(t)
    BY <1>3, <1>4 DEF Plain, Later
  <1>5. CASE Drawn(t) \/ Sent(t) \/ Unsent(t) \/ Noted(t) \/ Closed(t)
    BY <1>3, <1>5 DEF Drawn, Sent, Unsent, Noted, Closed, Later
  <1> QED BY <1>1, <1>2, <1>4, <1>5, WorkerMoves

(* What a worker writes is no answer, and concerns only the solution it holds. *)
LEMMA AnswerStep ==
  ASSUME Types, Calls, NEW t \in Workers, WorkerStep(t), NEW s \in Solutions
  PROVE  /\ Answered(s)' => Answered(s)
         /\ ~Held(s) => candidate'[s] = candidate[s] /\ audit'[s] = audit[s]
         /\ candidate'[s] \in Answers => candidate'[s] = candidate[s]
         /\ audit'[s] \in Answers => audit'[s] = audit[s]
  <1>1. ASSUME w[t].sol \in Solutions, Wrote(w[t].sol, Interim)
        PROVE  /\ ~Held(s) => candidate'[s] = candidate[s] /\ audit'[s] = audit[s]
               /\ candidate'[s] \in Answers => candidate'[s] = candidate[s]
               /\ audit'[s] \in Answers => audit'[s] = audit[s]
    BY <1>1 DEF Wrote, Held, Answers, Interim
  <1>2. ASSUME UNCHANGED files
        PROVE  candidate'[s] = candidate[s] /\ audit'[s] = audit[s]
    BY <1>2 DEF files
  <1>3. (w[t].sol \in Solutions /\ Wrote(w[t].sol, Interim)) \/ UNCHANGED files
    BY WorkerMoves DEF Taken, Hashed, Plain, Drawn, Sent, Unsent, Noted, Closed, Later
  <1> QED BY <1>1, <1>2, <1>3 DEF Answered

(* Only the worker that holds a solution files it. *)
LEMMA FiledStep ==
  ASSUME Types, Calls, NEW t \in Workers, WorkerStep(t)
  PROVE  /\ filed \subseteq filed'
         /\ \A s \in Solutions : Filed(s)' => Filed(s) \/ Held(s)
  <1>1. CASE Noted(t)
    BY <1>1 DEF Noted, Filed, Held
  <1>2. CASE UNCHANGED filed
    BY <1>2 DEF Filed
  <1>3. Noted(t) \/ UNCHANGED filed
    BY WorkerMoves DEF Taken, Hashed, Plain, Drawn, Sent, Unsent, Closed
  <1> QED BY <1>1, <1>2, <1>3
(* FiledOnce is kept by the steps of the workers: the id drawn is new, and the
   solution filed was in no other hand. *)
LEMMA FiledOnceStep ==
  ASSUME Types, Calls, Once, FiledOnce, NEW t \in Workers, WorkerStep(t)
  PROVE  FiledOnce'
  <1>0. /\ \A p \in filed : p[1] \in FirstId..(nextId - 1) /\ p[2] \in Solutions
        /\ \A u \in Workers : owner = u <=> w[u].pc \in InLock
    BY DEF Types, Calls
  <1>1. ASSUME NEW s \in Solutions, Taken(t, s) PROVE FiledOnce'
    <2>1. \A p \in filed : p[2] # s
      BY <1>1 DEF FiledOnce, Taken
    <2> QED BY <1>1, <2>1 DEF FiledOnce, Taken, Others
  <1>2. ASSUME NEW H \in SUBSET Finds, Hashed(t, H) PROVE FiledOnce'
    <2>1. \A p \in filed : p[2] \notin w'[t].queue
      BY <1>2 DEF FiledOnce, Hashed
    <2> QED BY <1>2, <2>1 DEF FiledOnce, Hashed, Others
  <1>3. CASE Plain(t)
    <2>1. \A p \in filed : w'[t].sol # p[2]
      BY <1>0, <1>3, FindsAreNumbers DEF FiledOnce, Plain, Early
    <2>2. w[t].pc \notin {"send", "file", "update"} /\ w'[t].pc \notin {"send", "file", "update"}
      BY <1>3 DEF Plain, Early
    <2> QED BY <1>3, <2>1, <2>2 DEF FiledOnce, Plain, Later, Others
  <1>4. CASE Drawn(t)
    <2>1. \A p \in filed : nextId # p[1]
      BY <1>0, FindsAreNumbers DEF Types
    <2>2. \A p \in filed : w[t].sol # p[2]
      BY <1>4 DEF FiledOnce, Drawn
    <2> QED BY <1>4, <2>1, <2>2 DEF FiledOnce, Drawn, Later, Others
  <1>5. CASE Sent(t)
    <2>1. \A p \in filed : w[t].sol # p[2]
      BY <1>5 DEF FiledOnce, Sent
    <2> QED BY <1>5, <2>1 DEF FiledOnce, Sent, Later, Others
  <1>6. CASE Unsent(t)
    <2>1. \A p \in filed : w[t].sol # p[2]
      BY <1>6 DEF FiledOnce, Unsent
    <2> QED BY <1>6, <2>1 DEF FiledOnce, Unsent, Later, Others
  <1>7. CASE Noted(t)
    <2> DEFINE z == <<w[t].id, w[t].sol>>
    <2>1. /\ w[t].pc = "file" /\ w'[t].pc = "update" /\ w'[t].sol = w[t].sol /\ w'[t].id = w[t].id
          /\ w'[t].queue = w[t].queue /\ filed' = filed \cup {z} /\ UNCHANGED <<requests, found>>
          /\ w[t].sol \in Solutions /\ Others(t) /\ owner = t
      BY <1>0, <1>7 DEF Noted, Later, InLock
    <2>2. \A p \in filed : p[1] # z[1] /\ p[2] # z[2]
      BY <2>1 DEF FiledOnce
    <2>3. z[1] = w[t].id /\ z[2] = w[t].sol /\ z[2] # None
      BY <2>1, FindsAreNumbers
    <2>4. /\ z[2][1] \in found
          /\ \A u \in Workers : z[2] \notin w[u].queue /\ (u # t => w[u].sol # z[2])
      BY <2>3 DEF Once
    <2>5. \A u \in Workers : u # t => w[u].pc \notin InLock
      BY <1>0, <2>1
    <2>6. \A p, q \in filed' : p[1] = q[1] \/ p[2] = q[2] => p = q
      BY <2>1, <2>2 DEF FiledOnce
    <2>7. ASSUME NEW p \in filed', NEW u \in Workers
          PROVE  /\ p[2][1] \in found' /\ p[2] \notin w'[u].queue
                 /\ w'[u].sol = p[2] => w'[u].pc = "update"
                 /\ w'[u].pc \in {"send", "file"} => w'[u].id # p[1]
      <3>1. CASE p \in filed /\ u # t
        BY <2>1, <3>1 DEF FiledOnce, Others
      <3>2. CASE p \in filed /\ u = t
        BY <2>1, <2>2, <3>2 DEF FiledOnce, Others
      <3>3. CASE p = z
        BY <2>1, <2>3, <2>4, <2>5, <3>3 DEF Others, InLock
      <3> QED BY <2>1, <3>1, <3>2, <3>3
    <2>8. ASSUME NEW r \in requests'
          PROVE  r \in filed' \/ \E u \in Workers : w'[u].pc = "file" /\ r = <<w'[u].id, w'[u].sol>>
      <3>1. CASE r \in filed
        BY <2>1, <3>1
      <3>2. CASE r \notin filed
        <4>1. PICK u \in Workers : w[u].pc = "file" /\ r = <<w[u].id, w[u].sol>>
          BY <2>1, <3>2 DEF FiledOnce
        <4>2. u = t
          BY <2>5, <4>1 DEF InLock
        <4> QED BY <2>1, <4>1, <4>2
      <3> QED BY <3>1, <3>2
    <2>9. \A p \in filed' : p[2][1] \in found'
      BY <2>1, <2>4 DEF FiledOnce
    <2> QED BY <2>6, <2>7, <2>8, <2>9 DEF FiledOnce
  <1>8. CASE Closed(t)
    <2>1. \A p \in filed : p[2] # None
      BY <1>0, FindsAreNumbers
    <2> QED BY <1>8, <2>1 DEF FiledOnce, Closed, Later, Others
  <1> QED BY <1>1, <1>2, <1>3, <1>4, <1>5, <1>6, <1>7, <1>8, WorkerMoves

(* FiledOnce is kept by the other steps: the callback takes a pair away only
   when no request with its id is left. *)
LEMMA NetworkFiledOnce ==
  ASSUME Types, Calls, FiledOnce, TakenIsKnown, NetworkStep \/ Crash
  PROVE  FiledOnce'
  <1>1. CASE Crash
    BY <1>1 DEF Crash, FiledOnce
  <1>2. CASE NetworkStep /\ ~FindSolution
    <2>1. UNCHANGED <<filed, found>> /\ requests' \subseteq requests
          /\ (UNCHANGED w \/ (AllJoined /\ Cleared))
      BY <1>2, NetworkMoves
    <2>2. CASE UNCHANGED w
      BY <2>1, <2>2 DEF FiledOnce
    <2>3. CASE AllJoined /\ Cleared
      <3>1. \A p \in filed : p[2] # None
        BY FindsAreNumbers DEF Types
      <3>2. \A r \in requests : r \in filed
        BY <2>3 DEF FiledOnce, AllJoined
      <3> QED BY <2>1, <2>3, <3>1, <3>2 DEF FiledOnce, Cleared
    <2> QED BY <2>1, <2>2, <2>3
  <1>3. CASE FindSolution
    <2>1. /\ filed' = filed \ {p \in filed : p[1] = net.id} /\ net.pc = "callback"
          /\ UNCHANGED <<w, requests, found>>
      BY <1>3 DEF FindSolution
    <2>2. \A r \in requests : r[1] # net.id
      BY <2>1 DEF TakenIsKnown
    <2> QED BY <2>1, <2>2 DEF FiledOnce
  <1> QED BY <1>1, <1>2, <1>3
(* TakenIsKnown is kept by the steps of the workers: the one that has sent the id
   files it before it lets the mutex go. *)
LEMMA TakenIsKnownStep ==
  ASSUME Types, Calls, TakenIsKnown, NEW t \in Workers, WorkerStep(t)
  PROVE  TakenIsKnown'
  <1> SUFFICES ASSUME net.pc = "callback" PROVE TakenIsKnown'
    BY WorkerMoves DEF TakenIsKnown
  <1>1. /\ UNCHANGED net /\ net.pc = "callback"
        /\ \A r \in requests : r[1] # net.id
        /\ \A u \in Workers : w[u].pc = "send" => w[u].id # net.id
    BY WorkerMoves DEF TakenIsKnown
  <1>2. net.id \in FirstId..(nextId - 1)
    <2>1. \A p \in filed : p[1] \in FirstId..(nextId - 1)
      BY DEF Types
    <2>2. \A u \in Workers : w[u].pc = "file" => w[u].id \in FirstId..(nextId - 1)
      BY DEF Calls, InLock
    <2> QED BY <2>1, <2>2 DEF TakenIsKnown
  <1>3. \A r \in requests' : r[1] # net.id
    <2>1. CASE Sent(t)
      <3>1. w[t].id # net.id /\ <<w[t].id, w[t].sol>>[1] = w[t].id
        BY <1>1, <2>1 DEF Sent
      <3> QED BY <1>1, <2>1, <3>1 DEF Sent
    <2>2. CASE UNCHANGED requests
      BY <1>1, <2>2
    <2> QED BY <2>1, <2>2, WorkerMoves DEF Taken, Hashed, Plain, Drawn, Unsent, Noted, Closed
  <1>4. \A u \in Workers : w'[u].pc = "send" => w'[u].id # net.id
    <2>1. Others(t)
      BY WorkerMoves DEF Taken, Hashed, Plain, Drawn, Sent, Unsent, Noted, Closed, Later
    <2>2. CASE Drawn(t)
      <3>1. nextId # net.id
        BY <1>2, FindsAreNumbers DEF Types
      <3> QED BY <1>1, <2>1, <2>2, <3>1 DEF Drawn, Others
    <2>3. CASE w'[t].pc # "send"
      BY <1>1, <2>1, <2>3 DEF Others
    <2>4. Drawn(t) \/ w'[t].pc # "send"
      BY WorkerMoves DEF Taken, Hashed, Plain, Sent, Unsent, Noted, Closed, Early
    <2> QED BY <2>2, <2>3, <2>4
  <1>5. \/ \E p \in filed' : p[1] = net.id /\ (p[2] \in Accepts <=> net.accepted)
        \/ \E u \in Workers : /\ w'[u].pc = "file" /\ w'[u].id = net.id
                              /\ w'[u].sol \in Accepts <=> net.accepted
    <2>1. CASE \E p \in filed : p[1] = net.id /\ (p[2] \in Accepts <=> net.accepted)
      BY <2>1, FiledStep
    <2>2. ASSUME NEW u \in Workers, w[u].pc = "file", w[u].id = net.id,
                 w[u].sol \in Accepts <=> net.accepted
          PROVE  \/ \E p \in filed' : p[1] = net.id /\ (p[2] \in Accepts <=> net.accepted)
                 \/ \E v \in Workers : /\ w'[v].pc = "file" /\ w'[v].id = net.id
                                       /\ w'[v].sol \in Accepts <=> net.accepted
      <3>1. CASE u # t
        <4>1. Others(t)
          BY WorkerMoves DEF Taken, Hashed, Plain, Drawn, Sent, Unsent, Noted, Closed, Later
        <4> QED BY <2>2, <3>1, <4>1 DEF Others
      <3>2. CASE u = t
        <4>1. Noted(t)
          BY <2>2, <3>2, WorkerMoves DEF Taken, Hashed, Plain, Drawn, Sent, Unsent, Closed, Early
        <4>2. <<w[t].id, w[t].sol>> \in filed'
          BY <4>1 DEF Noted
        <4> QED BY <2>2, <3>2, <4>2
      <3> QED BY <3>1, <3>2
    <2> QED BY <1>1, <2>1, <2>2 DEF TakenIsKnown
  <1> QED BY <1>1, <1>3, <1>4, <1>5 DEF TakenIsKnown

(* TakenIsKnown is kept by the other steps: an answer that is read comes from a
   request, and a request is filed or about to be. *)
LEMMA NetworkTakenIsKnown ==
  ASSUME Types, Calls, FiledOnce, TakenIsKnown, NetworkStep \/ Crash
  PROVE  TakenIsKnown'
  <1>1. ASSUME NEW r \in requests, TakeAnswer(r), r[1] \in awaited
        PROVE  TakenIsKnown'
    <2>1. /\ net' = [pc |-> "callback", id |-> r[1], sol |-> None, accepted |-> r[2] \in Accepts]
          /\ requests' = requests \ {r} /\ UNCHANGED <<w, filed>>
      BY <1>1 DEF TakeAnswer
    <2>2. net'.id = r[1] /\ (net'.accepted <=> r[2] \in Accepts)
      BY <2>1
    <2>3. \A p \in requests : /\ p \in (FirstId..(nextId - 1)) \X Solutions
                              /\ p = <<p[1], p[2]>>
      BY DEF Types
    <2>4. \A t, u \in Workers : w[t].pc \in InLock /\ w[u].pc \in InLock => t = u
      BY DEF Calls
    <2>5. CASE r \in filed
      <3>1. \A p \in requests' : p[1] # r[1]
        <4> SUFFICES ASSUME NEW p \in requests, p # r, p[1] = r[1] PROVE FALSE
          BY <2>1
        <4>1. CASE p \in filed
          BY <2>5, <4>1 DEF FiledOnce
        <4>2. CASE p \notin filed
          <5>1. PICK t \in Workers : w[t].pc = "file" /\ p = <<w[t].id, w[t].sol>>
            BY <4>2 DEF FiledOnce
          <5>2. w[t].id = p[1]
            BY <5>1
          <5> QED BY <2>5, <5>1, <5>2 DEF FiledOnce
        <4> QED BY <4>1, <4>2
      <3>2. \A t \in Workers : w[t].pc = "send" => w[t].id # r[1]
        BY <2>5 DEF FiledOnce
      <3>3. r[1] = net'.id /\ (r[2] \in Accepts <=> net'.accepted)
        BY <2>2
      <3> QED BY <2>1, <2>2, <2>5, <3>1, <3>2, <3>3 DEF TakenIsKnown
    <2>6. CASE r \notin filed
      <3>1. PICK t \in Workers : w[t].pc = "file" /\ r = <<w[t].id, w[t].sol>>
        BY <2>6 DEF FiledOnce
      <3>2. w[t].id = r[1] /\ w[t].sol = r[2]
        BY <3>1
      <3>3. \A p \in requests' : p[1] # r[1]
        <4> SUFFICES ASSUME NEW p \in requests, p # r, p[1] = r[1] PROVE FALSE
          BY <2>1
        <4>1. CASE p \in filed
          BY <3>1, <3>2, <4>1 DEF FiledOnce
        <4>2. CASE p \notin filed
          <5>1. PICK u \in Workers : w[u].pc = "file" /\ p = <<w[u].id, w[u].sol>>
            BY <4>2 DEF FiledOnce
          <5>2. t = u
            BY <2>4, <3>1, <5>1 DEF InLock
          <5> QED BY <3>1, <5>1, <5>2
        <4> QED BY <4>1, <4>2
      <3>4. \A u \in Workers : w[u].pc # "send"
        BY <2>4, <3>1 DEF InLock
      <3> QED BY <2>1, <2>2, <3>1, <3>2, <3>3, <3>4 DEF TakenIsKnown
    <2> QED BY <2>5, <2>6
  <1>2. ASSUME NEW r \in requests, TakeAnswer(r), r[1] \notin awaited
        PROVE  TakenIsKnown'
    BY <1>2 DEF TakeAnswer, TakenIsKnown
  <1>3. CASE net'.pc # "callback"
    BY <1>3 DEF TakenIsKnown
  <1>4. CASE LinkBreaks
    BY <1>4 DEF LinkBreaks, TakenIsKnown
  <1>5. CASE NetStep \/ Connect \/ NewJob \/ Crash
    <2>1. NoAnswer.pc = "offline" /\ Listening.pc = "listen"
      BY DEF NoAnswer, Listening
    <2>2. \A pc \in NetPcs : [net EXCEPT !.pc = pc].pc = pc
      BY DEF Types, NetState
    <2>3. {"join", "dropped", "leave"} \subseteq NetPcs
      BY DEF NetPcs
    <2>4. FindSolution => net'.pc \in {"listen", "result"}
      <3>1. \A z : [net EXCEPT !.pc = "result", !.sol = z].pc = "result"
        BY DEF Types, NetState
      <3> QED BY <2>1, <3>1 DEF FindSolution
    <2>5. net'.pc # "callback"
      BY <1>5, <2>1, <2>2, <2>3, <2>4
         DEF NetStep, Launch, Drop, Disconnected, Leave, UpdateAnswered, Connect, NewJob, Crash
    <2> QED BY <1>3, <2>5
  <1>6. CASE Authorized
    BY <1>6 DEF Authorized, TakenIsKnown
  <1> QED BY <1>1, <1>2, <1>4, <1>5, <1>6 DEF NetworkStep

(* The callback under the mutex finds exactly one solution, which nobody else
   has in hand. *)
LEMMA FoundSolution ==
  ASSUME Types, Calls, FiledOnce, TakenIsKnown, FindSolution
  PROVE  \E p \in filed :
           /\ p[1] = net.id /\ (p[2] \in Accepts <=> net.accepted)
           /\ filed' = filed \ {p} /\ ~Held(p[2])
           /\ net'.pc = "result" /\ net'.sol = p[2] /\ net'.accepted = net.accepted
  <1> DEFINE mine == {p \in filed : p[1] = net.id}
  <1>1. /\ net.pc = "callback" /\ owner = None /\ filed' = filed \ mine
        /\ net' = IF mine = {} THEN Listening
                  ELSE [net EXCEPT !.pc = "result", !.sol = (CHOOSE p \in mine : TRUE)[2]]
    BY DEF FindSolution
  <1>2. \A t \in Workers : w[t].pc \notin InLock
    BY <1>1, FindsAreNumbers DEF Calls
  <1>3. PICK p \in filed : p[1] = net.id /\ (p[2] \in Accepts <=> net.accepted)
    BY <1>1, <1>2 DEF TakenIsKnown, InLock
  <1>4. \A q \in filed : q[1] = net.id => q = p
    BY <1>3 DEF FiledOnce
  <1>5. mine = {p}
    BY <1>3, <1>4
  <1>6. (CHOOSE q \in mine : TRUE) = p
    BY <1>5
  <1>7. net' = [net EXCEPT !.pc = "result", !.sol = p[2]]
    BY <1>1, <1>5, <1>6
  <1>8. net'.pc = "result" /\ net'.sol = p[2] /\ net'.accepted = net.accepted
    BY <1>7 DEF Types, NetState
  <1>9. ~Held(p[2])
    BY <1>2 DEF Held, FiledOnce, InLock
  <1> QED BY <1>1, <1>3, <1>5, <1>8, <1>9

(* The steps of the workers never bring back a solution that has been answered. *)
LEMMA SettledStep ==
  ASSUME Types, Calls, ResultIsAlone, Settled, NEW t \in Workers, WorkerStep(t)
  PROVE  ResultIsAlone' /\ Settled'
  <1>1. found \subseteq found' /\ UNCHANGED net
    BY WorkerMoves DEF Taken, Hashed, Plain, Drawn, Sent, Unsent, Noted, Closed, Later
  <1> SUFFICES ASSUME NEW s \in Solutions
               PROVE  /\ InResult(s)' => /\ s[1] \in found' /\ ~Held(s)' /\ ~Filed(s)'
                                         /\ s \in Accepts <=> net'.accepted
                      /\ Answered(s)' => s[1] \in found' /\ ~Held(s)' /\ ~Filed(s)' /\ ~InResult(s)'
    BY DEF ResultIsAlone, Settled
  <1>2. InResult(s)' <=> InResult(s)
    BY <1>1 DEF InResult
  <1>3. Held(s)' => Held(s) \/ s[1] \notin found
    BY HeldStep
  <1>4. Filed(s)' => Filed(s) \/ Held(s)
    BY FiledStep
  <1>5. Answered(s)' => Answered(s)
    BY AnswerStep
  <1>6. InResult(s) => s[1] \in found /\ ~Held(s) /\ ~Filed(s) /\ (s \in Accepts <=> net.accepted)
    BY DEF ResultIsAlone
  <1>7. Answered(s) => s[1] \in found /\ ~Held(s) /\ ~Filed(s) /\ ~InResult(s)
    BY DEF Settled
  <1> QED BY <1>1, <1>2, <1>3, <1>4, <1>5, <1>6, <1>7

(* The network thread brings no solution back. *)
LEMMA NetworkHeld ==
  ASSUME Types, Calls, NetworkStep \/ Crash, NEW s \in Solutions
  PROVE  (Held(s)' => Held(s)) /\ (Filed(s)' => Filed(s)) /\ UNCHANGED found
  <1>0. s # None
    BY FindsAreNumbers
  <1>1. CASE NetworkStep
    <2>1. (UNCHANGED w \/ Cleared) /\ UNCHANGED found /\ (~FindSolution => UNCHANGED filed)
      BY <1>1, NetworkMoves
    <2>2. filed' \subseteq filed
      BY <2>1 DEF FindSolution
    <2> QED BY <1>0, <2>1, <2>2 DEF Held, Filed, Cleared
  <1>2. CASE Crash
    BY <1>0, <1>2 DEF Crash, Held, Filed, NoWorker
  <1> QED BY <1>1, <1>2

(* The answer is recorded for the solution it is about, and for no other. *)
LEMMA AnswerWritten ==
  ASSUME Types, UpdateAnswered, NEW v, v = IF net.accepted THEN "accepted" ELSE "rejected"
  PROVE  /\ InResult(net.sol) /\ net.sol \in Solutions /\ Wrote(net.sol, {v})
         /\ net'.pc = "listen"
  <1>1. net.pc = "result" /\ net' = Listening /\ Update(net.sol, v)
    BY DEF UpdateAnswered
  <1>2. v \in Statuses /\ net.sol \in Solutions
    BY <1>1 DEF Types, Statuses
  <1>3. net'.pc = "listen"
    BY <1>1 DEF Listening, NoAnswer
  <1> QED BY <1>1, <1>2, <1>3, UpdateWrote DEF InResult

(* Nor do the other steps. *)
LEMMA NetworkSettled ==
  ASSUME Types, Calls, FiledOnce, TakenIsKnown, ResultIsAlone, Settled, NetworkStep \/ Crash
  PROVE  ResultIsAlone' /\ Settled'
  <1> SUFFICES ASSUME NEW s \in Solutions
               PROVE  /\ InResult(s)' => /\ s[1] \in found' /\ ~Held(s)' /\ ~Filed(s)'
                                         /\ s \in Accepts <=> net'.accepted
                      /\ Answered(s)' => s[1] \in found' /\ ~Held(s)' /\ ~Filed(s)' /\ ~InResult(s)'
    BY DEF ResultIsAlone, Settled
  <1>1. (Held(s)' => Held(s)) /\ (Filed(s)' => Filed(s)) /\ UNCHANGED found
    BY NetworkHeld
  <1>2. InResult(s) => s[1] \in found /\ ~Held(s) /\ ~Filed(s) /\ (s \in Accepts <=> net.accepted)
    BY DEF ResultIsAlone
  <1>3. Answered(s) => s[1] \in found /\ ~Held(s) /\ ~Filed(s) /\ ~InResult(s)
    BY DEF Settled
  <1>4. CASE FindSolution
    <2>1. PICK p \in filed :
           /\ p[1] = net.id /\ (p[2] \in Accepts <=> net.accepted)
           /\ filed' = filed \ {p} /\ ~Held(p[2])
           /\ net'.pc = "result" /\ net'.sol = p[2] /\ net'.accepted = net.accepted
      BY <1>4, FoundSolution
    <2>2. UNCHANGED <<candidate, audit>>
      BY <1>4 DEF FindSolution, files
    <2>3. Answered(s)' <=> Answered(s)
      BY <2>2 DEF Answered
    <2>4. Filed(p[2]) /\ p[2][1] \in found
      BY DEF Filed, FiledOnce
    <2>5. ~Filed(p[2])'
      BY <2>1 DEF Filed, FiledOnce
    <2>6. InResult(s)' <=> s = p[2]
      BY <2>1 DEF InResult
    <2> QED BY <1>1, <1>3, <2>1, <2>3, <2>4, <2>5, <2>6
  <1>5. CASE UpdateAnswered
    <2> DEFINE v == IF net.accepted THEN "accepted" ELSE "rejected"
    <2>1. InResult(net.sol) /\ net.sol \in Solutions /\ Wrote(net.sol, {v}) /\ net'.pc = "listen"
      BY <1>5, AnswerWritten
    <2>2. ~InResult(s)'
      BY <2>1 DEF InResult
    <2>3. Answered(s)' => Answered(s) \/ s = net.sol
      BY <2>1 DEF Answered, Wrote
    <2>4. InResult(s) <=> s = net.sol
      BY <2>1 DEF InResult
    <2> QED BY <1>1, <1>2, <1>3, <2>2, <2>3, <2>4
  <1>6. CASE ~FindSolution /\ ~UpdateAnswered
    <2>1. UNCHANGED <<candidate, audit>>
      BY <1>6, NetworkMoves DEF Crash, files
    <2>2. Answered(s)' <=> Answered(s)
      BY <2>1 DEF Answered
    <2>3. net'.pc # "result" \/ net' = net
      <3>1. NoAnswer.pc = "offline" /\ Listening.pc = "listen"
        BY DEF NoAnswer, Listening
      <3>2. \A pc \in NetPcs : [net EXCEPT !.pc = pc].pc = pc
        BY DEF Types, NetState
      <3>3. {"join", "dropped", "leave"} \subseteq NetPcs
        BY DEF NetPcs
      <3>4. ASSUME NEW r \in requests, TakeAnswer(r) PROVE net'.pc = "callback" \/ net' = net
        BY <3>4 DEF TakeAnswer
      <3> QED BY <1>6, <3>1, <3>2, <3>3, <3>4
           DEF NetworkStep, NetStep, Launch, Drop, Disconnected, Leave, Connect, Authorized,
               NewJob, LinkBreaks, Crash
    <2>4. InResult(s)' => InResult(s) /\ net' = net
      BY <2>3 DEF InResult
    <2> QED BY <1>1, <1>2, <1>3, <2>2, <2>4
  <1> QED BY <1>4, <1>5, <1>6

(* What the files say was answered is what the pool answered. *)
LEMMA OwnAnswerStep ==
  ASSUME Types, Calls, ResultIsAlone, AnswerIsOwn,
         (\E t \in Workers : WorkerStep(t)) \/ NetworkStep \/ Crash
  PROVE  AnswerIsOwn'
  <1> SUFFICES ASSUME NEW s \in Solutions, NEW status \in {candidate'[s], audit'[s]},
                      status \in Answers
               PROVE  (status = "accepted" => s \in Accepts) /\ (status = "rejected" => s \notin Accepts)
    BY DEF AnswerIsOwn, Answers
  <1>1. CASE status \in {candidate[s], audit[s]}
    BY <1>1 DEF AnswerIsOwn
  <1>2. ASSUME NEW t \in Workers, WorkerStep(t) PROVE status \in {candidate[s], audit[s]}
    BY <1>2, AnswerStep
  <1>3. CASE UpdateAnswered /\ status \notin {candidate[s], audit[s]}
    <2> DEFINE v == IF net.accepted THEN "accepted" ELSE "rejected"
    <2>1. InResult(net.sol) /\ net.sol \in Solutions /\ Wrote(net.sol, {v})
      BY <1>3, AnswerWritten
    <2>2. s = net.sol /\ status = v
      BY <1>3, <2>1 DEF Wrote
    <2>3. s \in Accepts <=> net.accepted
      BY <2>1, <2>2 DEF ResultIsAlone
    <2> QED BY <2>2, <2>3
  <1>4. CASE (NetworkStep \/ Crash) /\ ~UpdateAnswered
    <2>1. UNCHANGED <<candidate, audit>>
      BY <1>4, NetworkMoves DEF Crash, files
    <2> QED BY <1>1, <2>1
  <1> QED BY <1>1, <1>2, <1>3, <1>4
-----------------------------------------------------------------------------
(* Nothing is sent that is not on disk. *)

Durable(s) == IF NetworkCandidate(s) THEN KeepCandidates => candidate[s] # "none"
                                     ELSE KeepAudits => audit[s] # "none"

(* From here on the solution in hand must be on disk: a network candidate once
   its own file is written, a share once its audit is. *)
MustBeSaved(t) ==
  \/ w[t].pc \in {"submit"} \cup InLock
  \/ w[t].pc = "audit" /\ NetworkCandidate(w[t].sol)

SavedFirst ==
  /\ \A t \in Workers : MustBeSaved(t) => Durable(w[t].sol)
  /\ \A r \in requests : Durable(r[2])

(* No write takes a solution off the disk. *)
LEMMA WroteKeeps ==
  ASSUME Types, NEW s \in Solutions, NEW V, "none" \notin V, Wrote(s, V),
         NEW z \in Solutions, Durable(z)
  PROVE  Durable(z)'
  <1>1. /\ candidate[z] # "none" => candidate'[z] # "none"
        /\ audit[z] # "none" => audit'[z] # "none"
    BY DEF Wrote
  <1> QED BY <1>1 DEF Durable, NetworkCandidate

(* SavedFirst is kept by the steps of the workers: a failed write ends the call
   before the submission, unless it is the audit of a saved network candidate. *)
LEMMA SavedFirstStep ==
  ASSUME Types, Calls, SavedFirst, NEW t \in Workers, WorkerStep(t)
  PROVE  SavedFirst'
  <1>1. ASSUME NEW z \in Solutions, Durable(z) PROVE Durable(z)'
    <2>1. (w[t].sol \in Solutions /\ Wrote(w[t].sol, Interim)) \/ UNCHANGED files
      BY WorkerMoves DEF Taken, Hashed, Plain, Drawn, Sent, Unsent, Noted, Closed, Later
    <2>2. CASE UNCHANGED files
      BY <1>1, <2>2 DEF Durable, NetworkCandidate, files
    <2>3. "none" \notin Interim
      BY DEF Interim
    <2> QED BY <1>1, <2>1, <2>2, <2>3, WroteKeeps
  <1>2. Others(t)
    BY WorkerMoves DEF Taken, Hashed, Plain, Drawn, Sent, Unsent, Noted, Closed, Later
  <1>3. ASSUME NEW u \in Workers, u # t, MustBeSaved(u)' PROVE Durable(w[u].sol)'
    <2>1. w'[u] = w[u]
      BY <1>2, <1>3 DEF Others
    <2>2. MustBeSaved(u)
      BY <1>3, <2>1 DEF MustBeSaved, NetworkCandidate
    <2>3. w[u].sol \in Solutions
      BY <2>2, InHand DEF MustBeSaved, InLock
    <2>4. Durable(w[u].sol)
      BY <2>2 DEF SavedFirst
    <2>5. (\A z \in Solutions : Durable(z) => Durable(z)')
      BY <1>1
    <2> QED BY <2>1, <2>3, <2>4, <2>5 DEF Durable, NetworkCandidate
  <1>4. ASSUME MustBeSaved(t)' PROVE w[t].sol \in Solutions /\ w'[t].sol = w[t].sol
    BY <1>4, WorkerMoves DEF MustBeSaved, InLock, Taken, Hashed, Plain, Drawn, Sent, Unsent, Noted, Closed, Later
  <1>5. ASSUME MustBeSaved(t)', MustBeSaved(t) PROVE Durable(w[t].sol)'
    <2>1. Durable(w[t].sol)
      BY <1>5 DEF SavedFirst
    <2> QED BY <1>1, <1>4, <1>5, <2>1 DEF Durable, NetworkCandidate
  <1>6. ASSUME MustBeSaved(t)', ~MustBeSaved(t) PROVE Durable(w[t].sol)'
    <2>1. w[t].pc \notin {"submit"} \cup InLock /\ w'[t].sol = w[t].sol /\ w[t].sol \in Solutions
      BY <1>4, <1>6 DEF MustBeSaved
    <2>2. w'[t].pc \in {"submit", "audit"}
      BY <1>6, <2>1, WorkerMoves
         DEF MustBeSaved, InLock, Taken, Hashed, Plain, Drawn, Sent, Unsent, Noted, Closed, Early
    <2>3. CASE SaveCandidate(t)
      <3>1. w'[t].pc = "audit" /\ (KeepCandidates => candidate'[w[t].sol] # "none")
        BY <2>1, <2>2, <2>3, FileCalls DEF Ends, Keeps
      <3>2. NetworkCandidate(w[t].sol)
        BY <1>6, <2>1, <3>1 DEF MustBeSaved, InLock, NetworkCandidate
      <3> QED BY <2>1, <3>1, <3>2 DEF Durable, NetworkCandidate
    <2>4. CASE SaveAudit(t)
      <3>1. /\ w[t].pc = "audit"
            /\ NetworkCandidate(w[t].sol) \/ (KeepAudits => audit'[w[t].sol] # "none")
        BY <2>1, <2>2, <2>4, FileCalls DEF Ends, Keeps
      <3>2. ~NetworkCandidate(w[t].sol)
        BY <1>6, <3>1 DEF MustBeSaved
      <3> QED BY <2>1, <3>1, <3>2 DEF Durable, NetworkCandidate
    <2>5. CASE Gate(t)
      <3>1. w'[t].pc = "audit" /\ ~NetworkCandidate(w[t].sol)
        BY <2>2, <2>5, QuietCalls DEF Ends, Keeps
      <3> QED BY <1>6, <2>1, <3>1 DEF MustBeSaved, InLock, NetworkCandidate
    <2>6. ASSUME ~SaveCandidate(t), ~SaveAudit(t), ~Gate(t) PROVE FALSE
      <3>1. ~NotRecord(t)
        BY <2>2, QuietCalls DEF Keeps
      <3>2. ~SaveBest(t) /\ ~AppendRecord(t)
        BY <2>1, <2>2, BestCalls DEF Keeps
      <3>3. ~LocalError(t) /\ ~UpdateSent(t)
        BY <2>1, <2>2, FileCalls DEF Ends
      <3>4. ~DrawId(t) /\ ~Send(t) /\ ~SendFails(t) /\ ~File(t)
        BY <2>2, SubmitCalls DEF Keeps
      <3>5. \A s \in Solutions : ~Report(t, s)
        BY <2>2, ReportCall
      <3>6. \A H \in SUBSET Finds : ~Batch(t, H)
        BY <2>2, BatchCall
      <3> QED BY <2>6, <3>1, <3>2, <3>3, <3>4, <3>5, <3>6 DEF WorkerStep, OnCandidate
    <2> QED BY <2>3, <2>4, <2>5, <2>6
  <1>7. ASSUME NEW r \in requests' PROVE Durable(r[2])'
    <2>1. ASSUME r \in requests PROVE Durable(r[2])'
      <3>1. r[2] \in Solutions /\ Durable(r[2])
        BY <2>1 DEF Types, SavedFirst
      <3> QED BY <1>1, <3>1
    <2>2. ASSUME r \notin requests PROVE Durable(r[2])'
      <3>1. Sent(t)
        BY <1>7, <2>2, WorkerMoves DEF Taken, Hashed, Plain, Drawn, Unsent, Noted, Closed
      <3>2. w[t].pc = "send" /\ r = <<w[t].id, w[t].sol>> /\ w[t].sol \in Solutions
        BY <1>7, <2>2, <3>1 DEF Sent, Later
      <3>3. r[2] = w[t].sol /\ Durable(w[t].sol)
        BY <3>2 DEF SavedFirst, MustBeSaved, InLock
      <3> QED BY <1>1, <3>2, <3>3
    <2> QED BY <2>1, <2>2
  <1>8. \A u \in Workers : MustBeSaved(u)' => Durable(w[u].sol)'
    BY <1>3, <1>5, <1>6
  <1> QED BY <1>7, <1>8 DEF SavedFirst

(* SavedFirst is kept by the other steps. *)
LEMMA NetworkSavedFirst ==
  ASSUME Types, Calls, SavedFirst, NetworkStep \/ Crash
  PROVE  SavedFirst'
  <1>1. ASSUME NEW z \in Solutions, Durable(z) PROVE Durable(z)'
    <2>1. CASE UpdateAnswered
      <3> DEFINE v == IF net.accepted THEN "accepted" ELSE "rejected"
      <3>1. net.sol \in Solutions /\ Wrote(net.sol, {v}) /\ "none" \notin {v}
        BY <2>1, AnswerWritten
      <3> HIDE DEF v
      <3> QED BY <1>1, <3>1, WroteKeeps
    <2>2. CASE ~UpdateAnswered
      <3>1. UNCHANGED <<candidate, audit>>
        BY <2>2, NetworkMoves DEF Crash, files
      <3> QED BY <1>1, <3>1 DEF Durable, NetworkCandidate
    <2> QED BY <2>1, <2>2
  <1>2. requests' \subseteq requests
    BY NetworkMoves DEF Crash
  <1>3. \A r \in requests' : Durable(r[2])'
    BY <1>1, <1>2 DEF Types, SavedFirst
  <1>4. UNCHANGED w \/ \A t \in Workers : w'[t].pc \in {"none", "hash"}
    BY NetworkMoves DEF Cleared, Crash, NoWorker
  <1>5. CASE UNCHANGED w
    <2> SUFFICES ASSUME NEW t \in Workers, MustBeSaved(t)' PROVE Durable(w[t].sol)'
      BY <1>3 DEF SavedFirst
    <2>1. MustBeSaved(t)
      BY <1>5 DEF MustBeSaved, NetworkCandidate
    <2>2. w[t].sol \in Solutions /\ Durable(w[t].sol)
      BY <2>1, InHand DEF SavedFirst, MustBeSaved, InLock
    <2> QED BY <1>1, <1>5, <2>2 DEF Durable, NetworkCandidate
  <1>6. CASE \A t \in Workers : w'[t].pc \in {"none", "hash"}
    BY <1>3, <1>6 DEF SavedFirst, MustBeSaved, InLock
  <1> QED BY <1>4, <1>5, <1>6
-----------------------------------------------------------------------------
(* The best hash. *)

(* A hash is covered by a better one that is saved, or about to be observed. *)
Covered(f) ==
  \/ bestFile # None /\ bestFile <= f
  \/ \E t \in Workers : \E s \in w[t].queue : s[1] <= f
  \/ \E t \in Workers : w[t].pc = "observe" /\ w[t].sol[1] <= f

(* The tracker's memory is the file's, and the worker between the two writes
   holds its mutex with a hash better than any in the history. *)
Tracked ==
  /\ best.hash = bestFile
  /\ \A t \in Workers : best.owner = t <=> w[t].pc = "append"
  /\ \A t \in Workers : w[t].pc = "append" =>
       bestFile = w[t].sol[1] /\ \A i \in 1..Len(records) : bestFile < records[i]

(* Unless a write failed or the process was killed, every hash found, and the
   best hash each worker measures against, is covered. *)
AllCovered ==
  faults = 0 =>
    /\ \A f \in found \ dropped : Covered(f)
    /\ \A t \in Workers : w[t].best # None => Covered(w[t].best)

(* The steps of a worker that do not touch the tracker. *)
LEMMA Untracked ==
  ASSUME Types, Calls, NEW t \in Workers, WorkerStep(t), ~SaveBest(t), ~AppendRecord(t)
  PROVE  /\ UNCHANGED <<best, bestFile, records>> /\ Others(t) /\ faults <= faults'
         /\ w[t].pc # "append" /\ w'[t].pc # "append"
         /\ \/ \E s \in Solutions : Report(t, s)
            \/ \E H \in SUBSET Finds : Batch(t, H)
            \/ NotRecord(t)
            \/ /\ w[t].pc # "observe" /\ w'[t].queue = w[t].queue /\ w'[t].best = w[t].best
               /\ UNCHANGED <<found, dropped>>
  <1>0. Others(t) /\ faults <= faults
    BY WorkerMoves DEF Taken, Hashed, Plain, Drawn, Sent, Unsent, Noted, Closed, Later, Types
  <1>1. ASSUME NEW s \in Solutions, Report(t, s)
        PROVE  UNCHANGED <<best, bestFile, records, faults>> /\ w[t].pc # "append" /\ w'[t].pc # "append"
    BY <1>1, ReportCall DEF Report, files
  <1>2. ASSUME NEW H \in SUBSET Finds, Batch(t, H)
        PROVE  UNCHANGED <<best, bestFile, records, faults>> /\ w[t].pc # "append" /\ w'[t].pc # "append"
    <2>1. w[t].pc = "hash" /\ w'[t].pc = "hash"
      BY <1>2, BatchCall
    <2> QED BY <1>2, <2>1 DEF Batch, files
  <1>3. CASE NotRecord(t)
    <2>1. w[t].pc = "observe" /\ w'[t].pc = "gate"
      BY <1>3, QuietCalls DEF Keeps
    <2> QED BY <1>0, <1>3, <2>1 DEF NotRecord, files
  <1>4. CASE Gate(t)
    <2>1. w[t].pc = "gate" /\ w'[t].pc \in {"hash", "candidate", "audit"}
          /\ w'[t].queue = w[t].queue /\ w'[t].best = w[t].best
      BY <1>4, QuietCalls DEF Keeps, Ends
    <2>2. UNCHANGED <<best, files, faults, found, dropped>>
      BY <1>4 DEF Gate
    <2> QED BY <1>0, <2>1, <2>2 DEF files
  <1>5. CASE SaveCandidate(t) \/ SaveAudit(t) \/ LocalError(t) \/ UpdateSent(t)
    <2>1. w[t].sol \in Solutions
      BY <1>5, InHand DEF SaveCandidate, SaveAudit, LocalError, UpdateSent
    <2>2. w[t].pc \in {"candidate", "audit", "error", "update"} /\ w'[t].pc \in {"hash", "audit", "submit"}
          /\ w'[t].queue = w[t].queue /\ w'[t].best = w[t].best /\ faults <= faults'
      BY <1>5, <2>1, FileCalls DEF Keeps, Ends
    <2>3. UNCHANGED <<best, bestFile, records, found, dropped>>
      BY <1>5 DEF SaveCandidate, SaveAudit, LocalError, UpdateSent
    <2> QED BY <1>0, <2>2, <2>3
  <1>6. CASE DrawId(t) \/ Send(t) \/ SendFails(t) \/ File(t)
    <2>1. w[t].pc \in {"submit", "send", "file"} /\ w'[t].pc \in {"send", "file", "error", "update"}
          /\ w'[t].queue = w[t].queue /\ w'[t].best = w[t].best
      BY <1>6, SubmitCalls DEF Keeps
    <2>2. UNCHANGED <<best, files, faults, found, dropped>>
      BY <1>6 DEF DrawId, Send, SendFails, File
    <2> QED BY <1>0, <2>1, <2>2 DEF files
  <1> QED BY <1>0, <1>1, <1>2, <1>3, <1>4, <1>5, <1>6 DEF WorkerStep, OnCandidate

(* The history of records is a sequence of hashes. *)
LEMMA RecordsAreNumbers ==
  ASSUME Types
  PROVE  records \in Seq(Finds) /\ \A i \in 1..Len(records) : records[i] \in Nat
  <1>1. records \in Seq(Finds)
    BY DEF Types
  <1>2. \A i \in 1..Len(records) : records[i] \in Finds
    BY <1>1
  <1> QED BY <1>1, <1>2, FindsAreNumbers

(* best_pow_all_time.json is replaced by a better hash only. *)
LEMMA SaveBestTracked ==
  ASSUME Types, Calls, Tracked, RecordsImprove, NEW t \in Workers, SaveBest(t)
  PROVE  Tracked' /\ RecordsImprove'
  <1>1. w[t].sol \in Solutions /\ w[t].sol[1] \in Finds /\ w[t].sol[1] \in Nat
    <2>1. w[t].sol \in Solutions
      BY InHand DEF SaveBest
    <2> QED BY <2>1, FindsAreNumbers DEF Solutions
  <1>2. /\ w[t].pc = "observe" /\ best.owner = None /\ Better(w[t].sol[1], best.hash)
        /\ UNCHANGED records
        /\ \/ /\ Keeps(t, "append") /\ bestFile' = w[t].sol[1]
              /\ best' = [hash |-> w[t].sol[1], owner |-> t]
           \/ Keeps(t, "gate") /\ UNCHANGED <<best, bestFile>>
    BY <1>1, BestCalls
  <1>3. \A u \in Workers : w[u].pc # "append"
    BY <1>2, FindsAreNumbers DEF Tracked
  <1>4. CASE Keeps(t, "gate") /\ UNCHANGED <<best, bestFile>>
    BY <1>2, <1>3, <1>4, FindsAreNumbers DEF Tracked, RecordsImprove, Keeps, Others
  <1>5. CASE /\ Keeps(t, "append") /\ bestFile' = w[t].sol[1]
             /\ best' = [hash |-> w[t].sol[1], owner |-> t]
    <2>1. \A i \in 1..Len(records) : records[i] \in Nat
      BY RecordsAreNumbers
    <2>2. \A i \in 1..Len(records) : w[t].sol[1] < records[i]
      <3> SUFFICES ASSUME NEW i \in 1..Len(records) PROVE w[t].sol[1] < records[i]
        OBVIOUS
      <3>1. bestFile # None /\ bestFile <= records[i]
        BY DEF RecordsImprove
      <3>2. bestFile \in Nat /\ w[t].sol[1] < bestFile
        BY <1>2, <3>1, FindsAreNumbers DEF Types, Better, Tracked
      <3> QED BY <1>1, <2>1, <3>1, <3>2
    <2>3. best'.hash = bestFile' /\ best'.owner = t
      BY <1>5
    <2>4. \A u \in Workers : u # t => w'[u].pc # "append"
      BY <1>3, <1>5 DEF Keeps, Others
    <2>5. w'[t].pc = "append" /\ w'[t].sol = w[t].sol
      BY <1>5 DEF Keeps
    <2>6. Tracked'
      BY <1>2, <1>5, <2>2, <2>3, <2>4, <2>5 DEF Tracked
    <2>7. bestFile' # None /\ \A i \in 1..Len(records) : bestFile' <= records[i]
      BY <1>1, <1>5, <2>1, <2>2, FindsAreNumbers
    <2>8. RecordsImprove'
      BY <1>2, <2>7 DEF RecordsImprove
    <2> QED BY <2>6, <2>8
  <1> QED BY <1>2, <1>4, <1>5

(* The hash appended to the history is better than all before. *)
LEMMA AppendTracked ==
  ASSUME Types, Calls, Tracked, RecordsImprove, NEW t \in Workers, AppendRecord(t)
  PROVE  Tracked' /\ RecordsImprove'
  <1>1. w[t].sol \in Solutions /\ w[t].sol[1] \in Finds /\ w[t].sol[1] \in Nat
    <2>1. w[t].sol \in Solutions
      BY InHand DEF AppendRecord
    <2> QED BY <2>1, FindsAreNumbers DEF Solutions
  <1>2. /\ w[t].pc = "append" /\ Keeps(t, "gate") /\ UNCHANGED bestFile
        /\ best' = [best EXCEPT !.owner = None]
        /\ records' \in {records, Append(records, w[t].sol[1])}
    BY <1>1, BestCalls
  <1>3. best.owner = t /\ bestFile = w[t].sol[1] /\ \A i \in 1..Len(records) : bestFile < records[i]
    BY <1>2 DEF Tracked
  <1>4. best'.hash = best.hash /\ best'.owner = None
    BY <1>2 DEF Types
  <1>5. \A u \in Workers : w'[u].pc # "append"
    BY <1>2, <1>3 DEF Tracked, Keeps, Others
  <1>6. Tracked'
    BY <1>2, <1>4, <1>5, FindsAreNumbers DEF Tracked
  <1>7. records \in Seq(Finds) /\ \A i \in 1..Len(records) : records[i] \in Nat
    BY RecordsAreNumbers
  <1>8. CASE records' = Append(records, w[t].sol[1])
    <2> DEFINE n == Len(records)
    <2>1. /\ n \in Nat /\ Len(records') = n + 1 /\ records'[n + 1] = bestFile
          /\ \A i \in 1..n : records'[i] = records[i]
      BY <1>1, <1>3, <1>7, <1>8
    <2>2. \A i \in 1..(n + 1) : i \in 1..n \/ i = n + 1
      BY <2>1
    <2>3. bestFile \in Nat /\ bestFile # None
      BY <1>1, <1>3, FindsAreNumbers
    <2>4. ASSUME NEW i \in 1..(n + 1), NEW j \in 1..(n + 1), i < j
          PROVE  records'[j] < records'[i]
      <3>1. i \in 1..n
        BY <2>1, <2>4
      <3>2. CASE j \in 1..n
        BY <2>1, <2>4, <3>1, <3>2 DEF RecordsImprove
      <3>3. CASE j = n + 1
        BY <1>3, <2>1, <3>1, <3>3
      <3> QED BY <2>2, <3>2, <3>3
    <2>5. ASSUME NEW i \in 1..(n + 1) PROVE bestFile <= records'[i]
      <3>1. CASE i \in 1..n
        BY <2>1, <3>1 DEF RecordsImprove
      <3>2. CASE i = n + 1
        BY <2>1, <2>3, <3>2
      <3> QED BY <2>2, <3>1, <3>2
    <2> HIDE DEF n
    <2>6. RecordsImprove'
      BY <1>2, <2>1, <2>3, <2>4, <2>5 DEF RecordsImprove
    <2> QED BY <1>6, <2>6
  <1>9. CASE records' = records
    BY <1>2, <1>6, <1>9 DEF RecordsImprove
  <1> QED BY <1>2, <1>8, <1>9

(* The tracker is kept by the steps of the workers. *)
LEMMA TrackedStep ==
  ASSUME Types, Calls, Tracked, RecordsImprove, NEW t \in Workers, WorkerStep(t)
  PROVE  Tracked' /\ RecordsImprove'
  <1>1. CASE SaveBest(t) \/ AppendRecord(t)
    BY <1>1, SaveBestTracked, AppendTracked
  <1>2. CASE ~SaveBest(t) /\ ~AppendRecord(t)
    <2>1. /\ UNCHANGED <<best, bestFile, records>> /\ Others(t)
          /\ w[t].pc # "append" /\ w'[t].pc # "append"
      BY <1>2, Untracked
    <2> QED BY <2>1 DEF Tracked, RecordsImprove, Others
  <1> QED BY <1>1, <1>2

(* The tracker is kept by the other steps, a restart included. *)
LEMMA NetworkTracked ==
  ASSUME Types, Calls, Tracked, RecordsImprove, NetworkStep \/ Crash
  PROVE  Tracked' /\ RecordsImprove'
  <1>1. CASE NetworkStep
    <2>1. UNCHANGED <<best, bestFile, records>> /\ (UNCHANGED w \/ (AllJoined /\ Cleared))
      BY <1>1, NetworkMoves
    <2>2. CASE UNCHANGED w
      BY <2>1, <2>2 DEF Tracked, RecordsImprove
    <2>3. CASE AllJoined /\ Cleared
      <3>1. \A t \in Workers : w[t].pc # "append" /\ w'[t].pc # "append"
        BY <2>3 DEF AllJoined, Cleared
      <3> QED BY <2>1, <3>1 DEF Tracked, RecordsImprove
    <2> QED BY <2>1, <2>2, <2>3
  <1>2. CASE Crash
    <2>1. /\ best'.hash = bestFile /\ best'.owner = None /\ UNCHANGED <<bestFile, records>>
          /\ \A t \in Workers : w'[t].pc = "none"
      BY <1>2 DEF Crash, NoWorker, files
    <2> QED BY <2>1, FindsAreNumbers DEF Tracked, RecordsImprove
  <1> QED BY <1>1, <1>2

(* A hash that is covered stays covered: what a worker takes from its queue it
   observes, and what it observes is saved unless a better hash was. *)
LEMMA CoveredStep ==
  ASSUME Types, Calls, Tracked, NEW t \in Workers, WorkerStep(t), faults' = 0,
         NEW f \in Finds, Covered(f)
  PROVE  Covered(f)'
  <1>0. f \in Nat /\ (bestFile # None => bestFile \in Nat) /\ \A g \in Finds : g \in Nat
    BY FindsAreNumbers DEF Types
  <1>1. \A u \in Workers : w[u].sol \in Solutions => w[u].sol[1] \in Finds
    BY DEF Solutions
  <1>2. ASSUME NEW s \in Solutions, Report(t, s) PROVE Covered(f)'
    <2>1. /\ w[t].pc = "hash" /\ s \in w[t].queue /\ Others(t)
          /\ w'[t].pc = "observe" /\ w'[t].sol = s /\ w'[t].queue = w[t].queue \ {s}
          /\ UNCHANGED bestFile
      BY <1>2, ReportCall DEF Report, files
    <2>2. CASE bestFile # None /\ bestFile <= f
      BY <2>1, <2>2 DEF Covered
    <2>3. ASSUME NEW u \in Workers, NEW z \in w[u].queue, z[1] <= f PROVE Covered(f)'
      <3>1. CASE u = t /\ z = s
        BY <2>1, <2>3, <3>1 DEF Covered
      <3>2. CASE u # t \/ z # s
        <4>1. z \in w'[u].queue
          BY <2>1, <2>3, <3>2 DEF Others
        <4> QED BY <2>3, <4>1 DEF Covered
      <3> QED BY <3>1, <3>2
    <2>4. ASSUME NEW u \in Workers, w[u].pc = "observe", w[u].sol[1] <= f PROVE Covered(f)'
      <3>1. w'[u] = w[u]
        BY <2>1, <2>4 DEF Others
      <3> QED BY <2>4, <3>1 DEF Covered
    <2> QED BY <2>2, <2>3, <2>4 DEF Covered
  <1>3. ASSUME NEW H \in SUBSET Finds, Batch(t, H) PROVE Covered(f)'
    <2>1. w[t].pc = "hash" /\ w[t].queue = {} /\ Others(t)
      BY <1>3, BatchCall
    <2>2. UNCHANGED bestFile
      BY <1>3 DEF Batch, files
    <2> QED BY <2>1, <2>2 DEF Covered, Others
  <1>4. CASE NotRecord(t)
    <2>1. w[t].pc = "observe" /\ Keeps(t, "gate") /\ UNCHANGED bestFile
      BY <1>4, QuietCalls DEF NotRecord, files
    <2>2. w[t].sol \in Solutions
      BY <2>1, InHand
    <2>3. bestFile # None /\ ~(w[t].sol[1] < bestFile)
      BY <1>4 DEF NotRecord, Better, Tracked
    <2>7. w[t].sol[1] \in Nat /\ bestFile \in Nat
      BY <1>0, <1>1, <2>2, <2>3
    <2>4. bestFile <= w[t].sol[1]
      BY <2>3, <2>7
    <2>5. CASE w[t].sol[1] <= f
      <3>1. bestFile <= f
        BY <1>0, <2>4, <2>5, <2>7
      <3> QED BY <2>1, <2>3, <3>1 DEF Covered
    <2>6. CASE ~(w[t].sol[1] <= f)
      BY <2>1, <2>6 DEF Covered, Keeps, Others
    <2> QED BY <2>5, <2>6
  <1>5. CASE SaveBest(t)
    <2>0. w[t].sol \in Solutions
      BY <1>5, InHand DEF SaveBest
    <2>1. /\ w[t].pc = "observe" /\ Better(w[t].sol[1], best.hash)
          /\ Keeps(t, "append") /\ bestFile' = w[t].sol[1]
      BY <1>5, <2>0, BestCalls
    <2>2. w[t].sol[1] \in Nat /\ w[t].sol[1] \in Finds /\ bestFile' # None
      BY <1>0, <1>1, <2>0, <2>1, FindsAreNumbers
    <2>3. CASE w[t].sol[1] <= f
      BY <2>1, <2>2, <2>3 DEF Covered
    <2>4. CASE bestFile # None /\ bestFile <= f
      <3>1. w[t].sol[1] < bestFile
        BY <2>1, <2>4 DEF Better, Tracked
      <3>2. w[t].sol[1] <= f
        BY <1>0, <2>2, <2>4, <3>1
      <3> QED BY <2>3, <3>2
    <2>5. CASE ~(w[t].sol[1] <= f) /\ ~(bestFile # None /\ bestFile <= f)
      BY <2>1, <2>5 DEF Covered, Keeps, Others
    <2> QED BY <2>3, <2>4, <2>5
  <1>6. CASE AppendRecord(t)
    <2>0. w[t].sol \in Solutions
      BY <1>6, InHand DEF AppendRecord
    <2>1. w[t].pc = "append" /\ Keeps(t, "gate") /\ UNCHANGED bestFile
      BY <1>6, <2>0, BestCalls
    <2> QED BY <2>1 DEF Covered, Keeps, Others
  <1>7. CASE /\ w[t].pc # "observe" /\ w'[t].queue = w[t].queue /\ Others(t) /\ UNCHANGED bestFile
    BY <1>7 DEF Covered, Others
  <1> QED BY <1>2, <1>3, <1>4, <1>5, <1>6, <1>7, Untracked

(* AllCovered is kept by the steps of the workers. *)
LEMMA AllCoveredStep ==
  ASSUME Types, Types', Calls, Tracked, AllCovered, NEW t \in Workers, WorkerStep(t)
  PROVE  AllCovered'
  <1> SUFFICES ASSUME faults' = 0 PROVE AllCovered'
    BY DEF AllCovered
  <1>1. faults = 0
    <2>1. faults \in Nat /\ faults <= faults'
      <3>1. CASE SaveBest(t) \/ AppendRecord(t)
        <4>1. w[t].sol \in Solutions
          BY <3>1, InHand DEF SaveBest, AppendRecord
        <4> QED BY <3>1, <4>1, BestCalls DEF Types
      <3>2. CASE ~SaveBest(t) /\ ~AppendRecord(t)
        BY <3>2, Untracked DEF Types
      <3> QED BY <3>1, <3>2
    <2> QED BY <2>1
  <1>2. /\ \A f \in found \ dropped : Covered(f)
        /\ \A u \in Workers : w[u].best # None => Covered(w[u].best)
    BY <1>1 DEF AllCovered
  <1>3. \A f \in Finds : Covered(f) => Covered(f)'
    BY CoveredStep
  <1>4. \A u \in Workers : w[u].best \in Finds \cup {None}
    BY DEF Types, WorkerState
  <1>5. ASSUME NEW H \in SUBSET Finds, Batch(t, H) PROVE AllCovered'
    <2>1. /\ Others(t) /\ found' = found \cup H /\ dropped \subseteq dropped'
          /\ \A f \in H \ dropped' : \/ \E s \in w'[t].queue : s[1] <= f
                                     \/ w[t].best # None /\ w[t].best <= f
          /\ w'[t].best # None => \/ \E s \in w'[t].queue : s[1] <= w'[t].best
                                  \/ w'[t].best = w[t].best
      BY <1>5, BatchCall
    <2>2. ASSUME NEW f \in H, f \notin dropped' PROVE Covered(f)'
      <3>1. CASE \E s \in w'[t].queue : s[1] <= f
        BY <3>1 DEF Covered
      <3>2. CASE w[t].best # None /\ w[t].best <= f
        <4>1. Covered(w[t].best) /\ w[t].best \in Nat /\ f \in Nat
          BY <1>2, <1>4, <3>2, FindsAreNumbers
        <4>2. Covered(f)
          <5>1. bestFile # None => bestFile \in Nat
            BY FindsAreNumbers DEF Types
          <5>2. \A u \in Workers : \A s \in w[u].queue : s[1] \in Nat
            <6>1. \A u \in Workers : w[u].queue \subseteq Solutions
              BY DEF Types, WorkerState
            <6>2. \A s \in Solutions : s[1] \in Nat
              BY FindsAreNumbers DEF Solutions
            <6> QED BY <6>1, <6>2
          <5>3. \A u \in Workers : w[u].pc = "observe" => w[u].sol[1] \in Nat
            BY InHand, FindsAreNumbers DEF Solutions
          <5>4. \A n \in Nat : n <= w[t].best => n <= f
            BY <3>2, <4>1
          <5> QED BY <4>1, <5>1, <5>2, <5>3, <5>4 DEF Covered
        <4> QED BY <1>3, <4>2
      <3> QED BY <2>1, <2>2, <3>1, <3>2
    <2>3. ASSUME NEW f \in found, f \notin dropped' PROVE Covered(f)'
      BY <1>2, <1>3, <2>1, <2>3 DEF Types
    <2>4. \A f \in found' \ dropped' : Covered(f)'
      BY <2>1, <2>2, <2>3
    <2>8. ASSUME NEW u \in Workers, w'[u].best = w[u].best, w'[u].best # None
          PROVE  Covered(w[u].best)'
      <3>1. PICK g \in Finds : g = w[u].best
        BY <1>4, <2>8
      <3>2. Covered(g)' /\ w'[u].best = g
        BY <1>2, <1>3, <2>8, <3>1
      <3> QED BY <3>2 DEF Covered
    <2>5. ASSUME NEW u \in Workers, u # t, w'[u].best # None PROVE Covered(w[u].best)'
      BY <2>1, <2>5, <2>8 DEF Others
    <2>6. ASSUME w'[t].best # None PROVE Covered(w[t].best)'
      <3>1. CASE \E s \in w'[t].queue : s[1] <= w'[t].best
        BY <3>1 DEF Covered
      <3>2. CASE w'[t].best = w[t].best
        BY <2>6, <2>8, <3>2
      <3> QED BY <2>1, <2>6, <3>1, <3>2
    <2>7. \A u \in Workers : w'[u].best # None => Covered(w[u].best)'
      BY <2>5, <2>6
    <2> QED BY <2>4, <2>7 DEF AllCovered
  <1>6. CASE UNCHANGED <<found, dropped>> /\ \A u \in Workers : w'[u].best = w[u].best
    <2>1. ASSUME NEW u \in Workers, w'[u].best # None PROVE Covered(w[u].best)'
      <3>1. PICK g \in Finds : g = w[u].best
        BY <1>4, <1>6, <2>1
      <3>2. Covered(g)' /\ w'[u].best = g
        BY <1>2, <1>3, <1>6, <2>1, <3>1
      <3> QED BY <3>2 DEF Covered
    <2>2. \A f \in found' \ dropped' : Covered(f)'
      BY <1>2, <1>3, <1>6 DEF Types
    <2> QED BY <2>1, <2>2 DEF AllCovered
  <1>7. \/ \E H \in SUBSET Finds : Batch(t, H)
        \/ UNCHANGED <<found, dropped>> /\ \A u \in Workers : w'[u].best = w[u].best
    <2>1. CASE SaveBest(t) \/ AppendRecord(t)
      <3>1. w[t].sol \in Solutions
        BY <2>1, InHand DEF SaveBest, AppendRecord
      <3>2. Keeps(t, "gate") \/ Keeps(t, "append")
        BY <2>1, <3>1, BestCalls
      <3> QED BY <2>1, <3>2 DEF SaveBest, AppendRecord, Keeps, Others
    <2>2. ASSUME NEW s \in Solutions, Report(t, s)
          PROVE  UNCHANGED <<found, dropped>> /\ \A u \in Workers : w'[u].best = w[u].best
      BY <2>2, ReportCall DEF Report, Others
    <2>3. CASE NotRecord(t)
      BY <2>3, QuietCalls DEF NotRecord, Keeps, Others
    <2>4. CASE Others(t) /\ w'[t].best = w[t].best /\ UNCHANGED <<found, dropped>>
      BY <2>4 DEF Others
    <2> QED BY <2>1, <2>2, <2>3, <2>4, Untracked
  <1> QED BY <1>5, <1>6, <1>7

(* AllCovered is kept by the other steps: workers are joined only once they have
   reported everything. *)
LEMMA NetworkAllCovered ==
  ASSUME Types, Types', Calls, AllCovered, NetworkStep \/ Crash
  PROVE  AllCovered'
  <1>1. CASE Crash
    <2>1. faults' # 0
      BY <1>1 DEF Crash, Types
    <2> QED BY <2>1 DEF AllCovered
  <1>2. CASE NetworkStep
    <2> SUFFICES ASSUME faults' = 0 PROVE AllCovered'
      BY DEF AllCovered
    <2>1. UNCHANGED <<bestFile, found, dropped>> /\ (UNCHANGED w \/ (AllJoined /\ Cleared))
      BY <1>2, NetworkMoves
    <2>2. faults = 0
      <3>1. CASE UpdateAnswered
        <4> DEFINE v == IF net.accepted THEN "accepted" ELSE "rejected"
        <4>1. net.sol \in Solutions /\ v \in Statuses /\ Update(net.sol, v)
          BY <3>1, AnswerWritten DEF UpdateAnswered, Statuses
        <4>2. faults <= faults' /\ faults \in Nat
          BY <4>1, UpdateWrote DEF Types
        <4> QED BY <4>2
      <3>2. CASE ~UpdateAnswered
        BY <1>2, <3>2, NetworkMoves
      <3> QED BY <3>1, <3>2
    <2>3. /\ \A f \in found \ dropped : Covered(f)
          /\ \A u \in Workers : w[u].best # None => Covered(w[u].best)
      BY <2>2 DEF AllCovered
    <2>4. CASE UNCHANGED w
      <3>1. \A f : Covered(f) => Covered(f)'
        BY <2>1, <2>4 DEF Covered
      <3> QED BY <2>1, <2>3, <2>4, <3>1 DEF AllCovered
    <2>5. CASE AllJoined /\ Cleared
      <3>1. \A f : Covered(f) => bestFile # None /\ bestFile <= f
        BY <2>5 DEF Covered, AllJoined
      <3>2. \A f : Covered(f) => Covered(f)'
        BY <2>1, <3>1 DEF Covered
      <3>3. \A u \in Workers : w'[u].best = None
        BY <2>5 DEF Cleared
      <3> QED BY <2>1, <2>3, <3>2, <3>3 DEF AllCovered
    <2> QED BY <2>1, <2>4, <2>5
  <1> QED BY <1>1, <1>2
-----------------------------------------------------------------------------
(* The generation: a disconnection moves it on once, for a connection that
   broke. *)
Generations ==
  /\ generation <= MaxJobs + breaks
  /\ link => net.pc \in {"listen", "join", "callback", "result"}
  /\ ~link /\ net.pc \in {"listen", "join", "dropped", "callback", "result"}
       => generation < MaxJobs + breaks

(* Generations is kept by the steps of the network thread and of the process. *)
LEMMA GenerationsStep ==
  ASSUME Types, Generations, NetworkStep \/ Crash
  PROVE  Generations'
  <1>1. /\ generation \in Nat /\ breaks \in Nat /\ MaxJobs \in Nat
        /\ \A pc \in NetPcs : [net EXCEPT !.pc = pc].pc = pc
    BY FindsAreNumbers DEF Types, NetState
  <1>2. NoAnswer.pc = "offline" /\ Listening.pc = "listen" /\ {"join", "dropped", "leave"} \subseteq NetPcs
    BY DEF NoAnswer, Listening, NetPcs
  <1>3. CASE Launch \/ Drop \/ Leave \/ Connect \/ Authorized
    BY <1>1, <1>2, <1>3 DEF Generations, Launch, Drop, Leave, Connect, Authorized
  <1>4. CASE NewJob
    BY <1>1, <1>2, <1>4 DEF Generations, NewJob
  <1>5. CASE Disconnected
    BY <1>1, <1>2, <1>5 DEF Generations, Disconnected
  <1>6. CASE LinkBreaks
    BY <1>1, <1>6 DEF Generations, LinkBreaks
  <1>7. CASE Crash
    BY <1>1, <1>2, <1>7 DEF Generations, Crash
  <1>8. CASE FindSolution
    <2>1. \A z : [net EXCEPT !.pc = "result", !.sol = z].pc = "result"
      BY DEF Types, NetState
    <2>2. net'.pc \in {"listen", "result"} /\ net.pc = "callback" /\ UNCHANGED <<generation, link, breaks>>
      BY <1>2, <1>8, <2>1 DEF FindSolution
    <2> QED BY <2>2 DEF Generations
  <1>9. CASE UpdateAnswered
    BY <1>2, <1>9 DEF Generations, UpdateAnswered
  <1>10. ASSUME NEW r \in requests, TakeAnswer(r) PROVE Generations'
    <2>1. net.pc = "listen" /\ net'.pc \in {"listen", "callback"} /\ UNCHANGED <<generation, link, breaks>>
      BY <1>10 DEF TakeAnswer
    <2> QED BY <2>1 DEF Generations
  <1> QED BY <1>3, <1>4, <1>5, <1>6, <1>7, <1>8, <1>9, <1>10 DEF NetworkStep, NetStep

-----------------------------------------------------------------------------
(* The inductive invariant. *)
SubmissionInv ==
  /\ Types /\ Calls /\ Generations
  /\ Once /\ FiledOnce /\ TakenIsKnown /\ ResultIsAlone /\ Settled /\ AnswerIsOwn
  /\ SavedFirst
  /\ Tracked /\ RecordsImprove /\ AllCovered

(* The invariant holds initially. *)
LEMMA InitSubmission == Init => SubmissionInv
  <1> SUFFICES ASSUME Init PROVE SubmissionInv
    OBVIOUS
  <1>1. /\ generation = 0 /\ link = FALSE /\ conn = Off /\ net = NoAnswer
        /\ w = [t \in Workers |-> NoWorker] /\ owner = None
        /\ nextId = FirstId /\ awaited = {} /\ filed = {} /\ requests = {}
        /\ best = [hash |-> None, owner |-> None] /\ bestFile = None /\ records = <<>>
        /\ candidate = [s \in Solutions |-> "none"] /\ audit = [s \in Solutions |-> "none"]
        /\ found = {} /\ dropped = {} /\ breaks = 0 /\ faults = 0
    BY DEF Init
  <1>2. NoWorker \in WorkerState /\ NoWorker.pc = "none" /\ NoWorker.queue = {} /\ NoWorker.sol = None
        /\ NoWorker.best = None
    BY DEF NoWorker, WorkerState, WorkerPcs
  <1>3. NoAnswer \in NetState /\ NoAnswer.pc = "offline"
    BY DEF NoAnswer, NetState, NetPcs
  <1>4. Off \in [up : BOOLEAN, auth : BOOLEAN] /\ ~Off.auth
    BY DEF Off
  <1>5. \A t \in Workers : w[t] = NoWorker
    BY <1>1
  <1>6. candidate \in [Solutions -> Statuses] /\ audit \in [Solutions -> Statuses]
    BY <1>1 DEF Statuses
  <1>7. best \in [hash : Finds \cup {None}, owner : Workers \cup {None}]
    BY <1>1
  <1> HIDE DEF NoWorker, NoAnswer, Off
  <1>8. Types
    <2>5. link \in BOOLEAN /\ owner \in Workers \cup {None}
      BY <1>1
    <2>6. FirstId \in Nat /\ MaxTroubles \in Nat
      BY FindsAreNumbers
    <2>7. generation = 0 /\ nextId = FirstId /\ breaks = 0 /\ faults = 0
      BY <1>1
    <2>1. /\ generation \in Nat /\ nextId \in Nat /\ FirstId <= nextId /\ breaks \in Nat /\ faults \in Nat
          /\ breaks + faults <= MaxTroubles
      BY <2>6, <2>7
    <2>2. w \in [Workers -> WorkerState]
      BY <1>1, <1>2
    <2>3. conn \in [up : BOOLEAN, auth : BOOLEAN] /\ ~conn.auth /\ net \in NetState /\ net.pc = "offline"
      BY <1>1, <1>3, <1>4
    <2>4. records \in Seq(Finds) /\ bestFile \in Finds \cup {None}
      BY <1>1
    <2> QED BY <1>1, <1>6, <1>7, <2>1, <2>2, <2>3, <2>4, <2>5 DEF Types
  <1>9. Calls /\ Once /\ TakenIsKnown
    BY <1>1, <1>2, <1>3, <1>5, FindsAreNumbers DEF Calls, Once, TakenIsKnown, InLock
  <1>10. Generations
    BY <1>1, <1>3, FindsAreNumbers DEF Generations
  <1>11. FiledOnce /\ ResultIsAlone
    BY <1>1, <1>3 DEF FiledOnce, ResultIsAlone, InResult
  <1>12. Settled /\ AnswerIsOwn
    BY <1>1 DEF Settled, AnswerIsOwn, Answered, Answers
  <1>13. SavedFirst
    BY <1>1, <1>2, <1>5 DEF SavedFirst, MustBeSaved, InLock
  <1>14. Tracked
    <2>1. best.hash = bestFile /\ best.owner = None /\ \A t \in Workers : w[t].pc = "none"
      BY <1>1, <1>2, <1>5
    <2> QED BY <2>1, FindsAreNumbers DEF Tracked
  <1>15. RecordsImprove
    BY <1>1 DEF RecordsImprove
  <1>16. AllCovered
    BY <1>1, <1>2, <1>5 DEF AllCovered
  <1> QED BY <1>8, <1>9, <1>10, <1>11, <1>12, <1>13, <1>14, <1>15, <1>16 DEF SubmissionInv

(* A step is one of a worker, of the network side, or a crash. *)
LEMMA NextCases ==
  Next => (\E t \in Workers : WorkerStep(t)) \/ NetworkStep \/ Crash
  BY DEF Next, WorkerStep, NetworkStep

(* The invariant is inductive. *)
LEMMA NextSubmission ==
  ASSUME SubmissionInv, [Next]_vars
  PROVE  SubmissionInv'
  <1> USE DEF SubmissionInv
  <1>1. ASSUME NEW t \in Workers, WorkerStep(t) PROVE SubmissionInv'
    <2>1. Types'
      BY <1>1, WorkerTypes
    <2>2. Calls' /\ Once' /\ FiledOnce' /\ TakenIsKnown'
      BY <1>1, CallsStep, OnceStep, FiledOnceStep, TakenIsKnownStep
    <2>3. ResultIsAlone' /\ Settled' /\ AnswerIsOwn'
      BY <1>1, SettledStep, OwnAnswerStep
    <2>4. SavedFirst' /\ Tracked' /\ RecordsImprove'
      BY <1>1, SavedFirstStep, TrackedStep
    <2>5. AllCovered'
      BY <1>1, <2>1, AllCoveredStep
    <2>6. Generations'
      BY <1>1, WorkerMoves DEF Generations
    <2> QED BY <2>1, <2>2, <2>3, <2>4, <2>5, <2>6
  <1>2. CASE NetworkStep \/ Crash
    <2>1. Types'
      BY <1>2, NetworkTypes
    <2>2. Calls' /\ Once' /\ FiledOnce' /\ TakenIsKnown'
      BY <1>2, NetworkCalls, NetworkOnce, NetworkFiledOnce, NetworkTakenIsKnown
    <2>3. ResultIsAlone' /\ Settled' /\ AnswerIsOwn'
      BY <1>2, NetworkSettled, OwnAnswerStep
    <2>4. SavedFirst' /\ Tracked' /\ RecordsImprove'
      BY <1>2, NetworkSavedFirst, NetworkTracked
    <2>5. AllCovered'
      BY <1>2, <2>1, NetworkAllCovered
    <2>6. Generations'
      BY <1>2, GenerationsStep
    <2> QED BY <2>1, <2>2, <2>3, <2>4, <2>5, <2>6
  <1>3. CASE UNCHANGED vars
    <2>1. UNCHANGED <<generation, link, conn, net, w, owner, nextId, awaited, filed, requests,
                      best, bestFile, records, candidate, audit, found, dropped, breaks, faults>>
      BY <1>3 DEF vars, client, files
    <2>2. Types' /\ Calls' /\ Generations'
      BY <2>1 DEF Types, Calls, Generations
    <2>3. Once' /\ FiledOnce' /\ TakenIsKnown'
      BY <2>1 DEF Once, FiledOnce, TakenIsKnown
    <2>4. ResultIsAlone' /\ Settled' /\ AnswerIsOwn'
      BY <2>1 DEF ResultIsAlone, Settled, AnswerIsOwn, InResult, Held, Filed, Answered
    <2>5. SavedFirst'
      BY <2>1 DEF SavedFirst, MustBeSaved, Durable, NetworkCandidate
    <2>6. Tracked' /\ RecordsImprove' /\ AllCovered'
      BY <2>1 DEF Tracked, RecordsImprove, AllCovered, Covered
    <2> QED BY <2>2, <2>3, <2>4, <2>5, <2>6
  <1> QED BY <1>1, <1>2, <1>3, NextCases

(* The life of a submission in one invariant: who holds the mutexes, where each
   solution is, what is on disk. *)
THEOREM SubmissionInvariant == Spec => []SubmissionInv
  <1>1. Init => SubmissionInv
    BY InitSubmission
  <1>2. SubmissionInv /\ [Next]_vars => SubmissionInv'
    BY NextSubmission
  <1> QED BY <1>1, <1>2, PTL DEF Spec

(* Nothing reaches the pool that on_candidate has not first written to disk,
   whatever write fails and whenever the process is killed. *)
THEOREM DurableBeforeSubmitHolds == Spec => []DurableBeforeSubmit
  <1>1. SubmissionInv => DurableBeforeSubmit
    BY DEF SubmissionInv, SavedFirst, Durable, DurableBeforeSubmit
  <1> QED BY <1>1, SubmissionInvariant, PTL

(* Each answer of the pool finds its solution and is recorded for no other,
   however the workers, the answers, the disconnections and the restarts
   interleave. *)
THEOREM AnswersMatchHolds == Spec => []AnswersMatch
  <1>1. SubmissionInv => AnswersMatch
    <2> SUFFICES ASSUME SubmissionInv PROVE AnswersMatch
      OBVIOUS
    <2>1. ASSUME net.pc = "callback", owner = None PROVE \E p \in filed : p[1] = net.id
      <3>1. \A t \in Workers : w[t].pc # "file"
        BY <2>1, FindsAreNumbers DEF SubmissionInv, Calls, InLock
      <3> QED BY <2>1, <3>1 DEF SubmissionInv, TakenIsKnown
    <2> QED BY <2>1 DEF SubmissionInv, AnswersMatch, AnswerFindsSolution
  <1> QED BY <1>1, SubmissionInvariant, PTL

(* A recorded answer is never overwritten: by then no worker holds the solution
   and no later answer is about it. *)
THEOREM AnswerIsFinalHolds == Spec => AnswerIsFinal
  <1> DEFINE Final == \A s \in Solutions :
               /\ candidate[s] \in {"accepted", "rejected"} => candidate'[s] = candidate[s]
               /\ audit[s] \in {"accepted", "rejected"} => audit'[s] = audit[s]
  <1>1. SubmissionInv /\ [Next]_vars => [Final]_vars
    <2> SUFFICES ASSUME SubmissionInv, Next, NEW s \in Solutions, Answered(s)
                 PROVE  candidate'[s] = candidate[s] /\ audit'[s] = audit[s]
      BY DEF Answered, Answers
    <2>1. ~Held(s) /\ ~InResult(s)
      BY DEF SubmissionInv, Settled
    <2>2. ASSUME NEW t \in Workers, WorkerStep(t) PROVE candidate'[s] = candidate[s] /\ audit'[s] = audit[s]
      BY <2>1, <2>2, AnswerStep DEF SubmissionInv
    <2>3. CASE UpdateAnswered
      <3> DEFINE v == IF net.accepted THEN "accepted" ELSE "rejected"
      <3>1. InResult(net.sol) /\ Wrote(net.sol, {v})
        BY <2>3, AnswerWritten DEF SubmissionInv
      <3>2. s # net.sol
        BY <2>1, <3>1
      <3> QED BY <3>1, <3>2 DEF Wrote
    <2>4. CASE (NetworkStep \/ Crash) /\ ~UpdateAnswered
      BY <2>4, NetworkMoves DEF SubmissionInv, Crash, files
    <2> QED BY <2>2, <2>3, <2>4, NextCases
  <1> QED BY <1>1, SubmissionInvariant, PTL DEF Spec, AnswerIsFinal

(* The records: types, a history that improves across restarts, and the best
   hash kept in best_pow_all_time.json unless a write failed or the process was
   killed. *)
THEOREM RecordsInvHolds == Spec => []RecordsInv
  <1>1. SubmissionInv => RecordsInv
    <2> SUFFICES ASSUME SubmissionInv PROVE RecordsInv
      OBVIOUS
    <2>1. generation \in 0..MaxJobs + MaxTroubles /\ breaks + faults \in 0..MaxTroubles
      BY FindsAreNumbers DEF SubmissionInv, Types, Generations
    <2>2. net.pc \in {"offline", "listen", "join", "dropped", "leave", "callback", "result"}
      BY DEF SubmissionInv, Types, NetState, NetPcs
    <2>3. \A t \in Workers :
            /\ w[t].pc \in {"none", "hash", "observe", "append", "gate", "candidate",
                            "audit", "submit", "send", "file", "update", "error"}
            /\ w[t].queue \subseteq Solutions /\ w[t].sol \in Solutions \cup {None}
      BY DEF SubmissionInv, Types, WorkerState, WorkerPcs
    <2>4. TypeOK
      BY <2>1, <2>2, <2>3 DEF SubmissionInv, Types, TypeOK
    <2>5. BestIsKept
      BY DEF SubmissionInv, AllCovered, Covered, AllJoined, BestIsKept
    <2> QED BY <2>4, <2>5 DEF SubmissionInv, RecordsInv
  <1> QED BY <1>1, SubmissionInvariant, PTL
=============================================================================
