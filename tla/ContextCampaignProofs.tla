------------------------ MODULE ContextCampaignProofs ------------------------
(***************************************************************************)
(* Theorems about ContextCampaign, for any plan and any number of commands  *)
(* and kills, on any consoles: no block is labelled twice, the checkpoint is *)
(* never ahead of the rows, the partition barriers hold, a study is made of *)
(* the whole discovery partition, and what was published is final once the  *)
(* commands under way beside it have ended.                                *)
(***************************************************************************)
EXTENDS ContextCampaign, TLAPS, FiniteSetTheorems, SequenceTheorems,
        WellFoundedInduction

-----------------------------------------------------------------------------
(* The row files. *)

JsonFile == [lines : Seq(Seq(0..NBlocks)), open : BOOLEAN]

(* Row b is in the lines s, on line i at place k. *)
On(s, b, i, k) == i \in 1..Len(s) /\ k \in 1..2 /\ k <= Len(s[i]) /\ s[i][k] = b

(* Row b is on line i of f, at place k. *)
IsAt(f, b, i, k) == On(f.lines, b, i, k)

(* A row file as the scans leave it: a line is one row, or two when the first
   one was cut off, and no row is there twice. *)
FileOK(f) ==
  /\ f \in JsonFile
  /\ f.open => Len(f.lines) > 0
  /\ \A i \in 1..Len(f.lines) : Len(f.lines[i]) \in 1..2
  /\ \A b \in Blocks : \A i, j \in 1..Len(f.lines) : \A k, l \in 1..2 :
       IsAt(f, b, i, k) /\ IsAt(f, b, j, l) => i = j /\ k = l

(* The numbers of the model. *)
LEMMA Numbers ==
  /\ NBlocks \in Nat /\ MinFit \in Nat /\ NArtifacts \in Nat
  /\ MaxCommands \in [Consoles -> Nat] /\ MaxCrashes \in Nat /\ "scan" \notin Studies
  /\ PartitionOf \in [Blocks -> Partitions] /\ Tears \in BOOLEAN
  /\ Blocks \subseteq 1..NBlocks /\ IsFiniteSet(Blocks)
  <1>1. {NBlocks, MinFit, NArtifacts, MaxCrashes} \subseteq Nat
    BY CampaignAssumption
  <1>2. NBlocks \in Nat
    BY <1>1
  <1>3. IsFiniteSet(Blocks)
    BY <1>2, FS_Interval DEF Blocks
  <1> QED BY <1>1, <1>3, CampaignAssumption DEF Blocks

(* A row is written when it is at some place. *)
LEMMA WrittenIsAt ==
  ASSUME NEW f, FileOK(f), NEW b \in Blocks
  PROVE  b \in Written(f) <=> \E i \in 1..Len(f.lines), k \in 1..2 : IsAt(f, b, i, k)
  <1>1. NBlocks \in Nat /\ NBlocks >= 1
    BY Numbers DEF Blocks
  <1>2. ASSUME b \in Written(f)
        PROVE  \E i \in 1..Len(f.lines), k \in 1..2 : IsAt(f, b, i, k)
    <2>1. PICK p \in (1..Len(f.lines)) \X (1..2 * NBlocks) :
            p[2] <= Len(f.lines[p[1]]) /\ f.lines[p[1]][p[2]] = b
      BY <1>2 DEF Written, Copies
    <2> QED BY <2>1 DEF IsAt, On, FileOK
  <1>3. ASSUME NEW i \in 1..Len(f.lines), NEW k \in 1..2, IsAt(f, b, i, k)
        PROVE  b \in Written(f)
    <2>1. <<i, k>> \in Copies(f, b)
      BY <1>1, <1>3 DEF IsAt, On, Copies
    <2> QED BY <2>1 DEF Written
  <1> QED BY <1>2, <1>3

(* There is one copy of a row at most. *)
LEMMA OneCopy ==
  ASSUME NEW f, FileOK(f), NEW b \in Blocks
  PROVE  Cardinality(Copies(f, b)) <= 1
  <1>1. CASE Copies(f, b) = {}
    BY <1>1, FS_EmptySet
  <1>2. CASE Copies(f, b) # {}
    <2>1. PICK p \in Copies(f, b) : TRUE
      BY <1>2
    <2>2. ASSUME NEW q \in Copies(f, b)
          PROVE  q = p
      <3>0. ASSUME NEW r \in Copies(f, b)
            PROVE  /\ r[1] \in 1..Len(f.lines) /\ r[2] \in 1..2
                   /\ IsAt(f, b, r[1], r[2])
        <4>1. /\ r[1] \in 1..Len(f.lines) /\ r[2] \in 1..2 * NBlocks
              /\ r[2] <= Len(f.lines[r[1]]) /\ f.lines[r[1]][r[2]] = b
          BY DEF Copies
        <4>2. Len(f.lines[r[1]]) \in 1..2
          BY <4>1 DEF FileOK
        <4>3. r[2] \in 1..2
          BY <4>1, <4>2, Numbers
        <4> QED BY <4>1, <4>3 DEF IsAt, On
      <3>2. p[1] = q[1] /\ p[2] = q[2]
        BY <2>1, <3>0 DEF FileOK
      <3>3. p = <<p[1], p[2]>> /\ q = <<q[1], q[2]>>
        BY <2>1 DEF Copies
      <3> QED BY <3>2, <3>3
    <2>3. Copies(f, b) = {p}
      BY <2>1, <2>2
    <2> QED BY <2>3, FS_Singleton
  <1> QED BY <1>1, <1>2

(* A file that can be read has one row on each line: its rows are those written. *)
LEMMA ReadableRows ==
  ASSUME NEW f, FileOK(f), Readable(f)
  PROVE  /\ RowsOf(f) = Written(f) /\ RowsOf(f) \subseteq Blocks
  <1>1. ASSUME NEW i \in 1..Len(f.lines)
        PROVE  f.lines[i][1] \in Blocks /\ IsAt(f, f.lines[i][1], i, 1)
    <2>1. f.lines[i] \in Seq(0..NBlocks) /\ Len(f.lines[i]) = 1 /\ f.lines[i][1] # 0
      BY DEF FileOK, JsonFile, Readable
    <2>2. f.lines[i][1] \in 0..NBlocks
      BY <2>1, ElementOfSeq, 1 \in 1..1
    <2>3. f.lines[i][1] \in Blocks
      BY <2>1, <2>2, Numbers DEF Blocks
    <2> QED BY <2>1, <2>3 DEF IsAt, On
  <1>2. RowsOf(f) \subseteq Blocks
    BY <1>1 DEF RowsOf
  <1>3. RowsOf(f) \subseteq Written(f)
    BY <1>1, <1>2, WrittenIsAt DEF RowsOf
  <1>4. ASSUME NEW b \in Written(f)
        PROVE  b \in RowsOf(f)
    <2>1. b \in Blocks
      BY DEF Written
    <2>2. PICK i \in 1..Len(f.lines), k \in 1..2 : IsAt(f, b, i, k)
      BY <2>1, WrittenIsAt
    <2>3. k = 1
      BY <2>2 DEF IsAt, On, Readable
    <2> QED BY <2>2, <2>3 DEF IsAt, On, RowsOf
  <1> QED BY <1>2, <1>3, <1>4

(* The lines t are the lines s and one more row. *)
OneMore(s, t, row) ==
  /\ t \in Seq(Seq(0..NBlocks)) /\ Len(t) > 0 /\ Len(t) >= Len(s)
  /\ \A i \in 1..Len(t) : Len(t[i]) \in 1..2
  /\ \E m \in 1..Len(t), n \in 1..2 :
       /\ On(t, row, m, n)
       /\ \A b \in Blocks : ~On(s, b, m, n)
       /\ \A b \in Blocks, i \in 1..Len(t), k \in 1..2 :
            i # m \/ k # n => (On(t, b, i, k) <=> On(s, b, i, k))

(* A second row on a line. *)
LEMMA AppendSecond ==
  ASSUME NEW S, NEW line \in Seq(S), Len(line) = 1, NEW row \in S
  PROVE  /\ Append(line, row) \in Seq(S) /\ Len(Append(line, row)) = 2
         /\ Append(line, row)[1] = line[1] /\ Append(line, row)[2] = row
  <1>1. /\ Append(line, row) \in Seq(S) /\ Len(Append(line, row)) = Len(line) + 1
        /\ \A i \in 1..Len(line) : Append(line, row)[i] = line[i]
        /\ Append(line, row)[Len(line) + 1] = row
    BY AppendProperties, ZenonT(60)
  <1> QED BY <1>1

(* The row goes on the line that was cut off... *)
LEMMA OneMoreOnLine ==
  ASSUME NEW s \in Seq(Seq(0..NBlocks)), Len(s) > 0, Len(s[Len(s)]) = 1,
         \A i \in 1..Len(s) : Len(s[i]) \in 1..2, NEW row \in 0..NBlocks
  PROVE  OneMore(s, [s EXCEPT ![Len(s)] = Append(@, row)], row)
  <1> DEFINE last == Len(s)
             line == Append(s[last], row)
             t == [s EXCEPT ![last] = line]
  <1>1. last \in 1..last /\ s[last] \in Seq(0..NBlocks)
    OBVIOUS
  <1>2. /\ line \in Seq(0..NBlocks) /\ Len(line) = 2
        /\ line[1] = s[last][1] /\ line[2] = row
    BY <1>1, AppendSecond
  <1> HIDE DEF line
  <1>3. /\ t \in Seq(Seq(0..NBlocks)) /\ Len(t) = last
        /\ t[last] = line
        /\ \A i \in 1..last : i # last => t[i] = s[i]
    BY <1>1, <1>2
  <1> HIDE DEF t
  <1>4. \A i \in 1..Len(t) : Len(t[i]) \in 1..2
    BY <1>2, <1>3, SMTT(30)
  <1>5. On(t, row, last, 2) /\ \A b \in Blocks : ~On(s, b, last, 2)
    <2>1. last \in 1..Len(t) /\ 2 \in 1..2 /\ 2 <= Len(t[last]) /\ ~(2 <= Len(s[last]))
      BY <1>1, <1>2, <1>3, SMTT(30)
    <2> QED BY <2>1, <1>2, <1>3 DEF On
  <1>6. ASSUME NEW b \in Blocks, NEW i \in 1..Len(t), NEW k \in 1..2, i # last \/ k # 2
        PROVE  On(t, b, i, k) <=> On(s, b, i, k)
    <2>1. CASE i # last
      BY <2>1, <1>3 DEF On
    <2>2. CASE i = last
      <3>1. k = 1
        BY <1>6, <2>2
      <3> QED BY <2>2, <3>1, <1>1, <1>2, <1>3 DEF On
    <2> QED BY <2>1, <2>2
  <1>7. last \in 1..Len(t) /\ 2 \in 1..2
    BY <1>1, <1>3
  <1>8. OneMore(s, t, row)
    BY <1>1, <1>3, <1>4, <1>5, <1>6, <1>7 DEF OneMore
  <1> QED BY <1>8 DEF t, line

(* ... or on a line of its own. *)
LEMMA OneMoreLine ==
  ASSUME NEW s \in Seq(Seq(0..NBlocks)),
         \A i \in 1..Len(s) : Len(s[i]) \in 1..2, NEW row \in 0..NBlocks
  PROVE  OneMore(s, Append(s, <<row>>), row)
  <1> DEFINE last == Len(s) + 1
             line == <<row>>
             t == Append(s, line)
  <1>1. line \in Seq(0..NBlocks) /\ Len(line) = 1 /\ line[1] = row
    OBVIOUS
  <1> HIDE DEF line
  <1>2. /\ t \in Seq(Seq(0..NBlocks)) /\ Len(t) = last
        /\ t[last] = line
        /\ \A i \in 1..Len(s) : t[i] = s[i]
    BY <1>1, AppendProperties
  <1>3. /\ last \in 1..Len(t) /\ last \notin 1..Len(s) /\ Len(t) > 0 /\ Len(t) >= Len(s)
        /\ \A i \in 1..Len(t) : i # last => i \in 1..Len(s)
        /\ 1 \in 1..2 /\ 1 <= 1 /\ ~(2 <= 1)
    BY <1>2
  <1> HIDE DEF t, last
  <1>4. ASSUME NEW i \in 1..Len(t)
        PROVE  Len(t[i]) \in 1..2
    BY <1>1, <1>2, <1>3
  <1>5. On(t, row, last, 1) /\ \A b \in Blocks : ~On(s, b, last, 1)
    BY <1>1, <1>2, <1>3 DEF On
  <1>6. ASSUME NEW b \in Blocks, NEW i \in 1..Len(t), NEW k \in 1..2, i # last \/ k # 1
        PROVE  On(t, b, i, k) <=> On(s, b, i, k)
    <2>1. CASE i # last
      BY <2>1, <1>2, <1>3 DEF On
    <2>2. CASE i = last
      <3>1. k = 2
        BY <1>6, <2>2
      <3> QED BY <2>2, <3>1, <1>1, <1>2, <1>3 DEF On
    <2> QED BY <2>1, <2>2
  <1>7. OneMore(s, t, row)
    BY <1>2, <1>3, <1>4, <1>5, <1>6, ZenonT(60) DEF OneMore
  <1> QED BY <1>7 DEF t, line

(* What append_jsonl does to a file that is readable if its last line is open. *)
LEMMA AppendedAt ==
  ASSUME NEW f, FileOK(f), f.open => Readable(f),
         NEW row \in 0..NBlocks, NEW whole \in BOOLEAN
  PROVE  /\ OneMore(f.lines, AppendLine(f, row, whole).lines, row)
         /\ AppendLine(f, row, whole) \in JsonFile
         /\ AppendLine(f, row, whole).open = ~whole
  <1> DEFINE g == AppendLine(f, row, whole)
  <1>1. /\ f.lines \in Seq(Seq(0..NBlocks)) /\ f.open \in BOOLEAN
        /\ \A i \in 1..Len(f.lines) : Len(f.lines[i]) \in 1..2
    BY DEF FileOK, JsonFile
  <1>2. OneMore(f.lines, g.lines, row)
    <2>1. CASE f.open
      <3>1. Len(f.lines) > 0 /\ Len(f.lines[Len(f.lines)]) = 1
        BY <1>1, <2>1 DEF FileOK, Readable
      <3>2. OneMore(f.lines, [f.lines EXCEPT ![Len(f.lines)] = Append(@, row)], row)
        BY <1>1, <3>1, OneMoreOnLine
      <3> QED BY <2>1, <3>2 DEF AppendLine
    <2>2. CASE ~f.open
      <3>1. OneMore(f.lines, Append(f.lines, <<row>>), row)
        BY <1>1, OneMoreLine
      <3> QED BY <2>2, <3>1 DEF AppendLine
    <2> QED BY <2>1, <2>2
  <1>3. g.open = ~whole /\ g = [lines |-> g.lines, open |-> g.open]
    BY DEF AppendLine
  <1>4. g.lines \in Seq(Seq(0..NBlocks))
    BY <1>2 DEF OneMore
  <1> HIDE DEF g
  <1>5. g \in JsonFile
    BY <1>3, <1>4 DEF JsonFile
  <1> QED BY <1>2, <1>3, <1>5 DEF g

(* A row that is not there yet is there once afterwards, with all the others. *)
LEMMA AppendedRows ==
  ASSUME NEW f, FileOK(f), f.open => Readable(f),
         NEW row \in 0..NBlocks, row \notin Written(f), NEW whole \in BOOLEAN
  PROVE  /\ FileOK(AppendLine(f, row, whole))
         /\ AppendLine(f, row, whole).open = ~whole
         /\ \A b \in Blocks :
              b \in Written(AppendLine(f, row, whole)) <=> b \in Written(f) \/ b = row
  <1> DEFINE g == AppendLine(f, row, whole)
  <1>0. OneMore(f.lines, g.lines, row) /\ g \in JsonFile /\ g.open = ~whole
    BY AppendedAt
  <1> HIDE DEF g
  <1>1. /\ Len(g.lines) > 0 /\ Len(g.lines) >= Len(f.lines)
        /\ \A i \in 1..Len(g.lines) : Len(g.lines[i]) \in 1..2
    BY <1>0 DEF OneMore
  <1>2. PICK m \in 1..Len(g.lines), n \in 1..2 :
                  /\ IsAt(g, row, m, n)
                  /\ \A b \in Blocks : ~IsAt(f, b, m, n)
                  /\ \A b \in Blocks, i \in 1..Len(g.lines), k \in 1..2 :
                       i # m \/ k # n => (IsAt(g, b, i, k) <=> IsAt(f, b, i, k))
    BY <1>0 DEF OneMore, IsAt, On
  <1>a. \A b \in Blocks : IsAt(g, b, m, n) => b = row
    BY <1>2 DEF IsAt, On
  <1>3. ASSUME NEW b \in Blocks, NEW i \in 1..Len(g.lines), NEW k \in 1..2
        PROVE  IsAt(g, b, i, k) <=> IsAt(f, b, i, k) \/ (b = row /\ i = m /\ k = n)
    <2>1. CASE i = m /\ k = n
      BY <2>1, <1>2, <1>a
    <2>2. CASE i # m \/ k # n
      BY <2>2, <1>2
    <2> QED BY <2>1, <2>2
  <1>4. row \in Blocks => \A i \in 1..Len(f.lines), k \in 1..2 : ~IsAt(f, row, i, k)
    BY WrittenIsAt
  <1>5. ASSUME NEW b \in Blocks, NEW i \in 1..Len(g.lines), NEW j \in 1..Len(g.lines),
               NEW k \in 1..2, NEW l \in 1..2, IsAt(g, b, i, k), IsAt(g, b, j, l)
        PROVE  i = j /\ k = l
    <2>1. CASE b = row
      <3>1. ~IsAt(f, b, i, k) /\ ~IsAt(f, b, j, l)
        BY <2>1, <1>4 DEF IsAt, On
      <3> QED BY <3>1, <1>3, <1>5
    <2>2. CASE b # row
      <3>1. IsAt(f, b, i, k) /\ IsAt(f, b, j, l)
        BY <2>2, <1>3, <1>5
      <3>2. i \in 1..Len(f.lines) /\ j \in 1..Len(f.lines)
        BY <3>1 DEF IsAt, On
      <3> QED BY <3>1, <3>2 DEF FileOK
    <2> QED BY <2>1, <2>2
  <1>6. FileOK(g)
    BY <1>0, <1>1, <1>5 DEF FileOK
  <1>7. Len(f.lines) \in Nat /\ Len(g.lines) \in Nat
    BY <1>1 DEF FileOK, JsonFile
  <1>8. ASSUME NEW b \in Blocks
        PROVE  b \in Written(g) <=> b \in Written(f) \/ b = row
    <2>1. b \in Written(g) <=> \E i \in 1..Len(g.lines), k \in 1..2 : IsAt(g, b, i, k)
      BY <1>6, WrittenIsAt
    <2>2. b \in Written(f) <=> \E i \in 1..Len(f.lines), k \in 1..2 : IsAt(f, b, i, k)
      BY WrittenIsAt
    <2>3. ASSUME NEW i \in 1..Len(g.lines), NEW k \in 1..2, IsAt(g, b, i, k)
          PROVE  b \in Written(f) \/ b = row
      <3>1. IsAt(f, b, i, k) => i \in 1..Len(f.lines)
        BY DEF IsAt, On
      <3> QED BY <2>3, <1>3, <2>2, <3>1
    <2>4. ASSUME NEW i \in 1..Len(f.lines), NEW k \in 1..2, IsAt(f, b, i, k)
          PROVE  b \in Written(g)
      <3>1. i \in 1..Len(g.lines)
        BY <1>1, <1>7
      <3> QED BY <3>1, <2>4, <1>3, <2>1
    <2>5. b = row => b \in Written(g)
      BY <1>2, <2>1
    <2> QED BY <2>1, <2>2, <2>3, <2>4, <2>5
  <1> QED BY <1>0, <1>6, <1>8 DEF g

(* The same of a row with its newline... *)
LEMMA AppendedWhole ==
  ASSUME NEW f, FileOK(f), f.open => Readable(f),
         NEW row \in 0..NBlocks, row \notin Written(f)
  PROVE  /\ FileOK(AppendLine(f, row, TRUE)) /\ AppendLine(f, row, TRUE).open = FALSE
         /\ \A b \in Blocks :
              b \in Written(AppendLine(f, row, TRUE)) <=> b \in Written(f) \/ b = row
  <1> DEFINE whole == TRUE
  <1>1. whole \in BOOLEAN /\ (~whole) = FALSE
    OBVIOUS
  <1> HIDE DEF whole
  <1>2. /\ FileOK(AppendLine(f, row, whole)) /\ AppendLine(f, row, whole).open = ~whole
        /\ \A b \in Blocks :
             b \in Written(AppendLine(f, row, whole)) <=> b \in Written(f) \/ b = row
    BY <1>1, AppendedRows
  <1> QED BY <1>1, <1>2 DEF whole

(* ... and of one that was cut off. *)
LEMMA AppendedTorn ==
  ASSUME NEW f, FileOK(f), f.open => Readable(f),
         NEW row \in 0..NBlocks, row \notin Written(f)
  PROVE  /\ FileOK(AppendLine(f, row, FALSE)) /\ AppendLine(f, row, FALSE).open = TRUE
         /\ \A b \in Blocks :
              b \in Written(AppendLine(f, row, FALSE)) <=> b \in Written(f) \/ b = row
  <1> DEFINE whole == FALSE
  <1>1. whole \in BOOLEAN /\ (~whole) = TRUE
    OBVIOUS
  <1> HIDE DEF whole
  <1>2. /\ FileOK(AppendLine(f, row, whole)) /\ AppendLine(f, row, whole).open = ~whole
        /\ \A b \in Blocks :
             b \in Written(AppendLine(f, row, whole)) <=> b \in Written(f) \/ b = row
    BY <1>1, AppendedRows
  <1> QED BY <1>1, <1>2 DEF whole

-----------------------------------------------------------------------------
(* The inductive invariant. *)

ScanPlaces == {"idle", "create", "load", "block", "checkpoint", "analyze", "join", "summary",
               "report"}
StudyPlaces == {"idle", "analyze", "join", "summary", "report", "evaluation", "seal",
                "discovery", "publish", "artifacts", "reseal", "rediscovery", "republish",
                "reartifacts"}

Checkpoint == [status : {"PLANNED", "RUNNING", "COMPLETE"}, completed : 0..NBlocks]

Complete == checkpoint # None /\ checkpoint.status = "COMPLETE"
Scanning == pc["scan"] \in {"block", "checkpoint"}

IsMemory(m) ==
  /\ m = [done |-> m.done, featured |-> m.featured, opened |-> m.opened, read |-> m.read,
          digest |-> m.digest, next |-> m.next]
  /\ m.done \subseteq Blocks /\ m.featured \subseteq Blocks /\ m.read \subseteq Blocks
  /\ m.opened \in BOOLEAN /\ m.next \in 0..NArtifacts + 1

(* The consoles and what their commands hold; the scanning console never opens the
   holdout. *)
ConsolesOK ==
  /\ manifest \in BOOLEAN /\ exit \in {"none", "ok", "failed", "refused", "killed"}
  /\ DOMAIN commands = Consoles /\ \A c \in Consoles : commands[c] \in 0..MaxCommands[c]
  /\ crashes \in 0..MaxCrashes
  /\ pc \in [Consoles -> Place] /\ pc["scan"] \in ScanPlaces
  /\ \A c \in Studies : pc[c] \in StudyPlaces
  /\ mem = [c \in Consoles |-> mem[c]] /\ \A c \in Consoles : IsMemory(mem[c])
  /\ mem["scan"].opened = FALSE

(* Both row files are sound, labels follow their features, and a scan knows what is
   written.  It found the files readable, so a line still open has one row. *)
RowsOK ==
  /\ FileOK(features) /\ FileOK(labels)
  /\ Written(labels) \subseteq Written(features)
  /\ Scanning => /\ mem["scan"].done = Written(labels)
                 /\ mem["scan"].featured = Written(features)
                 /\ labels.open => Readable(labels)
                 /\ features.open => Readable(features)

(* The checkpoint is behind the labels, and once COMPLETE no scan has anything left
   to do; `new` saves its checkpoint where there is none. *)
CheckpointOK ==
  /\ checkpoint \in Checkpoint \cup {None}
  /\ checkpoint # None => checkpoint.completed <= Cardinality(Written(labels))
  /\ Complete => Written(labels) = Blocks
  /\ pc["scan"] = "checkpoint" => ~Complete
  /\ ~manifest => checkpoint = None /\ pc["scan"] = "idle"
  /\ pc["scan"] = "create" => checkpoint = None

(* What an analysis read, and what it wrote of it. *)
Sealed(a) == a.opened \/ a.read \cap Of("holdout") = {}

AnalysisOK ==
  /\ Analysed(summary) /\ Analysed(report)
  /\ evaluation # None => /\ evaluation.by \in Studies /\ Analysed(evaluation.result)
                          /\ evaluation.result.fit \subseteq Of("discovery")
  /\ summary # None => Sealed(summary) /\ summary.fit \subseteq Of("discovery")
  /\ report # None => Sealed(report)
  /\ \A c \in Consoles : pc[c] \in {"summary", "report", "evaluation"} => Sealed(mem[c])
  /\ \A c \in Consoles : pc[c] = "evaluation" => mem[c].opened

(* The files of a study, each from all discovery blocks; those of one console. *)
IsStudy(dir) ==
  /\ dir \in Seq(Artifact) /\ dir # None /\ Len(dir) <= NArtifacts + 1
  /\ \A i \in 1..Len(dir) : dir[i].from = Of("discovery")

AllBy(dir, c) == \A i \in 1..Len(dir) : dir[i].by = c

(* What console c, at place and with m in memory, knows of the study p and of its
   refinement r: who writes a refinement has made its directory and all of its files. *)
AtOK(c, place, m, p, r) ==
  /\ place \in {"publish", "republish", "artifacts", "reartifacts"} => m.read = Of("discovery")
  /\ place = "artifacts" => IsStudy(p) /\ m.next \in 1..NArtifacts + 1 /\ m.next <= Len(p) + 1
  /\ place \in {"reseal", "rediscovery", "republish", "reartifacts"} => Audited(p)
  /\ place = "reartifacts"
       => IsStudy(r) /\ AllBy(r, c) /\ m.next = Len(r) + 1 /\ m.next \in 1..NArtifacts + 1

(* A study is made of a complete campaign, and has its audit.json before it is refined;
   one command at most fills the directory of the refinement. *)
StudyOK ==
  /\ phase2 # None => IsStudy(phase2) /\ Complete
  /\ refinement # None => /\ IsStudy(refinement) /\ Audited(phase2)
                          /\ \E c \in Studies : AllBy(refinement, c)
  /\ \A c \in Studies : AtOK(c, pc[c], mem[c], phase2, refinement)
  /\ \A c \in Studies : pc[c] \in {"publish", "republish"} => Complete
  /\ \A c, d \in Studies : pc[c] = "reartifacts" /\ pc[d] = "reartifacts" => c = d

CampaignInv == ConsolesOK /\ RowsOK /\ CheckpointOK /\ AnalysisOK /\ StudyOK

-----------------------------------------------------------------------------
(* How a step moves a console, and what that leaves alone. *)

(* Console c is at place and holds m; the others are as they were. *)
Moves(c, place, m) ==
  /\ ConsolesOK' /\ pc'[c] = place /\ mem'[c] = m
  /\ \A d \in Consoles : d # c => pc'[d] = pc[d] /\ mem'[d] = mem[d]

PlacesOf(c) == IF c = "scan" THEN ScanPlaces ELSE StudyPlaces

(* The counters stay within their bounds. *)
Counters ==
  /\ manifest' \in BOOLEAN /\ exit' \in {"none", "ok", "failed", "refused", "killed"}
  /\ DOMAIN commands' = Consoles /\ \A c \in Consoles : commands'[c] \in 0..MaxCommands[c]
  /\ crashes' \in 0..MaxCrashes

(* A console goes to a place of its own and holds something sound. *)
LEMMA MoveOK ==
  ASSUME ConsolesOK, NEW c \in Consoles, NEW place, NEW m, Counters,
         pc' = [pc EXCEPT ![c] = place], mem' = [mem EXCEPT ![c] = m],
         place \in PlacesOf(c), IsMemory(m), c = "scan" => m.opened = FALSE
  PROVE  Moves(c, place, m)
  <1>1. pc' \in [Consoles -> Place] /\ pc'[c] = place /\ \A d \in Consoles : d # c => pc'[d] = pc[d]
    BY DEF ConsolesOK, PlacesOf, ScanPlaces, StudyPlaces, Place
  <1>2. /\ mem' = [d \in Consoles |-> mem'[d]] /\ mem'[c] = m
        /\ \A d \in Consoles : d # c => mem'[d] = mem[d]
    BY DEF ConsolesOK
  <1>3. \A d \in Consoles : IsMemory(mem'[d])
    BY <1>2 DEF ConsolesOK
  <1>4. pc'["scan"] \in ScanPlaces /\ \A d \in Studies : pc'[d] \in StudyPlaces
    BY <1>1, Numbers DEF ConsolesOK, Consoles, PlacesOf
  <1>5. mem'["scan"].opened = FALSE
    BY <1>2 DEF ConsolesOK, Consoles
  <1>6. ConsolesOK'
    BY <1>1, <1>2, <1>3, <1>4, <1>5 DEF ConsolesOK, IsMemory, Counters
  <1> QED BY <1>1, <1>2, <1>6 DEF Moves

(* What a command holds may be changed field by field: the labels known. *)
LEMMA UpdateDone ==
  ASSUME NEW m, IsMemory(m), NEW S \in SUBSET Blocks
  PROVE  LET n == [m EXCEPT !.done = S]
         IN  IsMemory(n) /\ n.opened = m.opened /\ n.done = S /\ n.featured = m.featured
  <1>1. PICK d, f, p, r, h, x :
          m = [done |-> d, featured |-> f, opened |-> p, read |-> r, digest |-> h, next |-> x]
    BY DEF IsMemory
  <1>2. /\ d \subseteq Blocks /\ f \subseteq Blocks /\ r \subseteq Blocks /\ p \in BOOLEAN
        /\ x \in 0..NArtifacts + 1
    BY <1>1 DEF IsMemory
  <1>3. [m EXCEPT !.done = S]
          = [done |-> S, featured |-> f, opened |-> p, read |-> r, digest |-> h, next |-> x]
    BY <1>1
  <1> QED BY <1>1, <1>2, <1>3 DEF IsMemory

(* The same for the PRE_SCAN rows. *)
LEMMA UpdateFeatured ==
  ASSUME NEW m, IsMemory(m), NEW S \in SUBSET Blocks
  PROVE  LET n == [m EXCEPT !.featured = S]
         IN  IsMemory(n) /\ n.opened = m.opened /\ n.done = m.done /\ n.featured = S
  <1>1. PICK d, f, p, r, h, x :
          m = [done |-> d, featured |-> f, opened |-> p, read |-> r, digest |-> h, next |-> x]
    BY DEF IsMemory
  <1>2. /\ d \subseteq Blocks /\ f \subseteq Blocks /\ r \subseteq Blocks /\ p \in BOOLEAN
        /\ x \in 0..NArtifacts + 1
    BY <1>1 DEF IsMemory
  <1>3. [m EXCEPT !.featured = S]
          = [done |-> d, featured |-> S, opened |-> p, read |-> r, digest |-> h, next |-> x]
    BY <1>1
  <1> QED BY <1>1, <1>2, <1>3 DEF IsMemory

(* The same for the opening of the holdout. *)
LEMMA UpdateOpened ==
  ASSUME NEW m, IsMemory(m), NEW o \in BOOLEAN
  PROVE  LET n == [m EXCEPT !.opened = o]
         IN  IsMemory(n) /\ n.opened = o
  <1>1. PICK d, f, p, r, h, x :
          m = [done |-> d, featured |-> f, opened |-> p, read |-> r, digest |-> h, next |-> x]
    BY DEF IsMemory
  <1>2. /\ d \subseteq Blocks /\ f \subseteq Blocks /\ r \subseteq Blocks /\ p \in BOOLEAN
        /\ x \in 0..NArtifacts + 1
    BY <1>1 DEF IsMemory
  <1>3. [m EXCEPT !.opened = o]
          = [done |-> d, featured |-> f, opened |-> o, read |-> r, digest |-> h, next |-> x]
    BY <1>1
  <1> QED BY <1>1, <1>2, <1>3 DEF IsMemory

(* The same for the labels read. *)
LEMMA UpdateRead ==
  ASSUME NEW m, IsMemory(m), NEW S \in SUBSET Blocks
  PROVE  LET n == [m EXCEPT !.read = S]
         IN  IsMemory(n) /\ n.opened = m.opened /\ n.read = S
  <1>1. PICK d, f, p, r, h, x :
          m = [done |-> d, featured |-> f, opened |-> p, read |-> r, digest |-> h, next |-> x]
    BY DEF IsMemory
  <1>2. /\ d \subseteq Blocks /\ f \subseteq Blocks /\ r \subseteq Blocks /\ p \in BOOLEAN
        /\ x \in 0..NArtifacts + 1
    BY <1>1 DEF IsMemory
  <1>3. [m EXCEPT !.read = S]
          = [done |-> d, featured |-> f, opened |-> p, read |-> S, digest |-> h, next |-> x]
    BY <1>1
  <1> QED BY <1>1, <1>2, <1>3 DEF IsMemory

(* The same for the digests of the sources. *)
LEMMA UpdateDigest ==
  ASSUME NEW m, IsMemory(m), NEW g
  PROVE  LET n == [m EXCEPT !.digest = g]
         IN  IsMemory(n) /\ n.opened = m.opened /\ n.read = m.read
  <1>1. PICK d, f, p, r, h, x :
          m = [done |-> d, featured |-> f, opened |-> p, read |-> r, digest |-> h, next |-> x]
    BY DEF IsMemory
  <1>2. /\ d \subseteq Blocks /\ f \subseteq Blocks /\ r \subseteq Blocks /\ p \in BOOLEAN
        /\ x \in 0..NArtifacts + 1
    BY <1>1 DEF IsMemory
  <1>3. [m EXCEPT !.digest = g]
          = [done |-> d, featured |-> f, opened |-> p, read |-> r, digest |-> g, next |-> x]
    BY <1>1
  <1> QED BY <1>1, <1>2, <1>3 DEF IsMemory

(* The same for the number of the next file. *)
LEMMA UpdateNext ==
  ASSUME NEW m, IsMemory(m), NEW n \in 0..NArtifacts + 1
  PROVE  LET k == [m EXCEPT !.next = n]
         IN  IsMemory(k) /\ k.opened = m.opened /\ k.read = m.read /\ k.next = n
  <1>1. PICK d, f, p, r, h, x :
          m = [done |-> d, featured |-> f, opened |-> p, read |-> r, digest |-> h, next |-> x]
    BY DEF IsMemory
  <1>2. d \subseteq Blocks /\ f \subseteq Blocks /\ r \subseteq Blocks /\ p \in BOOLEAN
    BY <1>1 DEF IsMemory
  <1>3. [m EXCEPT !.next = n]
          = [done |-> d, featured |-> f, opened |-> p, read |-> r, digest |-> h, next |-> n]
    BY <1>1
  <1> QED BY <1>1, <1>2, <1>3 DEF IsMemory

(* A command that ends forgets what it held. *)
LEMMA FinishMoves ==
  ASSUME ConsolesOK, NEW c \in Consoles, NEW how \in {"ok", "failed", "refused", "killed"},
         Finish(c, how), manifest' = manifest,
         commands' = commands, crashes' \in 0..MaxCrashes
  PROVE  Moves(c, "idle", NoMemory)
  <1>1. IsMemory(NoMemory) /\ NoMemory.opened = FALSE
    BY Numbers DEF IsMemory, NoMemory
  <1>2. "idle" \in PlacesOf(c)
    BY DEF PlacesOf, ScanPlaces, StudyPlaces
  <1>3. Counters
    BY DEF Counters, ConsolesOK, Finish
  <1>4. pc' = [pc EXCEPT ![c] = "idle"] /\ mem' = [mem EXCEPT ![c] = NoMemory]
    BY DEF Finish, Goto
  <1> QED BY <1>1, <1>2, <1>3, <1>4, MoveOK

(* A command that goes on with what it holds. *)
LEMMA GotoMoves ==
  ASSUME ConsolesOK, NEW c \in Consoles, NEW place \in PlacesOf(c), Counters,
         Goto(c, place), mem' = mem
  PROVE  Moves(c, place, mem[c])
  <1>1. mem' = [mem EXCEPT ![c] = mem[c]]
    BY DEF ConsolesOK
  <1>2. pc' = [pc EXCEPT ![c] = place]
    BY DEF Goto
  <1>3. IsMemory(mem[c]) /\ (c = "scan" => mem[c].opened = FALSE)
    BY DEF ConsolesOK, Consoles
  <1> QED BY <1>1, <1>2, <1>3, MoveOK

(* A command that starts is counted. *)
LEMMA StartCounters ==
  ASSUME ConsolesOK, NEW c \in Consoles, NEW place, Start(c, place), manifest' \in BOOLEAN,
         exit' \in {exit, "none"}, crashes' = crashes
  PROVE  Counters
  <1>1. MaxCommands[c] \in Nat /\ commands[c] < MaxCommands[c] /\ commands[c] \in 0..MaxCommands[c]
    BY Numbers DEF Start, ConsolesOK
  <1>2. /\ DOMAIN commands' = Consoles /\ commands'[c] = commands[c] + 1
        /\ \A d \in Consoles : d # c => commands'[d] = commands[d]
    BY DEF Start, ConsolesOK
  <1>3. commands[c] + 1 \in 0..MaxCommands[c]
    BY <1>1
  <1> QED BY <1>2, <1>3 DEF Counters, ConsolesOK

(* The files of rows are left alone, and no scan is begun. *)
LEMMA RowsFrame ==
  ASSUME RowsOK, UNCHANGED <<features, labels>>,
         Scanning' => /\ Scanning /\ mem'["scan"].done = mem["scan"].done
                      /\ mem'["scan"].featured = mem["scan"].featured
  PROVE  RowsOK'
  BY DEF RowsOK

(* The checkpoint is left alone, and nobody is about to save it who was not before. *)
LEMMA CheckpointFrame ==
  ASSUME CheckpointOK, UNCHANGED <<checkpoint, labels>>,
         pc'["scan"] \in {"create", "checkpoint"} => pc'["scan"] = pc["scan"],
         ~manifest' => ~manifest /\ pc'["scan"] = "idle"
  PROVE  CheckpointOK' /\ Complete' = Complete
  BY DEF CheckpointOK, Complete

(* The analyses are left alone, and every console is where it was or analyses nothing. *)
LEMMA AnalysisFrame ==
  ASSUME AnalysisOK, UNCHANGED <<summary, report, evaluation>>,
         \A c \in Consoles :
           \/ pc'[c] = pc[c] /\ mem'[c] = mem[c]
           \/ pc'[c] \notin {"join", "summary", "report", "evaluation"}
  PROVE  AnalysisOK'
  <1>1. /\ Analysed(summary)' /\ Analysed(report)'
        /\ (summary # None)' => Sealed(summary)' /\ (summary.fit \subseteq Of("discovery"))'
        /\ (report # None)' => Sealed(report)'
        /\ (evaluation # None)' => /\ (evaluation.by \in Studies)' /\ Analysed(evaluation.result)'
                                   /\ (evaluation.result.fit \subseteq Of("discovery"))'
    BY DEF AnalysisOK, Analysed, Sealed, Of
  <1>2. \A c \in Consoles : pc'[c] \in {"summary", "report", "evaluation"} => Sealed(mem[c])'
    BY DEF AnalysisOK, Sealed, Of
  <1>3. \A c \in Consoles : pc'[c] = "evaluation" => mem'[c].opened
    BY DEF AnalysisOK
  <1> QED BY <1>1, <1>2, <1>3 DEF AnalysisOK

(* The studies are left alone, and the consoles that make them are where they were or do
   something else. *)
LEMMA StudyFrame ==
  ASSUME StudyOK, UNCHANGED <<phase2, refinement>>, Complete => Complete',
         \A c \in Studies :
           \/ pc'[c] = pc[c] /\ mem'[c] = mem[c]
           \/ pc'[c] \in {"idle", "analyze", "join", "summary", "report", "evaluation"}
  PROVE  StudyOK'
  <1>1. /\ (phase2 # None)' => IsStudy(phase2)' /\ Complete'
        /\ (refinement # None)' => /\ IsStudy(refinement)' /\ Audited(phase2)'
                                   /\ \E c \in Studies : AllBy(refinement, c)'
    BY DEF StudyOK, IsStudy, Audited, AllBy, Of
  <1>2. ASSUME NEW c \in Studies
        PROVE  AtOK(c, pc'[c], mem'[c], phase2', refinement')
    <2>1. CASE pc'[c] = pc[c] /\ mem'[c] = mem[c]
      BY <2>1 DEF StudyOK
    <2>2. CASE pc'[c] \in {"idle", "analyze", "join", "summary", "report", "evaluation"}
      BY <2>2 DEF AtOK
    <2> QED BY <2>1, <2>2
  <1>3. \A c \in Studies : AtOK(c, pc[c], mem[c], phase2, refinement)'
    BY <1>2 DEF AtOK, IsStudy, Audited, AllBy, Of
  <1>4. \A c \in Studies : pc'[c] \in {"publish", "republish"} => Complete'
    BY DEF StudyOK
  <1>5. \A c, d \in Studies : pc'[c] = "reartifacts" /\ pc'[d] = "reartifacts" => c = d
    BY DEF StudyOK
  <1> QED BY <1>1, <1>3, <1>4, <1>5 DEF StudyOK

(* The same by console: neither row nor checkpoint is touched. *)
LEMMA FilesKept ==
  ASSUME RowsOK, CheckpointOK, NEW c \in Consoles, NEW place, NEW m, Moves(c, place, m),
         UNCHANGED <<manifest, checkpoint, features, labels>>,
         c = "scan" => place \notin {"block", "checkpoint", "create"} /\ (manifest \/ place = "idle")
  PROVE  RowsOK' /\ CheckpointOK' /\ Complete' = Complete
  <1>1. CASE c = "scan"
    <2>1. pc'["scan"] = place
      BY <1>1 DEF Moves
    <2>2. RowsOK'
      BY <1>1, <2>1, RowsFrame DEF Scanning
    <2> QED BY <1>1, <2>1, <2>2, CheckpointFrame
  <1>2. CASE c # "scan"
    <2>1. pc'["scan"] = pc["scan"] /\ mem'["scan"] = mem["scan"]
      BY <1>2 DEF Moves, Consoles
    <2>2. RowsOK'
      BY <2>1, RowsFrame DEF Scanning
    <2>3. ~manifest' => ~manifest /\ pc'["scan"] = "idle"
      BY <2>1 DEF CheckpointOK
    <2> QED BY <2>1, <2>2, <2>3, CheckpointFrame
  <1> QED BY <1>1, <1>2

(* No analysis is written. *)
LEMMA AnalysisKept ==
  ASSUME AnalysisOK, NEW c \in Consoles, NEW place, NEW m, Moves(c, place, m),
         UNCHANGED <<summary, report, evaluation>>,
         place \notin {"join", "summary", "report", "evaluation"}
  PROVE  AnalysisOK'
  BY AnalysisFrame DEF Moves

(* No study is written, and the campaign stays complete if it was. *)
LEMMA StudyKept ==
  ASSUME StudyOK, NEW c \in Consoles, NEW place, NEW m, Moves(c, place, m),
         UNCHANGED <<phase2, refinement>>, Complete => Complete',
         c # "scan" => place \in {"idle", "analyze", "join", "summary", "report", "evaluation"}
  PROVE  StudyOK'
  <1>1. ASSUME NEW d \in Studies
        PROVE  \/ pc'[d] = pc[d] /\ mem'[d] = mem[d]
               \/ pc'[d] \in {"idle", "analyze", "join", "summary", "report", "evaluation"}
    BY Numbers DEF Moves, Consoles
  <1> QED BY <1>1, StudyFrame

(* A step that only ends the command of a console. *)
LEMMA FinishKeeps ==
  ASSUME CampaignInv, NEW c \in Consoles, NEW how \in {"ok", "failed", "refused", "killed"},
         Finish(c, how), UNCHANGED disk, commands' = commands, crashes' \in 0..MaxCrashes
  PROVE  CampaignInv'
  <1>1. Moves(c, "idle", NoMemory)
    BY FinishMoves DEF CampaignInv, disk
  <1>2. RowsOK' /\ CheckpointOK' /\ Complete' = Complete
    BY <1>1, FilesKept DEF CampaignInv, disk
  <1>3. AnalysisOK'
    BY <1>1, AnalysisKept DEF CampaignInv, disk
  <1>4. StudyOK'
    BY <1>1, <1>2, StudyKept DEF CampaignInv, disk
  <1> QED BY <1>1, <1>2, <1>3, <1>4 DEF CampaignInv, Moves

-----------------------------------------------------------------------------
(* `new` and `resume`. *)

(* The blocks written are finitely many. *)
LEMMA WrittenFinite ==
  ASSUME NEW f
  PROVE  /\ Written(f) \subseteq Blocks /\ IsFiniteSet(Written(f))
         /\ Cardinality(Written(f)) \in Nat
  <1>1. Written(f) \subseteq Blocks
    BY DEF Written
  <1> QED BY <1>1, Numbers, FS_Subset, FS_CardinalityType

(* While blocks are left the scan is at one of them. *)
LEMMA CurrentIsLeft ==
  ASSUME ToScan # {}
  PROVE  Current \in ToScan /\ Current \in Blocks
  <1>1. ToScan \subseteq Nat
    BY Numbers DEF ToScan, Blocks
  <1>2. PICK b \in ToScan : \A d \in ToScan : ~(<<d, b>> \in OpToRel(<, Nat))
    BY <1>1, NatLessThanWellFounded, WFMin
  <1>3. \A d \in ToScan : ~(d < b)
    BY <1>1, <1>2 DEF OpToRel
  <1>4. \A d \in ToScan : b <= d
    BY <1>1, <1>3
  <1>5. Current \in ToScan
    BY <1>4 DEF Current
  <1> QED BY <1>5 DEF ToScan

(* `new` where there is no campaign. *)
LEMMA CreateManifestKeeps ==
  ASSUME CampaignInv, CreateManifest
  PROVE  CampaignInv'
  <1>1. Counters
    BY StartCounters DEF CampaignInv, CreateManifest, Consoles
  <1>2. Moves("scan", "create", mem["scan"])
    BY <1>1, GotoMoves DEF CampaignInv, CreateManifest, Start, Consoles, PlacesOf, ScanPlaces
  <1>3. pc'["scan"] = "create" /\ ~manifest /\ manifest' = TRUE
    BY <1>2 DEF Moves, CreateManifest
  <1>4. RowsOK'
    BY <1>3, RowsFrame DEF CampaignInv, CreateManifest, Scanning
  <1>5. CheckpointOK' /\ Complete' = Complete
    BY <1>3 DEF CampaignInv, CreateManifest, CheckpointOK, Complete
  <1>6. AnalysisOK'
    BY <1>2, AnalysisKept DEF CampaignInv, CreateManifest, Consoles
  <1>7. StudyOK'
    BY <1>2, <1>5, StudyKept DEF CampaignInv, CreateManifest, Consoles
  <1> QED BY <1>2, <1>4, <1>5, <1>6, <1>7 DEF CampaignInv, Moves

(* The first checkpoint, which counts nothing. *)
LEMMA CreateCheckpointKeeps ==
  ASSUME CampaignInv, CreateCheckpoint
  PROVE  CampaignInv'
  <1>1. Counters
    BY DEF CampaignInv, CreateCheckpoint, ConsolesOK, Counters
  <1>2. Moves("scan", "load", mem["scan"])
    BY <1>1, GotoMoves DEF CampaignInv, CreateCheckpoint, Consoles, PlacesOf, ScanPlaces
  <1>3. pc'["scan"] = "load" /\ pc["scan"] = "create"
    BY <1>2 DEF Moves, CreateCheckpoint
  <1>4. RowsOK'
    BY <1>3, RowsFrame DEF CampaignInv, CreateCheckpoint, Scanning
  <1>5. CheckpointOK' /\ (Complete => Complete')
    <2>1. checkpoint' \in Checkpoint /\ checkpoint'.completed = 0 /\ checkpoint'.status = "PLANNED"
      BY Numbers DEF CreateCheckpoint, Checkpoint
    <2>2. ~Complete' /\ ~Complete /\ manifest
      BY <1>3, <2>1 DEF Complete, CampaignInv, CheckpointOK
    <2>3. 0 <= Cardinality(Written(labels'))
      BY WrittenFinite
    <2> QED BY <1>3, <2>1, <2>2, <2>3 DEF CheckpointOK, CreateCheckpoint
  <1>6. AnalysisOK'
    BY <1>2, AnalysisKept DEF CampaignInv, CreateCheckpoint, Consoles
  <1>7. StudyOK'
    BY <1>2, <1>5, StudyKept DEF CampaignInv, CreateCheckpoint, Consoles
  <1> QED BY <1>2, <1>4, <1>5, <1>6, <1>7 DEF CampaignInv, Moves

(* `resume` of a campaign. *)
LEMMA ResumeKeeps ==
  ASSUME CampaignInv, Resume
  PROVE  CampaignInv'
  <1>1. Counters
    BY StartCounters DEF CampaignInv, Resume, Consoles, disk, ConsolesOK
  <1>2. Moves("scan", "load", mem["scan"])
    BY <1>1, GotoMoves DEF CampaignInv, Resume, Start, Consoles, PlacesOf, ScanPlaces
  <1>3. RowsOK' /\ CheckpointOK' /\ Complete' = Complete
    BY <1>2, FilesKept DEF CampaignInv, Resume, disk, Consoles
  <1>4. AnalysisOK'
    BY <1>2, AnalysisKept DEF CampaignInv, Resume, disk, Consoles
  <1>5. StudyOK'
    BY <1>2, <1>3, StudyKept DEF CampaignInv, Resume, disk, Consoles
  <1> QED BY <1>2, <1>3, <1>4, <1>5 DEF CampaignInv, Moves

(* A scan reads back what is written. *)
LEMMA LoadProgressKeeps ==
  ASSUME CampaignInv, LoadProgress
  PROVE  CampaignInv'
  <1>1. CASE Readable(labels) /\ Readable(features)
    <2> DEFINE m == [mem["scan"] EXCEPT !.done = RowsOf(labels), !.featured = RowsOf(features)]
    <2>1. /\ RowsOf(labels) = Written(labels) /\ RowsOf(labels) \subseteq Blocks
          /\ RowsOf(features) = Written(features) /\ RowsOf(features) \subseteq Blocks
      BY <1>1, ReadableRows DEF CampaignInv, RowsOK
    <2>2. IsMemory(mem["scan"]) /\ mem["scan"].opened = FALSE
      BY DEF CampaignInv, ConsolesOK, Consoles
    <2>3. /\ IsMemory(m) /\ m.opened = FALSE
          /\ m.done = Written(labels) /\ m.featured = Written(features)
      <3> DEFINE k == mem["scan"]
                 S == RowsOf(labels)
                 T == RowsOf(features)
      <3>1. IsMemory(k) /\ k.opened = FALSE /\ S \in SUBSET Blocks /\ T \in SUBSET Blocks
        BY <2>1, <2>2
      <3> DEFINE l == [k EXCEPT !.done = S]
      <3>2. m = [l EXCEPT !.featured = T]
        OBVIOUS
      <3> HIDE DEF k, S, T, m
      <3>3. IsMemory(l) /\ l.opened = k.opened /\ l.done = S
        BY <3>1, UpdateDone
      <3> HIDE DEF l
      <3>4. IsMemory(m) /\ m.opened = l.opened /\ m.done = l.done /\ m.featured = T
        BY <3>1, <3>2, <3>3, UpdateFeatured
      <3> QED BY <2>1, <3>1, <3>3, <3>4 DEF S, T
    <2>4. mem' = [mem EXCEPT !["scan"] = m] /\ pc' = [pc EXCEPT !["scan"] = "block"]
      BY <1>1 DEF LoadProgress, Goto
    <2> HIDE DEF m
    <2>5. Counters
      BY <1>1 DEF LoadProgress, CampaignInv, ConsolesOK, Counters, disk
    <2>6. Moves("scan", "block", m)
      BY <2>3, <2>4, <2>5, MoveOK DEF CampaignInv, Consoles, PlacesOf, ScanPlaces
    <2>7. pc'["scan"] = "block" /\ mem'["scan"] = m /\ pc["scan"] = "load"
      BY <2>6 DEF Moves, LoadProgress
    <2>8. RowsOK'
      BY <1>1, <2>3, <2>7 DEF RowsOK, CampaignInv, LoadProgress, disk
    <2>9. CheckpointOK' /\ Complete' = Complete
      <3>1. manifest
        BY <2>7 DEF CampaignInv, CheckpointOK
      <3> QED BY <2>7, <3>1, CheckpointFrame DEF CampaignInv, LoadProgress, disk
    <2>10. AnalysisOK'
      BY <2>6, AnalysisKept DEF CampaignInv, LoadProgress, disk, Consoles
    <2>11. StudyOK'
      BY <2>6, <2>9, StudyKept DEF CampaignInv, LoadProgress, disk, Consoles
    <2> QED BY <2>6, <2>8, <2>9, <2>10, <2>11 DEF CampaignInv, Moves
  <1>2. CASE ~(Readable(labels) /\ Readable(features))
    <2>1. Finish("scan", "refused")
      BY <1>2 DEF LoadProgress
    <2> QED BY <2>1, FinishKeeps DEF LoadProgress, CampaignInv, ConsolesOK, Consoles
  <1> QED BY <1>1, <1>2

(* A PRE_SCAN row is appended for a block that has none. *)
LEMMA AppendFeatureKeeps ==
  ASSUME CampaignInv, AppendFeature
  PROVE  CampaignInv'
  <1> DEFINE k == mem["scan"]
             S == k.featured \cup {Current}
             m == [k EXCEPT !.featured = S]
  <1>1. /\ pc["scan"] = "block" /\ Scanning /\ Current \in Blocks
        /\ Current \notin mem["scan"].featured
    BY CurrentIsLeft DEF AppendFeature, Scanning
  <1>2. IsMemory(k) /\ k.opened = FALSE /\ S \in SUBSET Blocks
    BY <1>1 DEF CampaignInv, ConsolesOK, Consoles, IsMemory
  <1>3. mem' = [mem EXCEPT !["scan"] = m]
    BY DEF AppendFeature
  <1>4. pc' = [pc EXCEPT !["scan"] = "block"]
    BY <1>1 DEF AppendFeature, CampaignInv, ConsolesOK
  <1> HIDE DEF k, S
  <1>5. IsMemory(m) /\ m.opened = FALSE /\ m.done = k.done /\ m.featured = S
    BY <1>2, UpdateFeatured
  <1> HIDE DEF m
  <1>6. Counters
    BY DEF AppendFeature, CampaignInv, ConsolesOK, Counters
  <1>7. Moves("scan", "block", m)
    BY <1>3, <1>4, <1>5, <1>6, MoveOK DEF CampaignInv, Consoles, PlacesOf, ScanPlaces
  <1>8. pc'["scan"] = "block" /\ mem'["scan"] = m
    BY <1>7 DEF Moves
  <1>9. /\ mem["scan"].done = Written(labels) /\ mem["scan"].featured = Written(features)
        /\ labels.open => Readable(labels)
        /\ features.open => Readable(features)
        /\ FileOK(features) /\ FileOK(labels) /\ Written(labels) \subseteq Written(features)
    BY <1>1 DEF CampaignInv, RowsOK
  <1>10. features' = AppendLine(features, Current, TRUE) /\ labels' = labels
    BY DEF AppendFeature
  <1>11. Current \in 0..NBlocks
    BY <1>1, Numbers DEF Blocks
  <1>12. /\ FileOK(features') /\ features'.open = FALSE
         /\ \A b \in Blocks : b \in Written(features') <=> b \in Written(features) \/ b = Current
    BY <1>1, <1>9, <1>10, <1>11, AppendedWhole, ZenonT(60)
  <1>13. Written(features') = Written(features) \cup {Current}
    BY <1>1, <1>12, WrittenFinite
  <1>14. Written(features)' = Written(features') /\ Written(labels)' = Written(labels)
    BY <1>10 DEF Written, Copies
  <1>15. RowsOK'
    BY <1>5, <1>8, <1>9, <1>10, <1>12, <1>13, <1>14 DEF RowsOK, k, S
  <1>16. CheckpointOK' /\ Complete' = Complete
    <2>1. manifest
      BY <1>1 DEF CampaignInv, CheckpointOK
    <2> QED BY <1>1, <1>8, <2>1, CheckpointFrame DEF CampaignInv, AppendFeature
  <1>17. AnalysisOK'
    BY <1>7, AnalysisKept DEF CampaignInv, AppendFeature, Consoles
  <1>18. StudyOK'
    BY <1>7, <1>16, StudyKept DEF CampaignInv, AppendFeature, Consoles
  <1> QED BY <1>7, <1>15, <1>16, <1>17, <1>18 DEF CampaignInv, Moves

(* A label is appended for a block that has its PRE_SCAN row and no label. *)
LEMMA AppendLabelKeeps ==
  ASSUME CampaignInv, AppendLabel
  PROVE  CampaignInv'
  <1> DEFINE k == mem["scan"]
             S == k.done \cup {Current}
             m == [k EXCEPT !.done = S]
  <1>1. /\ pc["scan"] = "block" /\ Scanning /\ Current \in Blocks
        /\ Current \in mem["scan"].featured /\ Current \notin mem["scan"].done
    BY CurrentIsLeft DEF AppendLabel, Scanning, ToScan
  <1>2. IsMemory(k) /\ k.opened = FALSE /\ S \in SUBSET Blocks
    BY <1>1 DEF CampaignInv, ConsolesOK, Consoles, IsMemory
  <1>3. mem' = [mem EXCEPT !["scan"] = m]
    BY DEF AppendLabel
  <1>4. pc' = [pc EXCEPT !["scan"] = "checkpoint"]
    BY DEF AppendLabel, Goto
  <1> HIDE DEF k, S
  <1>5. IsMemory(m) /\ m.opened = FALSE /\ m.done = S /\ m.featured = k.featured
    BY <1>2, UpdateDone
  <1> HIDE DEF m
  <1>6. Counters
    BY DEF AppendLabel, CampaignInv, ConsolesOK, Counters
  <1>7. Moves("scan", "checkpoint", m)
    BY <1>3, <1>4, <1>5, <1>6, MoveOK DEF CampaignInv, Consoles, PlacesOf, ScanPlaces
  <1>8. pc'["scan"] = "checkpoint" /\ mem'["scan"] = m
    BY <1>7 DEF Moves
  <1>9. /\ mem["scan"].done = Written(labels) /\ mem["scan"].featured = Written(features)
        /\ labels.open => Readable(labels)
        /\ features.open => Readable(features)
        /\ FileOK(features) /\ FileOK(labels) /\ Written(labels) \subseteq Written(features)
    BY <1>1 DEF CampaignInv, RowsOK
  <1>10. labels' = AppendLine(labels, Current, TRUE) /\ features' = features
    BY DEF AppendLabel
  <1>11. Current \in 0..NBlocks
    BY <1>1, Numbers DEF Blocks
  <1>12. /\ FileOK(labels') /\ labels'.open = FALSE
         /\ \A b \in Blocks : b \in Written(labels') <=> b \in Written(labels) \/ b = Current
    BY <1>1, <1>9, <1>10, <1>11, AppendedWhole, ZenonT(60)
  <1>13. Written(labels') = Written(labels) \cup {Current}
    BY <1>1, <1>12, WrittenFinite
  <1>14. Written(labels)' = Written(labels') /\ Written(features)' = Written(features)
    BY <1>10 DEF Written, Copies
  <1>15. RowsOK'
    BY <1>1, <1>5, <1>8, <1>9, <1>10, <1>12, <1>13, <1>14 DEF RowsOK, k, S
  <1>16. CheckpointOK' /\ ~Complete /\ ~Complete'
    <2>1. manifest /\ manifest' = manifest /\ checkpoint' = checkpoint
      BY <1>1 DEF CampaignInv, CheckpointOK, AppendLabel
    <2>2. ~Complete /\ ~Complete'
      BY <1>1, <1>9, <2>1 DEF CampaignInv, CheckpointOK, Complete
    <2>3. /\ Cardinality(Written(labels)) <= Cardinality(Written(labels'))
          /\ Cardinality(Written(labels)) \in Nat /\ Cardinality(Written(labels')) \in Nat
      BY <1>13, WrittenFinite, FS_Subset
    <2>4. (checkpoint # None)' => checkpoint'.completed <= Cardinality(Written(labels'))
      <3>1. SUFFICES ASSUME checkpoint # None
                     PROVE  checkpoint.completed <= Cardinality(Written(labels'))
        BY <2>1
      <3>2. checkpoint.completed <= Cardinality(Written(labels)) /\ checkpoint.completed \in 0..NBlocks
        BY <3>1 DEF CampaignInv, CheckpointOK, Checkpoint
      <3> QED BY <2>3, <3>2, Numbers
    <2> QED BY <1>8, <1>14, <2>1, <2>2, <2>4 DEF CheckpointOK, CampaignInv
  <1>17. AnalysisOK'
    BY <1>7, AnalysisKept DEF CampaignInv, AppendLabel, Consoles
  <1>18. StudyOK'
    BY <1>7, <1>16, StudyKept DEF CampaignInv, AppendLabel, Consoles
  <1> QED BY <1>7, <1>15, <1>16, <1>17, <1>18 DEF CampaignInv, Moves

(* The checkpoint counts the labels that are written. *)
LEMMA SaveCheckpointKeeps ==
  ASSUME CampaignInv, SaveCheckpoint
  PROVE  CampaignInv'
  <1>1. pc["scan"] = "checkpoint" /\ Scanning
    BY DEF SaveCheckpoint, Scanning
  <1>2. Counters
    BY DEF CampaignInv, SaveCheckpoint, ConsolesOK, Counters
  <1>3. Moves("scan", "block", mem["scan"])
    BY <1>2, GotoMoves DEF CampaignInv, SaveCheckpoint, Consoles, PlacesOf, ScanPlaces
  <1>4. pc'["scan"] = "block" /\ mem'["scan"] = mem["scan"]
    BY <1>3 DEF Moves
  <1>5. RowsOK'
    BY <1>1, <1>4, RowsFrame DEF CampaignInv, SaveCheckpoint
  <1>6. CheckpointOK' /\ ~Complete
    <2>1. mem["scan"].done = Written(labels) /\ labels' = labels
      BY <1>1 DEF CampaignInv, RowsOK, SaveCheckpoint
    <2>2. Cardinality(Written(labels)) \in 0..NBlocks
      <3>1. Cardinality(Blocks) = NBlocks
        <4>1. IF 1 > NBlocks THEN Cardinality(1..NBlocks) = 0 ELSE Cardinality(1..NBlocks) = NBlocks - 1 + 1
          BY Numbers, FS_Interval
        <4> QED BY <4>1, Numbers DEF Blocks
      <3>2. Cardinality(Written(labels)) <= Cardinality(Blocks) /\ Cardinality(Written(labels)) \in Nat
        BY Numbers, WrittenFinite, FS_Subset
      <3> QED BY <3>1, <3>2, Numbers
    <2>3. /\ checkpoint' \in Checkpoint /\ checkpoint'.completed = Cardinality(Written(labels))
          /\ checkpoint'.status = "COMPLETE" => Written(labels) = Blocks
      BY <2>1, <2>2 DEF SaveCheckpoint, Checkpoint
    <2>4. Written(labels)' = Written(labels)
      BY <2>1 DEF Written, Copies
    <2>5. manifest' = manifest /\ manifest /\ ~Complete
      BY <1>1 DEF CampaignInv, CheckpointOK, SaveCheckpoint
    <2>6. Complete' => Written(labels) = Blocks
      BY <2>3 DEF Complete
    <2>7. Cardinality(Written(labels)) <= Cardinality(Written(labels))
      BY <2>2
    <2> QED BY <1>4, <2>3, <2>4, <2>5, <2>6, <2>7 DEF CheckpointOK
  <1>7. AnalysisOK'
    BY <1>3, AnalysisKept DEF CampaignInv, SaveCheckpoint, Consoles
  <1>8. StudyOK'
    BY <1>3, <1>6, StudyKept DEF CampaignInv, SaveCheckpoint, Consoles
  <1> QED BY <1>3, <1>5, <1>6, <1>7, <1>8 DEF CampaignInv, Moves

(* Every block is labelled: the scan turns to its analysis. *)
LEMMA ScanDoneKeeps ==
  ASSUME CampaignInv, ScanDone
  PROVE  CampaignInv'
  <1>1. Counters
    BY DEF CampaignInv, ScanDone, ConsolesOK, Counters, disk
  <1>2. Moves("scan", "analyze", mem["scan"])
    BY <1>1, GotoMoves DEF CampaignInv, ScanDone, Consoles, PlacesOf, ScanPlaces
  <1>3. manifest
    BY DEF CampaignInv, CheckpointOK, ScanDone
  <1>4. RowsOK' /\ CheckpointOK' /\ Complete' = Complete
    BY <1>2, <1>3, FilesKept DEF CampaignInv, ScanDone, disk, Consoles
  <1>5. AnalysisOK'
    BY <1>2, AnalysisKept DEF CampaignInv, ScanDone, disk, Consoles
  <1>6. StudyOK'
    BY <1>2, <1>4, StudyKept DEF CampaignInv, ScanDone, disk, Consoles
  <1> QED BY <1>2, <1>4, <1>5, <1>6 DEF CampaignInv, Moves

(* A kill, with all files as they are. *)
LEMMA CrashKeeps ==
  ASSUME CampaignInv, NEW c \in Consoles, Crash(c)
  PROVE  CampaignInv'
  <1>1. crashes' \in 0..MaxCrashes
    BY Numbers DEF CampaignInv, ConsolesOK, Crash, Kill
  <1> QED BY <1>1, FinishKeeps DEF Crash, Kill

(* A scanner that throws ends the command. *)
LEMMA ScanFailsKeeps ==
  ASSUME CampaignInv, ScanFails
  PROVE  CampaignInv'
  BY FinishKeeps DEF ScanFails, CampaignInv, ConsolesOK, Consoles

(* A kill in the middle of a line.  The scan is over, and what the line holds is new. *)
LEMMA TearFeatureKeeps ==
  ASSUME CampaignInv, TearFeature
  PROVE  CampaignInv'
  <1>1. /\ pc["scan"] = "block" /\ Scanning /\ Current \in Blocks
        /\ Current \notin mem["scan"].featured
    BY CurrentIsLeft DEF TearFeature, Scanning
  <1>2. crashes' \in 0..MaxCrashes
    BY Numbers DEF CampaignInv, ConsolesOK, TearFeature, Kill
  <1>3. Moves("scan", "idle", NoMemory)
    BY <1>2, FinishMoves DEF CampaignInv, TearFeature, Kill, Consoles
  <1>4. pc'["scan"] = "idle"
    BY <1>3 DEF Moves
  <1>5. /\ mem["scan"].featured = Written(features)
        /\ features.open => Readable(features)
        /\ FileOK(features) /\ FileOK(labels) /\ Written(labels) \subseteq Written(features)
    BY <1>1 DEF CampaignInv, RowsOK
  <1>6. PICK row \in {0, Current} : features' = AppendLine(features, row, FALSE)
    BY DEF TearFeature
  <1>7. row \in 0..NBlocks /\ row \notin Written(features)
    <2>1. 0 \notin Written(features)
      BY WrittenFinite, Numbers DEF Blocks
    <2> QED BY <1>1, <1>5, <2>1, Numbers DEF Blocks
  <1>8. /\ FileOK(features')
        /\ \A b \in Blocks : b \in Written(features') <=> b \in Written(features) \/ b = row
    BY <1>5, <1>6, <1>7, AppendedTorn
  <1>9. Written(features) \subseteq Written(features')
    BY <1>8, WrittenFinite
  <1>10. /\ Written(features)' = Written(features') /\ Written(labels)' = Written(labels)
         /\ labels' = labels
    BY DEF Written, Copies, TearFeature
  <1>11. RowsOK'
    BY <1>4, <1>5, <1>8, <1>9, <1>10 DEF RowsOK, Scanning
  <1>12. CheckpointOK' /\ Complete' = Complete
    <2>1. manifest' = manifest /\ manifest
      BY <1>1 DEF CampaignInv, CheckpointOK, TearFeature
    <2> QED BY <1>4, <2>1, CheckpointFrame DEF CampaignInv, TearFeature
  <1>13. AnalysisOK'
    BY <1>3, AnalysisKept DEF CampaignInv, TearFeature, Consoles
  <1>14. StudyOK'
    BY <1>3, <1>12, StudyKept DEF CampaignInv, TearFeature, Consoles
  <1> QED BY <1>3, <1>11, <1>12, <1>13, <1>14 DEF CampaignInv, Moves

(* The same of a label: the campaign was not complete. *)
LEMMA TearLabelKeeps ==
  ASSUME CampaignInv, TearLabel
  PROVE  CampaignInv'
  <1>1. /\ pc["scan"] = "block" /\ Scanning /\ Current \in Blocks
        /\ Current \in mem["scan"].featured /\ Current \notin mem["scan"].done
    BY CurrentIsLeft DEF TearLabel, Scanning, ToScan
  <1>2. crashes' \in 0..MaxCrashes
    BY Numbers DEF CampaignInv, ConsolesOK, TearLabel, Kill
  <1>3. Moves("scan", "idle", NoMemory)
    BY <1>2, FinishMoves DEF CampaignInv, TearLabel, Kill, Consoles
  <1>4. pc'["scan"] = "idle"
    BY <1>3 DEF Moves
  <1>5. /\ mem["scan"].done = Written(labels) /\ mem["scan"].featured = Written(features)
        /\ labels.open => Readable(labels)
        /\ FileOK(features) /\ FileOK(labels) /\ Written(labels) \subseteq Written(features)
    BY <1>1 DEF CampaignInv, RowsOK
  <1>6. PICK row \in {0, Current} : labels' = AppendLine(labels, row, FALSE)
    BY DEF TearLabel
  <1>7. row \in 0..NBlocks /\ row \notin Written(labels)
    <2>1. 0 \notin Written(labels)
      BY WrittenFinite, Numbers DEF Blocks
    <2> QED BY <1>1, <1>5, <2>1, Numbers DEF Blocks
  <1>8. /\ FileOK(labels')
        /\ \A b \in Blocks : b \in Written(labels') <=> b \in Written(labels) \/ b = row
    BY <1>5, <1>6, <1>7, AppendedTorn
  <1>9. /\ Written(labels) \subseteq Written(labels')
        /\ Written(labels') \subseteq Written(labels) \cup {Current}
    <2>1. 0 \notin Blocks
      BY Numbers DEF Blocks
    <2> QED BY <1>8, <2>1, WrittenFinite
  <1>10. /\ Written(labels)' = Written(labels') /\ Written(features)' = Written(features)
         /\ features' = features
    BY DEF Written, Copies, TearLabel
  <1>11. RowsOK'
    BY <1>1, <1>4, <1>5, <1>8, <1>9, <1>10 DEF RowsOK, Scanning
  <1>12. CheckpointOK' /\ ~Complete
    <2>1. manifest' = manifest /\ manifest /\ checkpoint' = checkpoint
      BY <1>1 DEF CampaignInv, CheckpointOK, TearLabel
    <2>2. ~Complete /\ ~Complete'
      BY <1>1, <1>5, <2>1 DEF CampaignInv, CheckpointOK, Complete
    <2>3. /\ Cardinality(Written(labels)) <= Cardinality(Written(labels'))
          /\ Cardinality(Written(labels)) \in Nat /\ Cardinality(Written(labels')) \in Nat
      BY <1>9, WrittenFinite, FS_Subset
    <2>4. (checkpoint # None)' => checkpoint'.completed <= Cardinality(Written(labels'))
      <3>1. SUFFICES ASSUME checkpoint # None
                     PROVE  checkpoint.completed <= Cardinality(Written(labels'))
        BY <2>1
      <3>2. checkpoint.completed <= Cardinality(Written(labels)) /\ checkpoint.completed \in 0..NBlocks
        BY <3>1 DEF CampaignInv, CheckpointOK, Checkpoint
      <3> QED BY <2>3, <3>2, Numbers
    <2> QED BY <1>4, <1>10, <2>1, <2>2, <2>4 DEF CheckpointOK, CampaignInv
  <1>13. AnalysisOK'
    BY <1>3, AnalysisKept DEF CampaignInv, TearLabel, Consoles
  <1>14. StudyOK'
    BY <1>3, <1>12, StudyKept DEF CampaignInv, TearLabel, Consoles
  <1> QED BY <1>3, <1>11, <1>12, <1>13, <1>14 DEF CampaignInv, Moves

-----------------------------------------------------------------------------
(* `analyze`, on any console. *)

(* `analyze`, with or without --finalize-holdout. *)
LEMMA AnalyzeKeeps ==
  ASSUME CampaignInv, NEW c \in Studies, NEW open \in BOOLEAN, Analyze(c, open)
  PROVE  CampaignInv'
  <1>0. c \in Consoles /\ c # "scan"
    BY Numbers DEF Consoles
  <1> DEFINE k == mem[c]
             m == [k EXCEPT !.opened = open]
  <1>1. IsMemory(k)
    BY <1>0 DEF CampaignInv, ConsolesOK
  <1>2. mem' = [mem EXCEPT ![c] = m] /\ pc' = [pc EXCEPT ![c] = "analyze"]
    BY DEF Analyze, Start, Goto
  <1> HIDE DEF k
  <1>3. IsMemory(m)
    BY <1>1, UpdateOpened
  <1> HIDE DEF m
  <1>4. Counters
    BY <1>0, StartCounters DEF CampaignInv, Analyze, Consoles, disk, ConsolesOK
  <1>5. Moves(c, "analyze", m)
    BY <1>0, <1>2, <1>3, <1>4, MoveOK DEF CampaignInv, PlacesOf, StudyPlaces
  <1>6. RowsOK' /\ CheckpointOK' /\ Complete' = Complete
    BY <1>0, <1>5, FilesKept DEF CampaignInv, Analyze, disk
  <1>7. AnalysisOK'
    BY <1>0, <1>5, AnalysisKept DEF CampaignInv, Analyze, disk
  <1>8. StudyOK'
    BY <1>0, <1>5, <1>6, StudyKept DEF CampaignInv, Analyze, disk
  <1> QED BY <1>5, <1>6, <1>7, <1>8 DEF CampaignInv, Moves

(* The rest of the state when an analysis goes on. *)
LEMMA AnalysisMoves ==
  ASSUME CampaignInv, NEW c \in Consoles, NEW place, NEW m, Moves(c, place, m), pc[c] # "idle",
         UNCHANGED <<manifest, checkpoint, features, labels, phase2, refinement>>,
         place \in {"idle", "join", "summary", "report", "evaluation"}
  PROVE  ConsolesOK' /\ RowsOK' /\ CheckpointOK' /\ StudyOK'
  <1>1. c = "scan" => manifest
    BY DEF CampaignInv, CheckpointOK
  <1>2. RowsOK' /\ CheckpointOK' /\ Complete' = Complete
    BY <1>1, FilesKept DEF CampaignInv
  <1>3. StudyOK'
    BY <1>2, StudyKept DEF CampaignInv
  <1> QED BY <1>2, <1>3 DEF Moves

(* The analyses on disk are left alone; what matters is where c is. *)
LEMMA AnalysisGoes ==
  ASSUME AnalysisOK, NEW c \in Consoles, NEW place, NEW m, Moves(c, place, m),
         UNCHANGED <<summary, report, evaluation>>,
         place \in {"summary", "report", "evaluation"} => Sealed(m),
         place = "evaluation" => m.opened
  PROVE  AnalysisOK'
  <1>1. /\ Analysed(summary)' /\ Analysed(report)'
        /\ (summary # None)' => Sealed(summary)' /\ (summary.fit \subseteq Of("discovery"))'
        /\ (report # None)' => Sealed(report)'
        /\ (evaluation # None)' => /\ (evaluation.by \in Studies)' /\ Analysed(evaluation.result)'
                                   /\ (evaluation.result.fit \subseteq Of("discovery"))'
    BY DEF AnalysisOK, Analysed, Sealed, Of
  <1>2. \A d \in Consoles : pc'[d] \in {"summary", "report", "evaluation"} => Sealed(mem[d])'
    BY DEF AnalysisOK, Sealed, Of, Moves
  <1>3. \A d \in Consoles : pc'[d] = "evaluation" => mem'[d].opened
    BY DEF Moves, AnalysisOK
  <1> QED BY <1>1, <1>2, <1>3 DEF AnalysisOK

(* An opened analysis goes on only where it finds no evaluation. *)
LEMMA AnalyzeFeaturesKeeps ==
  ASSUME CampaignInv, NEW c \in Consoles, AnalyzeFeatures(c)
  PROVE  CampaignInv'
  <1>1. CASE (mem[c].opened /\ evaluation # None) \/ ~Readable(features)
    <2>1. Finish(c, "failed")
      BY <1>1 DEF AnalyzeFeatures
    <2> QED BY <2>1, FinishKeeps DEF AnalyzeFeatures, CampaignInv, ConsolesOK
  <1>2. CASE ~((mem[c].opened /\ evaluation # None) \/ ~Readable(features))
    <2> DEFINE k == mem[c]
               S == RowsOf(features)
               m == [k EXCEPT !.featured = S]
    <2>1. IsMemory(k) /\ (c = "scan" => k.opened = FALSE) /\ S \in SUBSET Blocks
      BY <1>2, ReadableRows DEF CampaignInv, ConsolesOK, RowsOK
    <2>2. mem' = [mem EXCEPT ![c] = m] /\ pc' = [pc EXCEPT ![c] = "join"]
      BY <1>2 DEF AnalyzeFeatures, Goto
    <2> HIDE DEF k, S
    <2>3. IsMemory(m) /\ m.opened = k.opened
      BY <2>1, UpdateFeatured
    <2> HIDE DEF m
    <2>4. Counters
      BY <1>2 DEF AnalyzeFeatures, CampaignInv, ConsolesOK, Counters, disk
    <2>5. Moves(c, "join", m)
      BY <2>1, <2>2, <2>3, <2>4, MoveOK DEF CampaignInv, PlacesOf, ScanPlaces, StudyPlaces
    <2>6. ConsolesOK' /\ RowsOK' /\ CheckpointOK' /\ StudyOK'
      BY <2>5, AnalysisMoves DEF AnalyzeFeatures, disk
    <2>7. AnalysisOK'
      BY <1>2, <2>3, <2>5, AnalysisGoes DEF AnalyzeFeatures, disk, CampaignInv, k
    <2> QED BY <2>6, <2>7 DEF CampaignInv
  <1> QED BY <1>1, <1>2

(* Labels of the holdout are skipped unless it is opened. *)
LEMMA AnalyzeLabelsKeeps ==
  ASSUME CampaignInv, NEW c \in Consoles, AnalyzeLabels(c)
  PROVE  CampaignInv'
  <1>1. CASE ~(Readable(labels) /\ JoinedRows(c) \subseteq mem[c].featured)
    <2>1. Finish(c, "failed")
      BY <1>1 DEF AnalyzeLabels
    <2> QED BY <2>1, FinishKeeps DEF AnalyzeLabels, CampaignInv, ConsolesOK
  <1>2. CASE Readable(labels) /\ JoinedRows(c) \subseteq mem[c].featured
    <2> DEFINE k == mem[c]
               S == JoinedRows(c)
               m == [k EXCEPT !.read = S]
    <2>1. IsMemory(k) /\ (c = "scan" => k.opened = FALSE) /\ S \in SUBSET Blocks
      BY <1>2, ReadableRows DEF CampaignInv, ConsolesOK, RowsOK, JoinedRows
    <2>2. mem' = [mem EXCEPT ![c] = m] /\ pc' = [pc EXCEPT ![c] = "summary"]
      BY <1>2 DEF AnalyzeLabels, Goto
    <2>3. k.opened \/ S \cap Of("holdout") = {}
      BY <2>1 DEF JoinedRows, Of
    <2> HIDE DEF k, S
    <2>6. IsMemory(m) /\ m.opened = k.opened /\ m.read = S
      BY <2>1, UpdateRead
    <2> HIDE DEF m
    <2>7. Counters
      BY <1>2 DEF AnalyzeLabels, CampaignInv, ConsolesOK, Counters, disk
    <2>8. Moves(c, "summary", m)
      BY <2>1, <2>2, <2>6, <2>7, MoveOK DEF CampaignInv, PlacesOf, ScanPlaces, StudyPlaces
    <2>9. ConsolesOK' /\ RowsOK' /\ CheckpointOK' /\ StudyOK'
      BY <2>8, AnalysisMoves DEF AnalyzeLabels, disk
    <2>10. Sealed(m)
      BY <2>3, <2>6 DEF Sealed
    <2>11. AnalysisOK'
      BY <2>6, <2>8, <2>10, AnalysisGoes DEF AnalyzeLabels, disk, CampaignInv
    <2> QED BY <2>9, <2>11 DEF CampaignInv
  <1> QED BY <1>1, <1>2

(* What an analysis writes: its fit is discovery, its sections hold all it read. *)
LEMMA ResultIsSound ==
  ASSUME NEW c \in Consoles, IsMemory(mem[c]), Sealed(mem[c])
  PROVE  /\ Result(c).opened = mem[c].opened /\ Result(c).read = mem[c].read
         /\ Analysed(Result(c)) /\ Sealed(Result(c)) /\ Result(c).fit \subseteq Of("discovery")
  <1> DEFINE rows == mem[c].read
             opened == mem[c].opened
             part == Sections(rows, opened)
  <1>1. rows \subseteq Blocks /\ opened \in BOOLEAN /\ (opened \/ rows \cap Of("holdout") = {})
    BY DEF IsMemory, Sealed
  <1>2. /\ Result(c).opened = opened /\ Result(c).read = rows
        /\ Result(c).fit = DiscoveryFit(rows) /\ Result(c).sections = part
    BY DEF Result
  <1>3. DiscoveryFit(rows) \subseteq rows /\ DiscoveryFit(rows) \subseteq Of("discovery")
    BY DEF DiscoveryFit
  <1>4. UNION Range(part) = rows
    <2>1. /\ DOMAIN part = {q \in Partitions : (q # "holdout" \/ opened) /\ rows \cap Of(q) # {}}
          /\ \A p \in DOMAIN part : part[p] = rows \cap Of(p)
      BY DEF Sections
    <2>2. Range(part) = {part[p] : p \in DOMAIN part}
      BY DEF Range
    <2>3. ASSUME NEW b \in rows
          PROVE  b \in UNION Range(part)
      <3>1. PartitionOf[b] \in Partitions /\ b \in rows \cap Of(PartitionOf[b])
        BY <1>1, Numbers DEF Of
      <3>2. PartitionOf[b] \in DOMAIN part
        BY <1>1, <2>1, <3>1
      <3> QED BY <2>1, <2>2, <3>1, <3>2
    <2>4. ASSUME NEW b \in UNION Range(part)
          PROVE  b \in rows
      BY <2>1, <2>2
    <2> QED BY <2>3, <2>4
  <1> HIDE DEF rows, opened, part
  <1>5. Analysed(Result(c))
    BY <1>1, <1>2, <1>3, <1>4 DEF Analysed
  <1>6. Sealed(Result(c))
    BY <1>1, <1>2 DEF Sealed
  <1> QED BY <1>2, <1>3, <1>5, <1>6 DEF rows, opened

(* The summary is that of the labels read. *)
LEMMA SaveSummaryKeeps ==
  ASSUME CampaignInv, NEW c \in Consoles, SaveSummary(c)
  PROVE  CampaignInv'
  <1>1. pc[c] = "summary" /\ Sealed(mem[c]) /\ IsMemory(mem[c])
    BY DEF SaveSummary, CampaignInv, AnalysisOK, ConsolesOK
  <1>2. Counters
    BY DEF CampaignInv, SaveSummary, ConsolesOK, Counters
  <1>3. Moves(c, "report", mem[c])
    BY <1>2, GotoMoves DEF CampaignInv, SaveSummary, PlacesOf, ScanPlaces, StudyPlaces
  <1>4. ConsolesOK' /\ RowsOK' /\ CheckpointOK' /\ StudyOK'
    BY <1>1, <1>3, AnalysisMoves DEF SaveSummary
  <1>5. summary' = Result(c) /\ report' = report /\ evaluation' = evaluation /\ mem' = mem
    BY DEF SaveSummary
  <1>6. /\ Analysed(summary)' /\ Analysed(report)'
        /\ (summary # None)' => Sealed(summary)' /\ (summary.fit \subseteq Of("discovery"))'
        /\ (report # None)' => Sealed(report)'
        /\ (evaluation # None)' => /\ (evaluation.by \in Studies)' /\ Analysed(evaluation.result)'
                                   /\ (evaluation.result.fit \subseteq Of("discovery"))'
    <2>1. Analysed(summary') /\ Sealed(summary') /\ summary'.fit \subseteq Of("discovery")
      BY <1>1, <1>5, ResultIsSound
    <2> QED BY <1>5, <2>1 DEF CampaignInv, AnalysisOK, Analysed, Sealed, Of
  <1>7. \A d \in Consoles : pc'[d] \in {"summary", "report", "evaluation"} => Sealed(mem[d])'
    BY <1>1, <1>3, <1>5 DEF CampaignInv, AnalysisOK, Sealed, Of, Moves
  <1>8. \A d \in Consoles : pc'[d] = "evaluation" => mem'[d].opened
    BY <1>3, <1>5 DEF Moves, CampaignInv, AnalysisOK
  <1> QED BY <1>4, <1>6, <1>7, <1>8 DEF CampaignInv, AnalysisOK

(* So is the report; only an opened analysis goes on to its evaluation. *)
LEMMA WriteReportKeeps ==
  ASSUME CampaignInv, NEW c \in Consoles, WriteReport(c)
  PROVE  CampaignInv'
  <1>1. pc[c] = "report" /\ Sealed(mem[c]) /\ IsMemory(mem[c])
    BY DEF WriteReport, CampaignInv, AnalysisOK, ConsolesOK
  <1>2. summary' = summary /\ report' = Result(c) /\ evaluation' = evaluation
    BY DEF WriteReport
  <1>3. /\ Analysed(summary)' /\ Analysed(report)'
        /\ (summary # None)' => Sealed(summary)' /\ (summary.fit \subseteq Of("discovery"))'
        /\ (report # None)' => Sealed(report)'
        /\ (evaluation # None)' => /\ (evaluation.by \in Studies)' /\ Analysed(evaluation.result)'
                                   /\ (evaluation.result.fit \subseteq Of("discovery"))'
    <2>1. Analysed(report') /\ Sealed(report')
      BY <1>1, <1>2, ResultIsSound
    <2> QED BY <1>2, <2>1 DEF CampaignInv, AnalysisOK, Analysed, Sealed, Of
  <1>4. CASE mem[c].opened
    <2>1. c # "scan" /\ mem' = mem
      BY <1>4 DEF CampaignInv, ConsolesOK, Consoles, WriteReport
    <2>2. Counters
      BY <1>4 DEF CampaignInv, WriteReport, ConsolesOK, Counters
    <2>3. Moves(c, "evaluation", mem[c])
      BY <1>4, <2>1, <2>2, GotoMoves DEF CampaignInv, WriteReport, PlacesOf, StudyPlaces
    <2>4. ConsolesOK' /\ RowsOK' /\ CheckpointOK' /\ StudyOK'
      BY <1>1, <2>3, AnalysisMoves DEF WriteReport
    <2>5. \A d \in Consoles : pc'[d] \in {"summary", "report", "evaluation"} => Sealed(mem[d])'
      BY <1>1, <2>1, <2>3 DEF CampaignInv, AnalysisOK, Sealed, Of, Moves
    <2>6. \A d \in Consoles : pc'[d] = "evaluation" => mem'[d].opened
      BY <1>4, <2>1, <2>3 DEF Moves, CampaignInv, AnalysisOK
    <2> QED BY <1>3, <2>4, <2>5, <2>6 DEF CampaignInv, AnalysisOK
  <1>5. CASE ~mem[c].opened
    <2>1. Moves(c, "idle", NoMemory)
      BY <1>5, FinishMoves DEF CampaignInv, ConsolesOK, WriteReport
    <2>2. ConsolesOK' /\ RowsOK' /\ CheckpointOK' /\ StudyOK'
      BY <1>1, <2>1, AnalysisMoves DEF WriteReport
    <2>3. \A d \in Consoles : pc'[d] \in {"summary", "report", "evaluation"} => Sealed(mem[d])'
      BY <2>1 DEF CampaignInv, AnalysisOK, Sealed, Of, Moves
    <2>4. \A d \in Consoles : pc'[d] = "evaluation" => mem'[d].opened
      BY <2>1 DEF Moves, CampaignInv, AnalysisOK
    <2> QED BY <1>3, <2>2, <2>3, <2>4 DEF CampaignInv, AnalysisOK
  <1> QED BY <1>4, <1>5

(* The evaluation is written by a studying console. *)
LEMMA SaveEvaluationKeeps ==
  ASSUME CampaignInv, NEW c \in Consoles, SaveEvaluation(c)
  PROVE  CampaignInv'
  <1>1. pc[c] = "evaluation" /\ Sealed(mem[c]) /\ IsMemory(mem[c])
    BY DEF SaveEvaluation, CampaignInv, AnalysisOK, ConsolesOK
  <1>2. c \in Studies
    BY <1>1 DEF CampaignInv, ConsolesOK, ScanPlaces, Consoles
  <1>3. summary' = summary /\ report' = report /\ evaluation' = [by |-> c, result |-> Result(c)]
    BY DEF SaveEvaluation
  <1>4. /\ Analysed(summary)' /\ Analysed(report)'
        /\ (summary # None)' => Sealed(summary)' /\ (summary.fit \subseteq Of("discovery"))'
        /\ (report # None)' => Sealed(report)'
        /\ (evaluation # None)' => /\ (evaluation.by \in Studies)' /\ Analysed(evaluation.result)'
                                   /\ (evaluation.result.fit \subseteq Of("discovery"))'
    <2>1. /\ evaluation'.by = c /\ evaluation'.result = Result(c)
          /\ Analysed(Result(c)) /\ Result(c).fit \subseteq Of("discovery")
      BY <1>1, <1>3, ResultIsSound
    <2>2. Analysed(evaluation.result)' /\ (evaluation.result.fit \subseteq Of("discovery"))'
      BY <2>1 DEF Analysed, Of
    <2> QED BY <1>2, <1>3, <2>1, <2>2 DEF CampaignInv, AnalysisOK, Analysed, Sealed, Of
  <1>5. Moves(c, "idle", NoMemory)
    BY FinishMoves DEF CampaignInv, ConsolesOK, SaveEvaluation
  <1>6. ConsolesOK' /\ RowsOK' /\ CheckpointOK' /\ StudyOK'
    BY <1>1, <1>5, AnalysisMoves DEF SaveEvaluation
  <1>7. \A d \in Consoles : pc'[d] \in {"summary", "report", "evaluation"} => Sealed(mem[d])'
    BY <1>5 DEF CampaignInv, AnalysisOK, Sealed, Of, Moves
  <1>8. \A d \in Consoles : pc'[d] = "evaluation" => mem'[d].opened
    BY <1>5 DEF Moves, CampaignInv, AnalysisOK
  <1> QED BY <1>4, <1>6, <1>7, <1>8 DEF CampaignInv, AnalysisOK

-----------------------------------------------------------------------------
(* `phase2` and `phase2-refinement`. *)

(* A study under way touches neither the campaign nor its analyses. *)
LEMMA StudyMoves ==
  ASSUME CampaignInv, NEW c \in Studies, NEW place, NEW m, Moves(c, place, m),
         UNCHANGED <<manifest, checkpoint, features, labels, summary, report, evaluation>>,
         place \notin {"join", "summary", "report", "evaluation"}
  PROVE  ConsolesOK' /\ RowsOK' /\ CheckpointOK' /\ AnalysisOK' /\ Complete' = Complete
  <1>0. c \in Consoles /\ c # "scan"
    BY Numbers DEF Consoles
  <1>1. RowsOK' /\ CheckpointOK' /\ Complete' = Complete
    BY <1>0, FilesKept DEF CampaignInv
  <1>2. AnalysisOK'
    BY <1>0, AnalysisKept DEF CampaignInv
  <1> QED BY <1>1, <1>2 DEF Moves

(* A console at a place of a study, with a sound memory, has moved there. *)
LEMMA StudyMoveOK ==
  ASSUME ConsolesOK, NEW c \in Studies, NEW place \in StudyPlaces, NEW m, IsMemory(m), Counters,
         pc' = [pc EXCEPT ![c] = place], mem' = [mem EXCEPT ![c] = m]
  PROVE  Moves(c, place, m)
  <1>1. c \in Consoles /\ c # "scan"
    BY Numbers DEF Consoles
  <1> QED BY <1>1, MoveOK DEF PlacesOf

(* What a console knows of the study stays true when the study grows. *)
LEMMA AtKept ==
  ASSUME NEW c, NEW place, NEW m, NEW p, NEW r, NEW q, AtOK(c, place, m, p, r),
         IsStudy(p) => IsStudy(q) /\ Len(q) >= Len(p), Audited(p) => Audited(q)
  PROVE  AtOK(c, place, m, q, r)
  <1>1. ASSUME place = "artifacts"
        PROVE  IsStudy(q) /\ m.next \in 1..NArtifacts + 1 /\ m.next <= Len(q) + 1
    <2>1. /\ IsStudy(p) /\ m.next \in 1..NArtifacts + 1 /\ m.next <= Len(p) + 1
          /\ IsStudy(q) /\ Len(q) >= Len(p)
      BY <1>1 DEF AtOK
    <2>2. Len(p) \in Nat /\ Len(q) \in Nat /\ m.next \in Int
      BY <2>1 DEF IsStudy
    <2> QED BY <2>1, <2>2
  <1> QED BY <1>1 DEF AtOK

(* The study and its refinement before and after a step of console c: the study only
   grows, the refinement is c's to write. *)
LEMMA StudyStep ==
  ASSUME StudyOK, NEW c \in Studies, NEW place, NEW m, Moves(c, place, m), Complete' = Complete,
         phase2' # None => IsStudy(phase2') /\ Complete,
         IsStudy(phase2) => IsStudy(phase2') /\ Len(phase2') >= Len(phase2),
         Audited(phase2) => Audited(phase2'),
         refinement' # None => /\ IsStudy(refinement') /\ Audited(phase2')
                               /\ \E d \in Studies : AllBy(refinement', d),
         \/ refinement' = refinement
         \/ \A d \in Studies : d # c => pc[d] # "reartifacts",
         AtOK(c, place, m, phase2', refinement'),
         place \in {"publish", "republish"} => Complete,
         place = "reartifacts" => \A d \in Studies : d # c => pc[d] # "reartifacts"
  PROVE  StudyOK'
  <1>1. /\ pc'[c] = place /\ mem'[c] = m
        /\ \A d \in Studies : d # c => pc'[d] = pc[d] /\ mem'[d] = mem[d]
    BY DEF Moves, Consoles
  <1>2. ASSUME NEW d \in Studies
        PROVE  AtOK(d, pc'[d], mem'[d], phase2', refinement')
    <2>1. CASE d = c
      BY <1>1, <2>1
    <2>2. CASE d # c
      <3>1. AtOK(d, pc[d], mem[d], phase2', refinement)
        <4>1. AtOK(d, pc[d], mem[d], phase2, refinement)
          BY DEF StudyOK
        <4> DEFINE p == phase2
                   q == phase2'
        <4>2. IsStudy(p) => IsStudy(q) /\ Len(q) >= Len(p)
          OBVIOUS
        <4>3. Audited(p) => Audited(q)
          OBVIOUS
        <4>4. AtOK(d, pc[d], mem[d], p, refinement)
          BY <4>1
        <4> HIDE DEF p, q
        <4>5. AtOK(d, pc[d], mem[d], q, refinement)
          BY <4>2, <4>3, <4>4, AtKept
        <4> QED BY <4>5 DEF q
      <3>2. AtOK(d, pc[d], mem[d], phase2', refinement')
        BY <2>2, <3>1 DEF AtOK
      <3> QED BY <1>1, <2>2, <3>2
    <2> QED BY <2>1, <2>2
  <1>3. \A d \in Studies : AtOK(d, pc[d], mem[d], phase2, refinement)'
    BY <1>2 DEF AtOK, IsStudy, Audited, AllBy, Of
  <1>4. /\ (phase2 # None)' => IsStudy(phase2)' /\ Complete'
        /\ (refinement # None)' => /\ IsStudy(refinement)' /\ Audited(phase2)'
                                   /\ \E d \in Studies : AllBy(refinement, d)'
    BY DEF IsStudy, Audited, AllBy, Of
  <1>5. \A d \in Studies : pc'[d] \in {"publish", "republish"} => Complete'
    BY <1>1 DEF StudyOK
  <1>6. \A d, e \in Studies : pc'[d] = "reartifacts" /\ pc'[e] = "reartifacts" => d = e
    BY <1>1 DEF StudyOK
  <1> QED BY <1>3, <1>4, <1>5, <1>6 DEF StudyOK

(* The study goes on and publishes nothing. *)
LEMMA StudyGoes ==
  ASSUME StudyOK, NEW c \in Studies, NEW place, NEW m, Moves(c, place, m),
         UNCHANGED <<phase2, refinement>>, Complete' = Complete,
         place \in {"reseal", "rediscovery", "republish"} => Audited(phase2),
         place \in {"publish", "republish"} => Complete /\ m.read = Of("discovery"),
         place \notin {"artifacts", "reartifacts"}
  PROVE  StudyOK'
  <1>1. AtOK(c, place, m, phase2', refinement')
    BY DEF AtOK
  <1>2. /\ phase2' # None => IsStudy(phase2') /\ Complete
        /\ refinement' # None => /\ IsStudy(refinement') /\ Audited(phase2')
                                 /\ \E d \in Studies : AllBy(refinement', d)
        /\ Audited(phase2) => Audited(phase2')
    BY DEF StudyOK
  <1>3. IsStudy(phase2) => IsStudy(phase2') /\ Len(phase2') >= Len(phase2)
    BY DEF IsStudy
  <1> QED BY <1>1, <1>2, <1>3, StudyStep

(* `phase2` where no study is found. *)
LEMMA StartPhase2Keeps ==
  ASSUME CampaignInv, NEW c \in Studies, StartPhase2(c)
  PROVE  CampaignInv'
  <1> DEFINE k == mem[c]
             g == SourceFiles
             m == [k EXCEPT !.digest = g]
  <1>1. IsMemory(k) /\ c \in Consoles
    BY DEF CampaignInv, ConsolesOK, Consoles
  <1>2. mem' = [mem EXCEPT ![c] = m] /\ pc' = [pc EXCEPT ![c] = "seal"]
    BY DEF StartPhase2, Start, Goto
  <1> HIDE DEF k, g
  <1>3. IsMemory(m)
    BY <1>1, UpdateDigest
  <1> HIDE DEF m
  <1>4. Counters
    BY <1>1, StartCounters DEF CampaignInv, StartPhase2, disk, ConsolesOK
  <1>5. Moves(c, "seal", m)
    BY <1>2, <1>3, <1>4, StudyMoveOK DEF CampaignInv, StudyPlaces
  <1>6. ConsolesOK' /\ RowsOK' /\ CheckpointOK' /\ AnalysisOK' /\ Complete' = Complete
    BY <1>5, StudyMoves DEF StartPhase2, disk
  <1>7. StudyOK'
    BY <1>5, <1>6, StudyGoes DEF StartPhase2, disk, CampaignInv
  <1> QED BY <1>6, <1>7 DEF CampaignInv

(* `phase2-refinement` of a study that has its audit.json. *)
LEMMA StartRefinementKeeps ==
  ASSUME CampaignInv, NEW c \in Studies, StartRefinement(c)
  PROVE  CampaignInv'
  <1> DEFINE k == mem[c]
             g == HistoricalFiles
             m == [k EXCEPT !.digest = g]
  <1>1. IsMemory(k) /\ c \in Consoles
    BY DEF CampaignInv, ConsolesOK, Consoles
  <1>2. mem' = [mem EXCEPT ![c] = m] /\ pc' = [pc EXCEPT ![c] = "reseal"]
    BY DEF StartRefinement, Start, Goto
  <1> HIDE DEF k, g
  <1>3. IsMemory(m)
    BY <1>1, UpdateDigest
  <1> HIDE DEF m
  <1>4. Counters
    BY <1>1, StartCounters DEF CampaignInv, StartRefinement, disk, ConsolesOK
  <1>5. Moves(c, "reseal", m)
    BY <1>2, <1>3, <1>4, StudyMoveOK DEF CampaignInv, StudyPlaces
  <1>6. ConsolesOK' /\ RowsOK' /\ CheckpointOK' /\ AnalysisOK' /\ Complete' = Complete
    BY <1>5, StudyMoves DEF StartRefinement, disk
  <1>7. Audited(phase2)
    BY DEF StartRefinement
  <1>8. StudyOK'
    BY <1>5, <1>6, <1>7, StudyGoes DEF StartRefinement, disk, CampaignInv
  <1> QED BY <1>6, <1>8 DEF CampaignInv

(* The seal of the holdout is looked at. *)
LEMMA CheckSealKeeps ==
  ASSUME CampaignInv, NEW c \in Studies, NEW from, NEW to, CheckSeal(c, from, to),
         <<from, to>> \in {<<"seal", "discovery">>, <<"reseal", "rediscovery">>}
  PROVE  CampaignInv'
  <1>0. c \in Consoles /\ c # "scan" /\ to \in StudyPlaces
    BY Numbers DEF Consoles, StudyPlaces
  <1>1. CASE summary.opened
    <2>1. Finish(c, "failed")
      BY <1>1 DEF CheckSeal
    <2> QED BY <1>0, <2>1, FinishKeeps DEF CheckSeal, CampaignInv, ConsolesOK
  <1>2. CASE ~summary.opened
    <2>1. Counters
      BY <1>2 DEF CampaignInv, CheckSeal, ConsolesOK, Counters, disk
    <2>2. Moves(c, to, mem[c])
      BY <1>0, <1>2, <2>1, GotoMoves DEF CampaignInv, CheckSeal, PlacesOf
    <2>3. ConsolesOK' /\ RowsOK' /\ CheckpointOK' /\ AnalysisOK' /\ Complete' = Complete
      BY <2>2, StudyMoves DEF CheckSeal, disk
    <2>4. to = "rediscovery" => Audited(phase2)
      BY DEF CheckSeal, CampaignInv, StudyOK, AtOK
    <2>5. StudyOK'
      BY <2>2, <2>3, <2>4, StudyGoes DEF CheckSeal, disk, CampaignInv
    <2> QED BY <2>3, <2>5 DEF CampaignInv
  <1> QED BY <1>1, <1>2

(* A complete campaign that can be read has a label for every discovery block. *)
LEMMA LoadDiscoveryKeeps ==
  ASSUME CampaignInv, NEW c \in Studies, NEW from, NEW to, LoadDiscovery(c, from, to),
         <<from, to>> \in {<<"discovery", "publish">>, <<"rediscovery", "republish">>}
  PROVE  CampaignInv'
  <1>0. c \in Consoles /\ c # "scan" /\ to \in StudyPlaces
    BY Numbers DEF Consoles, StudyPlaces
  <1>1. CASE ~DiscoveryLoads
    <2>1. Finish(c, "failed")
      BY <1>1 DEF LoadDiscovery
    <2> QED BY <1>0, <2>1, FinishKeeps DEF LoadDiscovery, CampaignInv, ConsolesOK
  <1>2. CASE DiscoveryLoads
    <2> DEFINE k == mem[c]
               S == RowsOf(labels) \cap Of("discovery")
               m == [k EXCEPT !.read = S]
    <2>1. Complete /\ RowsOf(labels) = Blocks
      BY <1>2, ReadableRows DEF DiscoveryLoads, Complete, CampaignInv, CheckpointOK, RowsOK
    <2>2. IsMemory(k) /\ S \in SUBSET Blocks /\ S = Of("discovery")
      BY <1>0, <2>1 DEF CampaignInv, ConsolesOK, Of
    <2>3. mem' = [mem EXCEPT ![c] = m] /\ pc' = [pc EXCEPT ![c] = to]
      BY <1>2 DEF LoadDiscovery, Goto
    <2> HIDE DEF k, S
    <2>4. IsMemory(m) /\ m.read = S
      BY <2>2, UpdateRead
    <2> HIDE DEF m
    <2>5. Counters
      BY <1>2 DEF LoadDiscovery, CampaignInv, ConsolesOK, Counters, disk
    <2>7. Moves(c, to, m)
      BY <1>0, <2>3, <2>4, <2>5, StudyMoveOK DEF CampaignInv
    <2>8. ConsolesOK' /\ RowsOK' /\ CheckpointOK' /\ AnalysisOK' /\ Complete' = Complete
      BY <2>7, StudyMoves DEF LoadDiscovery, disk
    <2>9. to = "republish" => Audited(phase2)
      BY DEF LoadDiscovery, CampaignInv, StudyOK, AtOK
    <2>10. StudyOK'
      BY <2>1, <2>2, <2>4, <2>7, <2>8, <2>9, StudyGoes DEF LoadDiscovery, disk, CampaignInv
    <2> QED BY <2>8, <2>10 DEF CampaignInv
  <1> QED BY <1>1, <1>2

(* An empty directory is a study without files. *)
LEMMA EmptyStudy ==
  ASSUME NEW c
  PROVE  IsStudy(<<>>) /\ Len(<<>>) = 0 /\ AllBy(<<>>, c)
  <1>1. <<>> \in Seq(Artifact) /\ Len(<<>>) = 0
    OBVIOUS
  <1>2. <<>> # None
    BY <1>1, CampaignAssumption
  <1>3. 0 <= NArtifacts + 1
    BY Numbers
  <1> QED BY <1>1, <1>2, <1>3 DEF IsStudy, AllBy

(* A command that goes on to its files is at the first of them. *)
LEMMA WriteFromMoves ==
  ASSUME CampaignInv, NEW c \in Studies, NEW place \in StudyPlaces, WriteFrom(c, place),
         UNCHANGED <<manifest, commands, crashes>>
  PROVE  /\ Moves(c, place, [mem[c] EXCEPT !.next = 1])
         /\ [mem[c] EXCEPT !.next = 1].next = 1
         /\ [mem[c] EXCEPT !.next = 1].read = mem[c].read
  <1> DEFINE k == mem[c]
             n == 1
             m == [k EXCEPT !.next = n]
  <1>1. IsMemory(k) /\ n \in 0..NArtifacts + 1
    <2>1. c \in Consoles
      BY DEF Consoles
    <2>2. ConsolesOK
      BY DEF CampaignInv
    <2>3. IsMemory(k)
      BY <2>1, <2>2 DEF ConsolesOK
    <2>4. NArtifacts \in Nat
      BY Numbers
    <2>5. n \in 0..NArtifacts + 1
      BY <2>4
    <2> QED BY <2>3, <2>5
  <1>2. mem' = [mem EXCEPT ![c] = m] /\ pc' = [pc EXCEPT ![c] = place]
    BY DEF WriteFrom, Goto
  <1>3. Counters
    BY DEF CampaignInv, ConsolesOK, Counters, WriteFrom
  <1> HIDE DEF k, n
  <1>4. IsMemory(m) /\ m.next = n /\ m.read = k.read
    BY <1>1, UpdateNext
  <1> HIDE DEF m
  <1>5. Moves(c, place, m)
    BY <1>2, <1>3, <1>4, StudyMoveOK DEF CampaignInv
  <1> QED BY <1>4, <1>5 DEF m, k, n

(* The directory of a study is made, or is there. *)
LEMMA PublishPhase2Keeps ==
  ASSUME CampaignInv, NEW c \in Studies, PublishPhase2(c)
  PROVE  CampaignInv'
  <1>1. CASE SourceFiles # mem[c].digest
    <2>1. Finish(c, "failed") /\ c \in Consoles
      BY <1>1 DEF PublishPhase2, Consoles
    <2>2. UNCHANGED disk
      BY <1>1 DEF PublishPhase2, disk
    <2> QED BY <2>1, <2>2, FinishKeeps DEF PublishPhase2, CampaignInv, ConsolesOK
  <1>2. CASE SourceFiles = mem[c].digest
    <2> DEFINE m == [mem[c] EXCEPT !.next = 1]
    <2>1. Moves(c, "artifacts", m) /\ m.next = 1 /\ m.read = mem[c].read
      BY <1>2, WriteFromMoves DEF PublishPhase2, StudyPlaces
    <2> HIDE DEF m
    <2>3. ConsolesOK' /\ RowsOK' /\ CheckpointOK' /\ AnalysisOK' /\ Complete' = Complete
      BY <2>1, StudyMoves DEF PublishPhase2
    <2>4. /\ phase2' = IF phase2 = None THEN <<>> ELSE phase2
          /\ refinement' = refinement
      BY <1>2 DEF PublishPhase2
    <2>5. /\ Complete /\ mem[c].read = Of("discovery")
          /\ phase2 # None => IsStudy(phase2)
          /\ refinement # None => /\ IsStudy(refinement) /\ Audited(phase2)
                                  /\ \E d \in Studies : AllBy(refinement, d)
      BY DEF CampaignInv, StudyOK, AtOK, PublishPhase2
    <2>6. IsStudy(phase2')
      BY <2>4, <2>5, EmptyStudy
    <2>7. /\ IsStudy(phase2) => IsStudy(phase2') /\ Len(phase2') >= Len(phase2)
          /\ Audited(phase2) => Audited(phase2')
      BY <2>4, <2>6 DEF IsStudy, Audited
    <2>8. AtOK(c, "artifacts", m, phase2', refinement')
      <3>1. Len(phase2') \in Nat
        BY <2>6 DEF IsStudy
      <3> QED BY <2>1, <2>5, <2>6, <3>1, Numbers DEF AtOK
    <2>9. StudyOK'
      BY <2>1, <2>3, <2>4, <2>5, <2>6, <2>7, <2>8, StudyStep DEF CampaignInv
    <2> QED BY <2>3, <2>9 DEF CampaignInv
  <1> QED BY <1>1, <1>2

(* The directory of a refinement is made where there is none, so nobody fills it yet. *)
LEMMA PublishRefinementKeeps ==
  ASSUME CampaignInv, NEW c \in Studies, PublishRefinement(c)
  PROVE  CampaignInv'
  <1>1. CASE ~(HistoricalFiles = mem[c].digest /\ refinement = None)
    <2>1. Finish(c, "failed") /\ c \in Consoles
      BY <1>1 DEF PublishRefinement, Consoles
    <2>2. UNCHANGED disk
      BY <1>1 DEF PublishRefinement, disk
    <2> QED BY <2>1, <2>2, FinishKeeps DEF PublishRefinement, CampaignInv, ConsolesOK
  <1>2. CASE HistoricalFiles = mem[c].digest /\ refinement = None
    <2> DEFINE m == [mem[c] EXCEPT !.next = 1]
    <2>1. Moves(c, "reartifacts", m) /\ m.next = 1 /\ m.read = mem[c].read
      BY <1>2, WriteFromMoves DEF PublishRefinement, StudyPlaces
    <2> HIDE DEF m
    <2>3. ConsolesOK' /\ RowsOK' /\ CheckpointOK' /\ AnalysisOK' /\ Complete' = Complete
      BY <2>1, StudyMoves DEF PublishRefinement
    <2>4. refinement' = <<>> /\ phase2' = phase2
      BY <1>2 DEF PublishRefinement
    <2>5. /\ mem[c].read = Of("discovery") /\ Audited(phase2)
          /\ phase2 # None => IsStudy(phase2) /\ Complete
      BY DEF CampaignInv, StudyOK, AtOK, PublishRefinement
    <2>6. IsStudy(refinement') /\ AllBy(refinement', c) /\ Len(refinement') = 0
      BY <2>4, EmptyStudy
    <2>7. \A d \in Studies : d # c => pc[d] # "reartifacts"
      BY <1>2 DEF CampaignInv, StudyOK, AtOK, IsStudy
    <2>8. AtOK(c, "reartifacts", m, phase2', refinement')
      <3>1. 1 \in 1..NArtifacts + 1
        BY Numbers
      <3>2. m.next = Len(refinement') + 1
        BY <2>1, <2>6
      <3> QED BY <2>1, <2>4, <2>5, <2>6, <3>1, <3>2 DEF AtOK
    <2>9. /\ IsStudy(phase2) => IsStudy(phase2') /\ Len(phase2') >= Len(phase2)
          /\ Audited(phase2) => Audited(phase2')
      BY <2>4 DEF IsStudy
    <2>10. StudyOK'
      BY <2>1, <2>3, <2>4, <2>5, <2>6, <2>7, <2>8, <2>9, StudyStep DEF CampaignInv
    <2> QED BY <2>3, <2>10 DEF CampaignInv
  <1> QED BY <1>1, <1>2

(* One file of a study is replaced, or one added. *)
LEMMA FileWritten ==
  ASSUME NEW c \in Studies, NEW dir, IsStudy(dir), mem[c].read = Of("discovery"),
         mem[c].next \in 1..NArtifacts + 1, mem[c].next <= Len(dir) + 1
  PROVE  /\ IsStudy(WithFile(dir, c)) /\ Len(WithFile(dir, c)) >= Len(dir)
         /\ Len(WithFile(dir, c)) >= mem[c].next
         /\ mem[c].next = Len(dir) + 1 => Len(WithFile(dir, c)) = Len(dir) + 1
         /\ AllBy(dir, c) => AllBy(WithFile(dir, c), c)
  <1> DEFINE n == mem[c].next
             file == [by |-> c, from |-> mem[c].read]
             new == WithFile(dir, c)
  <1>1. file \in Artifact /\ file.by = c /\ file.from = Of("discovery")
    BY DEF Artifact, Of
  <1>2. /\ dir \in Seq(Artifact) /\ Len(dir) \in Nat /\ Len(dir) <= NArtifacts + 1
        /\ \A i \in 1..Len(dir) : dir[i].from = Of("discovery")
        /\ n \in 1..NArtifacts + 1 /\ n <= Len(dir) + 1 /\ n \in Int
    BY DEF IsStudy
  <1>3. new = IF n <= Len(dir) THEN [dir EXCEPT ![n] = file] ELSE Append(dir, file)
    BY DEF WithFile
  <1> HIDE DEF new, file, n
  <1>4. CASE n <= Len(dir)
    <2>1. n \in 1..Len(dir) /\ n # Len(dir) + 1
      BY <1>2, <1>4
    <2>2. /\ new \in Seq(Artifact) /\ Len(new) = Len(dir) /\ new[n] = file
          /\ \A i \in 1..Len(dir) : i # n => new[i] = dir[i]
      BY <1>1, <1>2, <1>3, <1>4, <2>1
    <2>3. new # None
      BY <2>2, CampaignAssumption
    <2>4. \A i \in 1..Len(new) : new[i].from = Of("discovery")
      BY <1>1, <1>2, <2>2
    <2>5. AllBy(dir, c) => AllBy(new, c)
      BY <1>1, <2>2 DEF AllBy
    <2>6. IsStudy(new) /\ Len(new) >= Len(dir) /\ Len(new) >= n
      BY <1>2, <1>4, <2>2, <2>3, <2>4 DEF IsStudy
    <2> QED BY <2>1, <2>5, <2>6 DEF new, n
  <1>5. CASE ~(n <= Len(dir))
    <2>1. n = Len(dir) + 1 /\ Len(dir) + 1 <= NArtifacts + 1
      BY <1>2, <1>5, Numbers
    <2>2. /\ new \in Seq(Artifact) /\ Len(new) = Len(dir) + 1 /\ new[Len(dir) + 1] = file
          /\ \A i \in 1..Len(dir) : new[i] = dir[i]
      BY <1>1, <1>2, <1>3, <1>5, AppendProperties
    <2>3. new # None
      BY <2>2, CampaignAssumption
    <2>4. \A i \in 1..Len(new) : i \in 1..Len(dir) \/ i = Len(dir) + 1
      BY <1>2, <2>2
    <2>5. \A i \in 1..Len(new) : new[i].from = Of("discovery")
      BY <1>1, <1>2, <2>2, <2>4
    <2>6. AllBy(dir, c) => AllBy(new, c)
      BY <1>1, <2>2, <2>4 DEF AllBy
    <2>7. IsStudy(new)
      BY <2>1, <2>2, <2>3, <2>5 DEF IsStudy
    <2>8. Len(new) >= Len(dir) /\ Len(new) >= n
      BY <1>2, <2>1, <2>2
    <2> QED BY <2>2, <2>6, <2>7, <2>8 DEF new, n
  <1> QED BY <1>4, <1>5

(* The console goes on to the next file, or the last one ends its command. *)
LEMMA WriteMoves ==
  ASSUME CampaignInv, NEW c \in Studies, mem[c].next \in 1..NArtifacts + 1, OneFileMore(c),
         UNCHANGED <<manifest, commands, crashes>>
  PROVE  \/ Moves(c, "idle", NoMemory)
         \/ /\ mem[c].next + 1 \in 1..NArtifacts + 1
            /\ \E m : /\ Moves(c, pc[c], m) /\ m.read = mem[c].read
                      /\ m.next = mem[c].next + 1
  <1>0. c \in Consoles
    BY DEF Consoles
  <1>1. CASE mem[c].next = NArtifacts + 1
    <2>1. Finish(c, "ok")
      BY <1>1 DEF OneFileMore
    <2>2. Moves(c, "idle", NoMemory)
      BY <1>0, <2>1, FinishMoves DEF CampaignInv, ConsolesOK
    <2> QED BY <2>2
  <1>2. CASE mem[c].next # NArtifacts + 1
    <2> DEFINE k == mem[c]
               n == k.next + 1
               m == [k EXCEPT !.next = n]
    <2>1. k.next + 1 \in 1..NArtifacts + 1 /\ n \in 0..NArtifacts + 1
      BY <1>2, Numbers
    <2>2. IsMemory(k) /\ pc[c] \in StudyPlaces
      BY <1>0 DEF CampaignInv, ConsolesOK
    <2>3. mem' = [mem EXCEPT ![c] = m] /\ pc' = pc /\ exit' = exit
      BY <1>2 DEF OneFileMore
    <2>4. pc' = [pc EXCEPT ![c] = pc[c]]
      BY <2>3 DEF CampaignInv, ConsolesOK
    <2>5. Counters
      BY <2>3 DEF CampaignInv, ConsolesOK, Counters
    <2>a. n = mem[c].next + 1 /\ k = mem[c]
      OBVIOUS
    <2> HIDE DEF k, n
    <2>6. IsMemory(m) /\ m.next = n /\ m.read = k.read
      BY <2>1, <2>2, UpdateNext
    <2> HIDE DEF m
    <2>7. Moves(c, pc[c], m)
      BY <2>2, <2>3, <2>4, <2>5, <2>6, StudyMoveOK DEF CampaignInv
    <2> QED BY <2>1, <2>6, <2>7, <2>a
  <1> QED BY <1>1, <1>2

(* A file of a study. *)
LEMMA WritePhase2Keeps ==
  ASSUME CampaignInv, NEW c \in Studies, WritePhase2(c)
  PROVE  CampaignInv'
  <1>1. /\ pc[c] = "artifacts" /\ IsStudy(phase2) /\ mem[c].read = Of("discovery")
        /\ mem[c].next \in 1..NArtifacts + 1 /\ mem[c].next <= Len(phase2) + 1
    BY DEF CampaignInv, StudyOK, AtOK, WritePhase2
  <1>2. phase2' = WithFile(phase2, c) /\ refinement' = refinement
    BY DEF WritePhase2
  <1>3. /\ IsStudy(phase2') /\ Len(phase2') >= Len(phase2) /\ Len(phase2') >= mem[c].next
        /\ Len(phase2) \in Nat /\ Len(phase2') \in Nat /\ Len(phase2') <= NArtifacts + 1
    BY <1>1, <1>2, FileWritten DEF IsStudy
  <1>4. Complete
    BY <1>1 DEF IsStudy, CampaignInv, StudyOK
  <1>5. Audited(phase2) => Audited(phase2')
    BY <1>3, Numbers DEF Audited, IsStudy
  <1>6. refinement' # None => /\ IsStudy(refinement') /\ Audited(phase2')
                              /\ \E d \in Studies : AllBy(refinement', d)
    BY <1>2, <1>5 DEF CampaignInv, StudyOK
  <1>7. ASSUME NEW place, NEW m, Moves(c, place, m), place \in {"idle", "artifacts"},
               AtOK(c, place, m, phase2', refinement')
        PROVE  CampaignInv'
    <2>1. ConsolesOK' /\ RowsOK' /\ CheckpointOK' /\ AnalysisOK' /\ Complete' = Complete
      BY <1>7, StudyMoves DEF WritePhase2
    <2>2. StudyOK'
      BY <1>2, <1>3, <1>4, <1>5, <1>6, <1>7, <2>1, StudyStep DEF CampaignInv
    <2> QED BY <2>1, <2>2 DEF CampaignInv
  <1>8. \/ Moves(c, "idle", NoMemory)
        \/ /\ mem[c].next + 1 \in 1..NArtifacts + 1
           /\ \E m : /\ Moves(c, pc[c], m) /\ m.read = mem[c].read
                     /\ m.next = mem[c].next + 1
    BY <1>1, WriteMoves DEF WritePhase2
  <1>9. CASE Moves(c, "idle", NoMemory)
    <2>1. AtOK(c, "idle", NoMemory, phase2', refinement')
      BY DEF AtOK
    <2> QED BY <1>7, <1>9, <2>1
  <1>10. CASE /\ mem[c].next + 1 \in 1..NArtifacts + 1
              /\ \E m : /\ Moves(c, pc[c], m) /\ m.read = mem[c].read
                        /\ m.next = mem[c].next + 1
    <2>1. PICK m : /\ Moves(c, "artifacts", m) /\ m.read = mem[c].read
                   /\ m.next = mem[c].next + 1
      BY <1>1, <1>10
    <2>2. m.next \in 1..NArtifacts + 1 /\ m.next <= Len(phase2') + 1
      BY <1>1, <1>3, <1>10, <2>1
    <2>3. AtOK(c, "artifacts", m, phase2', refinement')
      BY <1>1, <1>3, <2>1, <2>2 DEF AtOK
    <2> QED BY <1>7, <2>1, <2>3
  <1> QED BY <1>8, <1>9, <1>10

(* A file of a refinement, by the only console that fills its directory. *)
LEMMA WriteRefinementKeeps ==
  ASSUME CampaignInv, NEW c \in Studies, WriteRefinement(c)
  PROVE  CampaignInv'
  <1>1. /\ pc[c] = "reartifacts" /\ IsStudy(refinement) /\ mem[c].read = Of("discovery")
        /\ mem[c].next \in 1..NArtifacts + 1 /\ mem[c].next = Len(refinement) + 1
        /\ AllBy(refinement, c) /\ Audited(phase2)
        /\ phase2 # None => IsStudy(phase2) /\ Complete
        /\ \A d \in Studies : d # c => pc[d] # "reartifacts"
    BY DEF CampaignInv, StudyOK, AtOK, WriteRefinement
  <1>2. refinement' = WithFile(refinement, c) /\ phase2' = phase2
    BY DEF WriteRefinement
  <1>3. /\ IsStudy(refinement') /\ AllBy(refinement', c)
        /\ Len(refinement') = Len(refinement) + 1 /\ Len(refinement) \in Nat
    <2>1. mem[c].next <= Len(refinement) + 1 /\ Len(refinement) \in Nat
      BY <1>1 DEF IsStudy
    <2> QED BY <1>1, <1>2, <2>1, FileWritten
  <1>4. /\ IsStudy(phase2) => IsStudy(phase2') /\ Len(phase2') >= Len(phase2)
        /\ Audited(phase2) => Audited(phase2')
    BY <1>2 DEF IsStudy
  <1>7. ASSUME NEW place, NEW m, Moves(c, place, m), place \in {"idle", "reartifacts"},
               AtOK(c, place, m, phase2', refinement')
        PROVE  CampaignInv'
    <2>1. ConsolesOK' /\ RowsOK' /\ CheckpointOK' /\ AnalysisOK' /\ Complete' = Complete
      BY <1>7, StudyMoves DEF WriteRefinement
    <2>2. StudyOK'
      BY <1>1, <1>2, <1>3, <1>4, <1>7, <2>1, StudyStep DEF CampaignInv
    <2> QED BY <2>1, <2>2 DEF CampaignInv
  <1>8. \/ Moves(c, "idle", NoMemory)
        \/ /\ mem[c].next + 1 \in 1..NArtifacts + 1
           /\ \E m : /\ Moves(c, pc[c], m) /\ m.read = mem[c].read
                     /\ m.next = mem[c].next + 1
    BY <1>1, WriteMoves DEF WriteRefinement
  <1>9. CASE Moves(c, "idle", NoMemory)
    <2>1. AtOK(c, "idle", NoMemory, phase2', refinement')
      BY DEF AtOK
    <2> QED BY <1>7, <1>9, <2>1
  <1>10. CASE /\ mem[c].next + 1 \in 1..NArtifacts + 1
              /\ \E m : /\ Moves(c, pc[c], m) /\ m.read = mem[c].read
                        /\ m.next = mem[c].next + 1
    <2>1. PICK m : /\ Moves(c, "reartifacts", m) /\ m.read = mem[c].read
                   /\ m.next = mem[c].next + 1
      BY <1>1, <1>10
    <2>2. m.next \in 1..NArtifacts + 1 /\ m.next = Len(refinement') + 1
      BY <1>1, <1>3, <1>10, <2>1
    <2>3. AtOK(c, "reartifacts", m, phase2', refinement')
      BY <1>1, <1>2, <1>3, <2>1, <2>2 DEF AtOK
    <2> QED BY <1>7, <2>1, <2>3
  <1> QED BY <1>8, <1>9, <1>10

-----------------------------------------------------------------------------
(* The theorems. *)

(* Nothing exists at first. *)
LEMMA InitHolds ==
  ASSUME Init
  PROVE  CampaignInv
  <1>1. IsMemory(NoMemory) /\ NoMemory.opened = FALSE
    BY Numbers DEF IsMemory, NoMemory
  <1>2. ConsolesOK
    <2>1. /\ DOMAIN commands = Consoles /\ \A c \in Consoles : commands[c] \in 0..MaxCommands[c]
          /\ crashes \in 0..MaxCrashes
      BY Numbers DEF Init
    <2>2. /\ pc \in [Consoles -> Place] /\ pc["scan"] \in ScanPlaces
          /\ \A c \in Studies : pc[c] \in StudyPlaces
      BY DEF Init, Consoles, Place, ScanPlaces, StudyPlaces
    <2>3. mem = [c \in Consoles |-> mem[c]] /\ \A c \in Consoles : mem[c] = NoMemory
      BY DEF Init
    <2>4. "scan" \in Consoles
      BY DEF Consoles
    <2>5. (\A c \in Consoles : IsMemory(mem[c])) /\ mem["scan"].opened = FALSE
      BY <1>1, <2>3, <2>4
    <2>6. manifest \in BOOLEAN /\ exit \in {"none", "ok", "failed", "refused", "killed"}
      BY DEF Init
    <2> QED BY <2>1, <2>2, <2>3, <2>5, <2>6 DEF ConsolesOK
  <1>3. FileOK(NoLines)
    <2>1. NoLines = [lines |-> <<>>, open |-> FALSE] /\ NoLines \in JsonFile
      BY DEF NoLines, JsonFile
    <2>2. Len(NoLines.lines) = 0 /\ NoLines.open = FALSE
      BY <2>1
    <2> QED BY <2>1, <2>2 DEF FileOK
  <1>4. RowsOK
    BY <1>3 DEF Init, RowsOK, Scanning, Consoles
  <1>5. CheckpointOK
    BY DEF Init, CheckpointOK, Complete, Consoles
  <1>6. AnalysisOK
    BY DEF Init, AnalysisOK, Analysed, Consoles
  <1>7. StudyOK
    BY DEF Init, StudyOK, AtOK, Consoles
  <1> QED BY <1>2, <1>4, <1>5, <1>6, <1>7 DEF CampaignInv

(* Any step of an analysis. *)
LEMMA AnalyzeStepKeeps ==
  ASSUME CampaignInv, NEW c \in Consoles, AnalyzeStep(c)
  PROVE  CampaignInv'
  BY AnalyzeFeaturesKeeps, AnalyzeLabelsKeeps, SaveSummaryKeeps, WriteReportKeeps,
     SaveEvaluationKeeps DEF AnalyzeStep

(* Any other step of a studying console. *)
LEMMA StudyStepKeeps ==
  ASSUME CampaignInv, NEW c \in Studies, Study(c)
  PROVE  CampaignInv'
  <1>1. ASSUME NEW open \in BOOLEAN, Analyze(c, open)
        PROVE  CampaignInv'
    BY <1>1, AnalyzeKeeps
  <1>2. CASE StartPhase2(c)
    BY <1>2, StartPhase2Keeps
  <1>3. CASE CheckSeal(c, "seal", "discovery")
    BY <1>3, CheckSealKeeps
  <1>4. CASE LoadDiscovery(c, "discovery", "publish")
    BY <1>4, LoadDiscoveryKeeps
  <1>5. CASE PublishPhase2(c)
    BY <1>5, PublishPhase2Keeps
  <1>6. CASE WritePhase2(c)
    BY <1>6, WritePhase2Keeps
  <1>7. CASE StartRefinement(c)
    BY <1>7, StartRefinementKeeps
  <1>8. CASE CheckSeal(c, "reseal", "rediscovery")
    BY <1>8, CheckSealKeeps
  <1>9. CASE LoadDiscovery(c, "rediscovery", "republish")
    BY <1>9, LoadDiscoveryKeeps
  <1>10. CASE PublishRefinement(c)
    BY <1>10, PublishRefinementKeeps
  <1>11. CASE WriteRefinement(c)
    BY <1>11, WriteRefinementKeeps
  <1> QED BY <1>1, <1>2, <1>3, <1>4, <1>5, <1>6, <1>7, <1>8, <1>9, <1>10, <1>11 DEF Study

(* Any step. *)
LEMMA StepKeeps ==
  ASSUME CampaignInv, [Next]_vars
  PROVE  CampaignInv'
  <1>1. CASE CreateManifest \/ Resume \/ ScanFails
    BY <1>1, CreateManifestKeeps, ResumeKeeps, ScanFailsKeeps
  <1>2. CASE Scan
    BY <1>2, CreateCheckpointKeeps, LoadProgressKeeps, AppendFeatureKeeps, AppendLabelKeeps,
       SaveCheckpointKeeps, ScanDoneKeeps DEF Scan
  <1>3. ASSUME NEW c \in Consoles, AnalyzeStep(c) \/ Crash(c)
        PROVE  CampaignInv'
    BY <1>3, AnalyzeStepKeeps, CrashKeeps
  <1>4. ASSUME NEW c \in Studies, Study(c)
        PROVE  CampaignInv'
    BY <1>4, StudyStepKeeps
  <1>5. CASE TearFeature \/ TearLabel
    BY <1>5, TearFeatureKeeps, TearLabelKeeps
  <1>6. CASE UNCHANGED vars
    <2>1. UNCHANGED <<manifest, checkpoint, features, labels, summary, report, evaluation, phase2,
                      refinement, pc, mem, exit, commands, crashes>>
      BY <1>6 DEF vars, disk
    <2>2. ConsolesOK'
      BY <2>1 DEF CampaignInv, ConsolesOK, IsMemory
    <2>3. RowsOK'
      BY <2>1, RowsFrame DEF CampaignInv, Scanning
    <2>4. CheckpointOK' /\ Complete' = Complete
      BY <2>1, CheckpointFrame DEF CampaignInv, CheckpointOK
    <2>5. AnalysisOK'
      BY <2>1, AnalysisFrame DEF CampaignInv
    <2>6. StudyOK'
      BY <2>1, <2>4, StudyFrame DEF CampaignInv
    <2> QED BY <2>2, <2>3, <2>4, <2>5, <2>6 DEF CampaignInv
  <1> QED BY <1>1, <1>2, <1>3, <1>4, <1>5, <1>6 DEF Next

(* The invariant of the campaign holds, whatever commands are run on any consoles
   and wherever they are killed. *)
THEOREM CampaignInvariant == Spec => []CampaignInv
  <1>1. Init => CampaignInv
    BY InitHolds
  <1>2. CampaignInv /\ [Next]_vars => CampaignInv'
    BY StepKeeps
  <1> QED BY <1>1, <1>2, PTL DEF Spec

(* run_campaign writes the PRE_SCAN row and the label of a block once, in this order, and
   checkpoint.json never counts more than block_labels.jsonl holds. *)
THEOREM RowsInvHolds == Spec => []RowsInv
  <1>1. CampaignInv => RowsInv
    <2> SUFFICES ASSUME CampaignInv
                 PROVE  RowsInv
      OBVIOUS
    <2>1. ASSUME NEW f, FileOK(f)
          PROVE  JsonLines(f) /\ \A b \in Blocks : Cardinality(Copies(f, b)) <= 1
      BY <2>1, OneCopy DEF FileOK, JsonFile, JsonLines
    <2>2. JsonLines(features) /\ JsonLines(labels) /\ ScannedOnce
      BY <2>1 DEF CampaignInv, RowsOK, ScannedOnce
    <2>3. Directory(phase2) /\ Directory(refinement)
      BY DEF CampaignInv, StudyOK, IsStudy, Directory
    <2>4. DOMAIN mem = Consoles
      BY DEF CampaignInv, ConsolesOK
    <2>5. \A c \in Consoles : /\ mem[c].done \subseteq Blocks /\ mem[c].read \subseteq Blocks
                              /\ mem[c].featured \subseteq Blocks /\ mem[c].opened \in BOOLEAN
                              /\ mem[c].next \in 0..NArtifacts + 1
                              /\ commands[c] \in 0..MaxCommands[c]
      BY DEF CampaignInv, ConsolesOK, IsMemory
    <2>6. TypeOK
      BY <2>2, <2>3, <2>4, <2>5 DEF TypeOK, CampaignInv, ConsolesOK, CheckpointOK, Checkpoint, AnalysisOK
    <2>7. CheckpointNotAhead
      BY DEF CampaignInv, CheckpointOK, CheckpointNotAhead
    <2> QED BY <2>2, <2>6, <2>7 DEF RowsInv
  <1> QED BY <1>1, CampaignInvariant, PTL

(* What is said of every place in the directory is true of its files. *)
LEMMA FilesOfStudy ==
  ASSUME NEW dir, IsStudy(dir)
  PROVE  /\ \A file \in Range(dir) : file.from = Of("discovery")
         /\ \A c : AllBy(dir, c) => \A file \in Range(dir) : file.by = c
  <1>1. DOMAIN dir = 1..Len(dir)
    BY DEF IsStudy
  <1>2. \A file \in Range(dir) : \E i \in 1..Len(dir) : file = dir[i]
    BY <1>1 DEF Range
  <1> QED BY <1>2 DEF IsStudy, AllBy

(* No label of the sealed holdout is read by an analysis, and none outside discovery
   reaches the fitted model or an artifact of Phase 2. *)
THEOREM PartitionBarrierHolds == Spec => []PartitionBarrier
  <1>1. CampaignInv => PartitionBarrier
    <2> SUFFICES ASSUME CampaignInv
                 PROVE  PartitionBarrier
      OBVIOUS
    <2>1. \A dir \in {phase2, refinement} \ {None} :
            \A file \in Range(dir) : file.from \subseteq Of("discovery")
      BY FilesOfStudy DEF CampaignInv, StudyOK
    <2> QED BY <2>1 DEF CampaignInv, AnalysisOK, Sealed, PartitionBarrier
  <1> QED BY <1>1, CampaignInvariant, PTL

(* Every file of a study is made from every discovery block of a complete campaign; a
   study is refined only when it has its audit.json, and by one command. *)
THEOREM StudyIsWholeHolds == Spec => []StudyIsWhole
  <1>1. CampaignInv => StudyIsWhole
    <2> SUFFICES ASSUME CampaignInv
                 PROVE  StudyIsWhole
      OBVIOUS
    <2>1. \A dir \in {phase2, refinement} \ {None} :
            \A file \in Range(dir) : file.from = Of("discovery")
      BY FilesOfStudy DEF CampaignInv, StudyOK
    <2>2. refinement # None => \A file, other \in Range(refinement) : file.by = other.by
      BY FilesOfStudy DEF CampaignInv, StudyOK
    <2> QED BY <2>1, <2>2 DEF CampaignInv, StudyOK, Complete, StudyIsWhole
  <1> QED BY <1>1, CampaignInvariant, PTL

(* What was final before a step is there after it, and still final. *)
Final ==
  /\ EvaluationSettled => evaluation' = evaluation /\ EvaluationSettled'
  /\ Phase2Settled => phase2' = phase2 /\ Phase2Settled'
  /\ Audited(refinement) => refinement' = refinement

Evaluations == {"join", "summary", "report", "evaluation"}
Publications == {"seal", "discovery", "publish", "artifacts"}

(* Only console c moves, and it does not set out to replace what it finds: what it
   writes, it looked for before. *)
LEMMA GoesOn ==
  ASSUME ConsolesOK, NEW c \in Consoles, NEW place, NEW m,
         pc' = [pc EXCEPT ![c] = place], mem' = [mem EXCEPT ![c] = m],
         place \in Evaluations /\ m.opened => Evaluating(c) \/ evaluation = None,
         place \in Publications => Publishing(c) \/ phase2 = None,
         evaluation' = evaluation \/ Evaluating(c),
         phase2' = phase2 \/ Publishing(c),
         Audited(refinement) => refinement' = refinement
  PROVE  Final
  <1>1. /\ pc'[c] = place /\ mem'[c] = m
        /\ \A d \in Consoles : d # c => pc'[d] = pc[d] /\ mem'[d] = mem[d]
    BY DEF ConsolesOK
  <1>2. EvaluationSettled => evaluation' = evaluation /\ EvaluationSettled'
    <2> SUFFICES ASSUME EvaluationSettled
                 PROVE  evaluation' = evaluation /\ EvaluationSettled'
      OBVIOUS
    <2>1. evaluation' = evaluation /\ evaluation # None /\ ~Evaluating(c)
      BY DEF EvaluationSettled
    <2>2. ~(place \in Evaluations /\ m.opened)
      BY <2>1
    <2>3. ASSUME NEW d \in Consoles
          PROVE  ~(mem'[d].opened /\ pc'[d] \in Evaluations)
      BY <1>1, <2>2 DEF EvaluationSettled, Evaluating, Evaluations
    <2> QED BY <2>1, <2>3 DEF EvaluationSettled, Evaluating, Evaluations
  <1>3. Phase2Settled => phase2' = phase2 /\ Phase2Settled'
    <2> SUFFICES ASSUME Phase2Settled
                 PROVE  phase2' = phase2 /\ Phase2Settled'
      OBVIOUS
    <2>1. phase2' = phase2 /\ phase2 # None /\ ~Publishing(c)
      BY DEF Phase2Settled
    <2>2. place \notin Publications
      BY <2>1
    <2>3. ASSUME NEW d \in Consoles
          PROVE  pc'[d] \notin Publications
      BY <1>1, <2>2 DEF Phase2Settled, Publishing, Publications
    <2> QED BY <2>1, <2>3 DEF Phase2Settled, Publishing, Publications
  <1> QED BY <1>2, <1>3 DEF Final

(* The same of a console that keeps what it holds... *)
LEMMA GoesOnWith ==
  ASSUME ConsolesOK, NEW c \in Consoles, NEW place,
         pc' = [pc EXCEPT ![c] = place], mem' = mem,
         place \in Evaluations /\ mem[c].opened => Evaluating(c) \/ evaluation = None,
         place \in Publications => Publishing(c) \/ phase2 = None,
         evaluation' = evaluation \/ Evaluating(c),
         phase2' = phase2 \/ Publishing(c),
         Audited(refinement) => refinement' = refinement
  PROVE  Final
  <1>1. mem' = [mem EXCEPT ![c] = mem[c]]
    BY DEF ConsolesOK
  <1> QED BY <1>1, GoesOn

(* ... and of one whose command ends. *)
LEMMA EndsFinal ==
  ASSUME ConsolesOK, NEW c \in Consoles, NEW how, Finish(c, how),
         evaluation' = evaluation \/ Evaluating(c),
         phase2' = phase2 \/ Publishing(c),
         Audited(refinement) => refinement' = refinement
  PROVE  Final
  BY GoesOn DEF Finish, Goto, Evaluations, Publications

(* The scan writes no evaluation and no study. *)
LEMMA ScanIsFinal ==
  ASSUME CampaignInv,
         CreateManifest \/ Resume \/ ScanFails \/ Scan \/ TearFeature \/ TearLabel
  PROVE  Final
  <1>0. ConsolesOK /\ "scan" \in Consoles
    BY DEF CampaignInv, Consoles
  <1>1. ASSUME NEW place \in {"create", "load", "block", "checkpoint", "analyze"},
               Goto("scan", place), mem' = mem, UNCHANGED <<evaluation, phase2, refinement>>
        PROVE  Final
    BY <1>0, <1>1, GoesOnWith DEF Goto, Evaluations, Publications
  <1>2. ASSUME NEW place \in {"block", "checkpoint"}, NEW m,
               pc' = [pc EXCEPT !["scan"] = place], mem' = [mem EXCEPT !["scan"] = m],
               UNCHANGED <<evaluation, phase2, refinement>>
        PROVE  Final
    BY <1>0, <1>2, GoesOn DEF Evaluations, Publications
  <1>3. ASSUME NEW how, Finish("scan", how), UNCHANGED <<evaluation, phase2, refinement>>
        PROVE  Final
    BY <1>0, <1>3, EndsFinal
  <1>4. CASE CreateManifest \/ Resume
    BY <1>1, <1>4 DEF CreateManifest, Resume, Start, disk
  <1>5. CASE CreateCheckpoint \/ SaveCheckpoint \/ ScanDone
    BY <1>1, <1>5 DEF CreateCheckpoint, SaveCheckpoint, ScanDone, disk
  <1>6. CASE ScanFails
    BY <1>3, <1>6 DEF ScanFails, disk
  <1>7. CASE TearFeature \/ TearLabel
    BY <1>3, <1>7 DEF TearFeature, TearLabel, Kill
  <1>8. CASE LoadProgress
    <2>1. CASE Readable(labels) /\ Readable(features)
      <3> DEFINE m == [mem["scan"] EXCEPT !.done = RowsOf(labels), !.featured = RowsOf(features)]
      <3>1. mem' = [mem EXCEPT !["scan"] = m] /\ pc' = [pc EXCEPT !["scan"] = "block"]
        BY <1>8, <2>1 DEF LoadProgress, Goto
      <3> HIDE DEF m
      <3> QED BY <1>2, <1>8, <3>1 DEF LoadProgress, disk
    <2>2. CASE ~(Readable(labels) /\ Readable(features))
      BY <1>3, <1>8, <2>2 DEF LoadProgress, disk
    <2> QED BY <2>1, <2>2
  <1>9. CASE AppendFeature
    <2> DEFINE m == [mem["scan"] EXCEPT !.featured = @ \cup {Current}]
    <2>1. mem' = [mem EXCEPT !["scan"] = m] /\ pc' = [pc EXCEPT !["scan"] = "block"]
      BY <1>0, <1>9 DEF AppendFeature, ConsolesOK
    <2> HIDE DEF m
    <2> QED BY <1>2, <1>9, <2>1 DEF AppendFeature
  <1>10. CASE AppendLabel
    <2> DEFINE m == [mem["scan"] EXCEPT !.done = @ \cup {Current}]
    <2>1. mem' = [mem EXCEPT !["scan"] = m] /\ pc' = [pc EXCEPT !["scan"] = "checkpoint"]
      BY <1>10 DEF AppendLabel, Goto
    <2> HIDE DEF m
    <2> QED BY <1>2, <1>10, <2>1 DEF AppendLabel
  <1> QED BY <1>4, <1>5, <1>6, <1>7, <1>8, <1>9, <1>10 DEF Scan

(* An analysis that opens the holdout goes on only where it finds no evaluation, and
   what it writes at the end it looked for then. *)
LEMMA AnalysisIsFinal ==
  ASSUME CampaignInv, NEW c \in Consoles, AnalyzeStep(c)
  PROVE  Final
  <1>0. ConsolesOK /\ IsMemory(mem[c])
    BY DEF CampaignInv, ConsolesOK
  <1>1. ASSUME NEW how, Finish(c, how), UNCHANGED <<phase2, refinement>>,
               evaluation' = evaluation \/ Evaluating(c)
        PROVE  Final
    BY <1>0, <1>1, EndsFinal
  <1>2. CASE AnalyzeFeatures(c)
    <2>1. CASE (mem[c].opened /\ evaluation # None) \/ ~Readable(features)
      BY <1>1, <1>2, <2>1 DEF AnalyzeFeatures, disk
    <2>2. CASE ~((mem[c].opened /\ evaluation # None) \/ ~Readable(features))
      <3> DEFINE k == mem[c]
                 S == RowsOf(features)
                 m == [k EXCEPT !.featured = S]
      <3>1. S \in SUBSET Blocks /\ IsMemory(k)
        BY <1>0, <2>2, ReadableRows DEF CampaignInv, RowsOK
      <3>2. mem' = [mem EXCEPT ![c] = m] /\ pc' = [pc EXCEPT ![c] = "join"]
        BY <1>2, <2>2 DEF AnalyzeFeatures, Goto
      <3>a. k.opened => evaluation = None
        BY <2>2
      <3> HIDE DEF k, S
      <3>3. m.opened = k.opened
        BY <3>1, UpdateFeatured
      <3> HIDE DEF m
      <3>4. UNCHANGED <<evaluation, phase2, refinement>>
        BY <1>2 DEF AnalyzeFeatures, disk
      <3>5. m.opened => evaluation = None
        BY <3>3, <3>a
      <3> QED BY <1>0, <3>2, <3>4, <3>5, GoesOn DEF Publications
    <2> QED BY <2>1, <2>2
  <1>3. CASE AnalyzeLabels(c)
    <2>1. CASE ~(Readable(labels) /\ JoinedRows(c) \subseteq mem[c].featured)
      BY <1>1, <1>3, <2>1 DEF AnalyzeLabels, disk
    <2>2. CASE Readable(labels) /\ JoinedRows(c) \subseteq mem[c].featured
      <3> DEFINE k == mem[c]
                 S == JoinedRows(c)
                 m == [k EXCEPT !.read = S]
      <3>1. S \in SUBSET Blocks /\ IsMemory(k)
        BY <1>0, <2>2, ReadableRows DEF CampaignInv, RowsOK, JoinedRows
      <3>2. mem' = [mem EXCEPT ![c] = m] /\ pc' = [pc EXCEPT ![c] = "summary"]
        BY <1>3, <2>2 DEF AnalyzeLabels, Goto
      <3>a. k.opened => Evaluating(c)
        BY <1>3 DEF AnalyzeLabels, Evaluating
      <3> HIDE DEF k, S
      <3>3. m.opened = k.opened
        BY <3>1, UpdateRead
      <3> HIDE DEF m
      <3>4. UNCHANGED <<evaluation, phase2, refinement>>
        BY <1>3 DEF AnalyzeLabels, disk
      <3>5. m.opened => Evaluating(c)
        BY <3>3, <3>a
      <3> QED BY <1>0, <3>2, <3>4, <3>5, GoesOn DEF Publications
    <2> QED BY <2>1, <2>2
  <1>4. CASE SaveSummary(c)
    <2>1. /\ pc' = [pc EXCEPT ![c] = "report"] /\ mem' = mem
          /\ UNCHANGED <<evaluation, phase2, refinement>>
          /\ mem[c].opened => Evaluating(c)
      BY <1>4 DEF SaveSummary, Goto, Evaluating
    <2> QED BY <1>0, <2>1, GoesOnWith DEF Publications
  <1>5. CASE WriteReport(c)
    <2>1. CASE mem[c].opened
      <3>1. /\ pc' = [pc EXCEPT ![c] = "evaluation"] /\ mem' = mem
            /\ UNCHANGED <<evaluation, phase2, refinement>> /\ Evaluating(c)
        BY <1>5, <2>1 DEF WriteReport, Goto, Evaluating
      <3> QED BY <1>0, <3>1, GoesOnWith DEF Publications
    <2>2. CASE ~mem[c].opened
      BY <1>1, <1>5, <2>2 DEF WriteReport
    <2> QED BY <2>1, <2>2
  <1>6. CASE SaveEvaluation(c)
    <2>1. Evaluating(c)
      BY <1>6 DEF SaveEvaluation, Evaluating, CampaignInv, AnalysisOK
    <2> QED BY <1>1, <1>6, <2>1 DEF SaveEvaluation
  <1> QED BY <1>2, <1>3, <1>4, <1>5, <1>6 DEF AnalyzeStep

(* `phase2` goes on only where it finds no directory; a refinement writes only in the
   directory it made. *)
LEMMA StudyIsFinal ==
  ASSUME CampaignInv, NEW c \in Studies, Study(c)
  PROVE  Final
  <1>0. ConsolesOK /\ c \in Consoles
    BY DEF CampaignInv, Consoles
  <1>1. ASSUME NEW how, Finish(c, how), UNCHANGED <<evaluation, phase2, refinement>>
        PROVE  Final
    BY <1>0, <1>1, EndsFinal
  <1>2. ASSUME NEW open \in BOOLEAN, Analyze(c, open)
        PROVE  Final
    <2> DEFINE m == [mem[c] EXCEPT !.opened = open]
    <2>1. mem' = [mem EXCEPT ![c] = m] /\ pc' = [pc EXCEPT ![c] = "analyze"]
      BY <1>2 DEF Analyze, Start, Goto
    <2>2. UNCHANGED <<evaluation, phase2, refinement>>
      BY <1>2 DEF Analyze, disk
    <2> HIDE DEF m
    <2> QED BY <1>0, <2>1, <2>2, GoesOn DEF Evaluations, Publications
  <1>3. CASE StartPhase2(c)
    <2> DEFINE m == [mem[c] EXCEPT !.digest = SourceFiles]
    <2>1. mem' = [mem EXCEPT ![c] = m] /\ pc' = [pc EXCEPT ![c] = "seal"] /\ phase2 = None
      BY <1>3 DEF StartPhase2, Start, Goto
    <2>2. UNCHANGED <<evaluation, phase2, refinement>>
      BY <1>3 DEF StartPhase2, disk
    <2> HIDE DEF m
    <2> QED BY <1>0, <2>1, <2>2, GoesOn DEF Evaluations
  <1>4. CASE StartRefinement(c)
    <2> DEFINE m == [mem[c] EXCEPT !.digest = HistoricalFiles]
    <2>1. mem' = [mem EXCEPT ![c] = m] /\ pc' = [pc EXCEPT ![c] = "reseal"]
      BY <1>4 DEF StartRefinement, Start, Goto
    <2>2. UNCHANGED <<evaluation, phase2, refinement>>
      BY <1>4 DEF StartRefinement, disk
    <2> HIDE DEF m
    <2> QED BY <1>0, <2>1, <2>2, GoesOn DEF Evaluations, Publications
  <1>5. ASSUME NEW from, NEW to, CheckSeal(c, from, to),
               <<from, to>> \in {<<"seal", "discovery">>, <<"reseal", "rediscovery">>}
        PROVE  Final
    <2>1. CASE summary.opened
      BY <1>1, <1>5, <2>1 DEF CheckSeal, disk
    <2>2. CASE ~summary.opened
      <3>1. /\ pc' = [pc EXCEPT ![c] = to] /\ mem' = mem
            /\ UNCHANGED <<evaluation, phase2, refinement>>
            /\ to \notin Evaluations /\ (to \in Publications => Publishing(c))
        BY <1>5, <2>2 DEF CheckSeal, Goto, disk, Evaluations, Publications, Publishing
      <3> QED BY <1>0, <3>1, GoesOnWith
    <2> QED BY <2>1, <2>2
  <1>6. ASSUME NEW from, NEW to, LoadDiscovery(c, from, to),
               <<from, to>> \in {<<"discovery", "publish">>, <<"rediscovery", "republish">>}
        PROVE  Final
    <2>1. CASE ~DiscoveryLoads
      BY <1>1, <1>6, <2>1 DEF LoadDiscovery, disk
    <2>2. CASE DiscoveryLoads
      <3> DEFINE m == [mem[c] EXCEPT !.read = RowsOf(labels) \cap Of("discovery")]
      <3>1. mem' = [mem EXCEPT ![c] = m] /\ pc' = [pc EXCEPT ![c] = to]
        BY <1>6, <2>2 DEF LoadDiscovery, Goto
      <3> HIDE DEF m
      <3>2. /\ UNCHANGED <<evaluation, phase2, refinement>>
            /\ to \notin Evaluations /\ (to \in Publications => Publishing(c))
        BY <1>6 DEF LoadDiscovery, disk, Evaluations, Publications, Publishing
      <3> QED BY <1>0, <3>1, <3>2, GoesOn
    <2> QED BY <2>1, <2>2
  <1>7. ASSUME NEW place \in {"artifacts", "reartifacts"}, WriteFrom(c, place),
               evaluation' = evaluation, phase2' = phase2 \/ Publishing(c),
               place = "artifacts" => Publishing(c),
               Audited(refinement) => refinement' = refinement
        PROVE  Final
    <2> DEFINE m == [mem[c] EXCEPT !.next = 1]
    <2>1. mem' = [mem EXCEPT ![c] = m] /\ pc' = [pc EXCEPT ![c] = place]
      BY <1>7 DEF WriteFrom, Goto
    <2> HIDE DEF m
    <2>2. place \notin Evaluations /\ (place \in Publications => Publishing(c))
      BY <1>7 DEF Evaluations, Publications
    <2> QED BY <1>0, <1>7, <2>1, <2>2, GoesOn
  <1>8. CASE PublishPhase2(c)
    <2>1. CASE SourceFiles # mem[c].digest
      BY <1>1, <1>8, <2>1 DEF PublishPhase2
    <2>2. CASE SourceFiles = mem[c].digest
      BY <1>7, <1>8, <2>2 DEF PublishPhase2, Publishing
    <2> QED BY <2>1, <2>2
  <1>9. CASE PublishRefinement(c)
    <2>1. CASE HistoricalFiles = mem[c].digest /\ refinement = None
      BY <1>7, <1>9, <2>1 DEF PublishRefinement, Audited
    <2>2. CASE ~(HistoricalFiles = mem[c].digest /\ refinement = None)
      BY <1>1, <1>9, <2>2 DEF PublishRefinement
    <2> QED BY <2>1, <2>2
  <1>10. ASSUME OneFileMore(c), pc[c] \in {"artifacts", "reartifacts"},
                evaluation' = evaluation, phase2' = phase2 \/ Publishing(c),
                Audited(refinement) => refinement' = refinement
         PROVE  Final
    <2>1. CASE mem[c].next = NArtifacts + 1
      <3>1. Finish(c, "ok")
        BY <1>10, <2>1 DEF OneFileMore
      <3> QED BY <1>0, <1>10, <3>1, EndsFinal
    <2>2. CASE mem[c].next # NArtifacts + 1
      <3> DEFINE m == [mem[c] EXCEPT !.next = @ + 1]
                 place == pc[c]
      <3>1. mem' = [mem EXCEPT ![c] = m] /\ pc' = [pc EXCEPT ![c] = place]
        BY <1>0, <1>10, <2>2 DEF OneFileMore, ConsolesOK
      <3>2. place \notin Evaluations /\ (place \in Publications => Publishing(c))
        BY <1>10 DEF Evaluations, Publications, Publishing
      <3> HIDE DEF m, place
      <3> QED BY <1>0, <1>10, <3>1, <3>2, GoesOn
    <2> QED BY <2>1, <2>2
  <1>11. CASE WritePhase2(c)
    BY <1>10, <1>11 DEF WritePhase2, Publishing
  <1>12. CASE WriteRefinement(c)
    <2>1. IsStudy(refinement) /\ mem[c].next = Len(refinement) + 1 /\ mem[c].next \in 1..NArtifacts + 1
      BY <1>12 DEF WriteRefinement, CampaignInv, StudyOK, AtOK
    <2>2. ~Audited(refinement)
      BY <2>1, Numbers DEF Audited, IsStudy
    <2> QED BY <1>10, <1>12, <2>2 DEF WriteRefinement
  <1> QED BY <1>2, <1>3, <1>4, <1>5, <1>6, <1>8, <1>9, <1>11, <1>12 DEF Study

(* No step writes over what was final. *)
LEMMA StepIsFinal ==
  ASSUME CampaignInv, [Next]_vars
  PROVE  Final
  <1>1. CASE CreateManifest \/ Resume \/ ScanFails \/ Scan \/ TearFeature \/ TearLabel
    BY <1>1, ScanIsFinal
  <1>2. ASSUME NEW c \in Consoles, AnalyzeStep(c)
        PROVE  Final
    BY <1>2, AnalysisIsFinal
  <1>3. ASSUME NEW c \in Studies, Study(c)
        PROVE  Final
    BY <1>3, StudyIsFinal
  <1>4. ASSUME NEW c \in Consoles, Crash(c)
        PROVE  Final
    BY <1>4, EndsFinal DEF Crash, Kill, disk, CampaignInv
  <1>5. CASE UNCHANGED vars
    BY <1>5 DEF vars, disk, Final, EvaluationSettled, Phase2Settled, Evaluating, Publishing
  <1> QED BY <1>1, <1>2, <1>3, <1>4, <1>5 DEF Next

(* Once no command that had looked for it before is under way, holdout_evaluation.json,
   and the directory of a study, are never written again by any console; a refinement
   never is once it has its audit.json. *)
THEOREM SettledIsFinalHolds == Spec => SettledIsFinal
  <1>1. CampaignInv /\ [Next]_vars
          => [/\ EvaluationSettled => evaluation' = evaluation /\ EvaluationSettled'
              /\ Phase2Settled => phase2' = phase2 /\ Phase2Settled'
              /\ Audited(refinement) => refinement' = refinement]_vars
    BY StepIsFinal DEF Final
  <1> QED BY <1>1, CampaignInvariant, PTL DEF Spec, SettledIsFinal
=============================================================================
