------------------------------ MODULE StateStore ------------------------------
(***************************************************************************)
(* checkpoint::StateStore (state_store.cpp): save writes a temporary file,  *)
(* flushes it and renames it over the file; load_or reads the file at the   *)
(* next start.  Both builds are modelled: with the Win32 calls, which retry *)
(* on a locked file and flush to the device, and with the C++ streams of    *)
(* the other platforms, whose flush reaches only the operating system.      *)
(***************************************************************************)
EXTENDS Integers, Sequences

CONSTANTS
  States,         \* the states to save
  Parts,          \* the writes one payload takes, at least 1
  StreamPower,    \* may the machine lose power under the build with streams, or
                  \* only the process be killed?  Under Windows it may.
  Attempts,       \* retry_backoff_ms.size(), 4
  NoFile          \* the file does not exist; also: nothing to save

ASSUME StoreAssumption ==
  /\ Parts \in Nat \ {0} /\ Attempts \in Nat \ {0}
  /\ StreamPower \in BOOLEAN
  /\ NoFile \notin States /\ NoFile \notin Seq(States)

VARIABLES
  windows,   \* is this the _WIN32 build?  It never changes
  file,      \* the content of path_, one element per part written
  tmp,       \* the content of path_ with ".tmp"
  flushed,   \* is the content of tmp on the device?
  dur,       \* the content the device holds under path_
  req,       \* the state being saved
  attempt,   \* failed attempts of the retry loop under way
  stage      \* where the process is

storeVars == <<windows, file, tmp, flushed, dur, req, attempt, stage>>

Whole(c) == c # NoFile /\ Len(c) = Parts /\ \A i \in 1..Parts : c[i] = c[1]

StoreInit ==
  /\ windows \in BOOLEAN
  /\ file = NoFile /\ tmp = NoFile /\ flushed = FALSE /\ dur = NoFile
  /\ req = NoFile /\ attempt = 0 /\ stage = "boot"

(* load_or: no file gives the fallback, and so does a file that cannot be
   opened; one that does not parse is an exception that ends the program. *)
Load ==
  /\ stage = "boot"
  /\ stage' \in IF file = NoFile \/ Whole(file) THEN {"idle"} ELSE {"idle", "refused"}
  /\ UNCHANGED <<windows, file, tmp, flushed, dur, req, attempt>>

BeginSave(s) ==
  /\ stage = "idle"
  /\ req' = s /\ attempt' = 0 /\ stage' = "open"
  /\ UNCHANGED <<windows, file, tmp, flushed, dur>>

(* The temporary file is created, or emptied if an earlier save left it. *)
OpenTemporary ==
  /\ stage = "open"
  /\ tmp' = <<>> /\ flushed' = FALSE /\ stage' = "write"
  /\ UNCHANGED <<windows, file, dur, req, attempt>>

Write ==
  /\ stage = "write" /\ Len(tmp) < Parts
  /\ tmp' = Append(tmp, req)
  /\ UNCHANGED <<windows, file, flushed, dur, req, attempt, stage>>

(* FlushFileBuffers; output.flush() leaves the data with the system. *)
\* Mutant of Flush: nothing is flushed to the device.
FlushNothing ==
  /\ stage = "write" /\ Len(tmp) >= Parts
  /\ flushed' = FALSE /\ attempt' = 0 /\ stage' = "replace"
  /\ UNCHANGED <<windows, file, tmp, dur, req>>

\* Mutant of Flush: the last part is not waited for.
FlushShort ==
  /\ stage = "write" /\ Len(tmp) >= Parts - 1
  /\ flushed' = windows /\ attempt' = 0 /\ stage' = "replace"
  /\ UNCHANGED <<windows, file, tmp, dur, req>>

Flush ==
  /\ stage = "write" /\ Len(tmp) >= Parts
  /\ flushed' = windows /\ attempt' = 0 /\ stage' = "replace"
  /\ UNCHANGED <<windows, file, tmp, dur, req>>

(* The rename takes the data along; it is durable when the data is and the
   rename is written through. *)
Replace ==
  /\ stage = "replace"
  /\ file' = tmp /\ tmp' = NoFile
  /\ dur' = IF flushed THEN tmp ELSE dur
  /\ flushed' = FALSE /\ req' = NoFile /\ stage' = "idle"
  /\ UNCHANGED <<windows, attempt>>

(* ERROR_SHARING_VIOLATION or ERROR_ACCESS_DENIED: another attempt. *)
Retry ==
  /\ windows /\ stage \in {"open", "replace"} /\ attempt + 1 < Attempts
  /\ attempt' = attempt + 1
  /\ UNCHANGED <<windows, file, tmp, flushed, dur, req, stage>>

(* Any other error, or the last attempt: PersistenceError, and the temporary
   file stays as it is. *)
Throw ==
  /\ stage \in {"open", "write", "replace"}
  /\ req' = NoFile /\ stage' = "idle"
  /\ UNCHANGED <<windows, file, tmp, flushed, dur, attempt>>

(* The system writes back what it holds, when it likes. *)
WriteBack ==
  /\ dur # file /\ dur' = file
  /\ UNCHANGED <<windows, file, tmp, flushed, req, attempt, stage>>

(* The process is killed and started again. *)
Kill ==
  /\ stage # "boot"
  /\ req' = NoFile /\ attempt' = 0 /\ stage' = "boot"
  /\ UNCHANGED <<windows, file, tmp, flushed, dur>>

(* The machine loses power: a content that is not on the device yet comes
   back as the one before it, or with only some of its parts. *)
Survivors ==
  IF file = dur THEN {dur}
  ELSE {dur} \cup {SubSeq(file, 1, k) : k \in 0..Len(file)}

PowerFailure ==
  /\ windows \/ StreamPower
  /\ file' \in Survivors /\ dur' = file'
  /\ tmp' \in {tmp, NoFile} /\ flushed' = FALSE
  /\ req' = NoFile /\ attempt' = 0 /\ stage' = "boot"
  /\ UNCHANGED windows

StoreNext ==
  \/ Load \/ (\E s \in States : BeginSave(s))
  \/ OpenTemporary \/ Write \/ Flush \/ Replace \/ Retry \/ Throw
  \/ WriteBack \/ Kill \/ PowerFailure

StoreSpec == StoreInit /\ [][StoreNext]_storeVars

-----------------------------------------------------------------------------
Contents == Seq(States) \cup {NoFile}

(* The type invariant; a retry loop never exceeds its attempts. *)
StoreTypeOK ==
  /\ file \in Contents /\ tmp \in Contents /\ dur \in Contents
  /\ windows \in BOOLEAN /\ flushed \in BOOLEAN
  /\ req \in States \cup {NoFile}
  /\ attempt \in 0..(Attempts - 1)
  /\ stage \in {"boot", "idle", "open", "write", "replace", "refused"}

(***************************************************************************)
(* README: after a power failure the last valid checkpoint is resumed.      *)
(* load_or never meets a file it cannot parse.                             *)
(***************************************************************************)
NeverRefused == stage # "refused"

(***************************************************************************)
(* The file the users see: StateStore implements AtomicFile.               *)
(***************************************************************************)
Seen == IF file = NoFile THEN NoFile ELSE IF Whole(file) THEN file[1] ELSE file

Abstract == INSTANCE AtomicFile WITH NoState <- NoFile, value <- Seen, request <- req

ImplementsAtomicFile == Abstract!Spec

(***************************************************************************)
(* The inductive invariant: the file is absent or one whole state, the      *)
(* temporary file holds only parts of the state being saved, all of them    *)
(* before the rename, and on Windows the device already holds the file.     *)
(***************************************************************************)
StoreInv ==
  /\ file = NoFile \/ Whole(file)
  /\ stage \in {"open", "write", "replace"} <=> req # NoFile
  /\ stage \in {"write", "replace"} =>
       tmp # NoFile /\ Len(tmp) <= Parts /\ \A i \in 1..Len(tmp) : tmp[i] = req
  /\ stage = "replace" => Len(tmp) = Parts /\ flushed = windows
  /\ windows => file = dur
  /\ stage # "refused"
=============================================================================
