---------------------------- MODULE SavedSession ----------------------------
(***************************************************************************)
(* How the session is saved (internal/config/config.go, with session.go of *)
(* internal/ui and main.go): the program takes numbered snapshots of it,   *)
(* commands that run beside it write them in any order, one at a time, and *)
(* a write is cut off when the process dies.                               *)
(*                                                                         *)
(* A session (its namespace, screen and number keys) is the number of      *)
(* changes that were made to it.  One urga runs at a time.                 *)
(***************************************************************************)
EXTENDS Naturals

CONSTANTS MaxMoves, MaxSaveFaults   (* bounds                              *)

ASSUME SavedBounds == MaxMoves \in Nat /\ MaxSaveFaults \in Nat

VARIABLES
  session,   (* Config.Session: what the run has open                      *)
  taken,     (* Config.taken                                               *)
  written,   (* Config.written                                             *)
  pending,   (* the snapshots whose write has not started                  *)
  writer,    (* the snapshot of the write that holds Config.mu             *)
  phase,     (* running, quitting, and how the run ended                   *)
  file,      (* what the file at Config.path holds                         *)
  saveFaults (* how many faults the environment made                       *)

savedVars == <<session, taken, written, pending, writer, phase, file, saveFaults>>

(* A file that was cut short, and the session of a run that finds one.     *)
Cut == MaxMoves + 1
Empty == 0

Snapshot == [number : Nat \ {0}, data : 0 .. MaxMoves]
NoWrite == [number |-> 0, data |-> 0]

SavedTypeOK ==
  /\ session \in 0 .. MaxMoves
  /\ taken \in Nat /\ written \in Nat
  /\ pending \subseteq Snapshot
  /\ writer \in Snapshot \cup {NoWrite}
  /\ phase \in {"running", "quitting", "ended", "failed", "crashed"}
  /\ file \in 0 .. Cut
  /\ saveFaults \in 0 .. MaxSaveFaults

SavedInit ==
  /\ session \in 0 .. MaxMoves
  /\ file = session
  /\ taken = 0 /\ written = 0
  /\ pending = {} /\ writer = NoWrite
  /\ phase = "running"
  /\ saveFaults = 0

-----------------------------------------------------------------------------
(* Snapshot: the session as it is, with the next number.                   *)
Take(data) ==
  /\ taken' = taken + 1
  /\ pending' = pending \cup {[number |-> taken + 1, data |-> data]}

(* remember: the person moves, or the number keys follow a list of         *)
(* namespaces, and a command is to write the session.                      *)
Move ==
  /\ phase = "running" /\ session < MaxMoves
  /\ session' = session + 1
  /\ Take(session + 1)
  /\ UNCHANGED <<written, writer, phase, file, saveFaults>>

(* restore: a namespace named on the command line is opened over the saved *)
(* one when a run starts.  Nothing is written for it.                      *)
OpenGiven ==
  /\ phase = "running" /\ session < MaxMoves
  /\ taken = 0 /\ session = file
  /\ session' = session + 1
  /\ UNCHANGED <<taken, written, pending, writer, phase, file, saveFaults>>

(* A mutated Quit: the writes that are out are to save the session.        *)
QuitUnsaved ==
  /\ phase = "running"
  /\ phase' = IF pending = {} THEN "ended" ELSE "quitting"
  /\ UNCHANGED <<session, taken, written, pending, writer, file, saveFaults>>

(* play: the program ended, and SaveSession writes the session at once.    *)
(* The commands that were started go on beside it.                         *)
Quit ==
  /\ phase = "running"
  /\ phase' = "quitting"
  /\ Take(session)
  /\ UNCHANGED <<session, written, writer, file, saveFaults>>

-----------------------------------------------------------------------------
(* Write returns: the one SaveSession waits for says how the run ends.     *)
Returns(s, how) ==
  phase' = IF phase = "quitting" /\ s.number = taken THEN how ELSE phase

(* A write has the lock, and s is next.                                    *)
Locks(s) ==
  /\ phase # "crashed"
  /\ s \in pending /\ writer = NoWrite
  /\ pending' = pending \ {s}
  /\ UNCHANGED <<session, taken, written, saveFaults>>

(* A mutated Begin: a snapshot is written whenever its turn comes.         *)
BeginAny(s) == Locks(s) /\ writer' = s /\ UNCHANGED <<phase, file>>

(* A mutated Begin: the file itself is opened for writing.                 *)
BeginInPlace(s) ==
  /\ Locks(s)
  /\ IF s.number <= written
     THEN Returns(s, "ended") /\ UNCHANGED <<writer, file>>
     ELSE writer' = s /\ file' = Cut /\ UNCHANGED phase

(* Write: a snapshot older than the last written is skipped, any other is  *)
(* written to a temp file.                                                 *)
Begin(s) ==
  /\ Locks(s)
  /\ IF s.number <= written
     THEN Returns(s, "ended") /\ UNCHANGED writer
     ELSE writer' = s /\ UNCHANGED phase
  /\ UNCHANGED file

(* A mutated Renames: whatever was taken counts as written.                *)
RenamesAsNewest ==
  /\ phase # "crashed" /\ writer # NoWrite
  /\ file' = writer.data
  /\ written' = taken
  /\ writer' = NoWrite
  /\ Returns(writer, "ended")
  /\ UNCHANGED <<session, taken, pending, saveFaults>>

(* writeWhole: the temp file takes the place of the file.                  *)
Renames ==
  /\ phase # "crashed" /\ writer # NoWrite
  /\ file' = writer.data
  /\ written' = writer.number
  /\ writer' = NoWrite
  /\ Returns(writer, "ended")
  /\ UNCHANGED <<session, taken, pending, saveFaults>>

(* Some step of writeWhole fails: the temp file goes, the file stays.      *)
Fails ==
  /\ phase # "crashed" /\ writer # NoWrite /\ saveFaults < MaxSaveFaults
  /\ saveFaults' = saveFaults + 1
  /\ writer' = NoWrite
  /\ Returns(writer, "failed")
  /\ UNCHANGED <<session, taken, written, pending, file>>

(* The process dies, in the middle of a write too.                         *)
Crash ==
  /\ phase \in {"running", "quitting"} /\ saveFaults < MaxSaveFaults
  /\ saveFaults' = saveFaults + 1
  /\ phase' = "crashed"
  /\ UNCHANGED <<session, taken, written, pending, writer, file>>

(* The process is gone with the writes it had, and the next one starts     *)
(* from the file; one that cannot be read gives an empty session.          *)
Load ==
  /\ phase \in {"ended", "failed", "crashed"}
  /\ session' = IF file = Cut THEN Empty ELSE file
  /\ phase' = "running"
  /\ taken' = 0 /\ written' = 0
  /\ pending' = {} /\ writer' = NoWrite
  /\ UNCHANGED <<file, saveFaults>>

SavedNext ==
  \/ Move \/ OpenGiven \/ Quit \/ Renames \/ Fails \/ Crash \/ Load
  \/ \E s \in pending : Begin(s)

(* A write that has the lock goes on, and the lock is given on.            *)
SavedFairness == WF_savedVars(Renames) /\ WF_savedVars(\E s \in pending : Begin(s))

SavedSpec == SavedInit /\ [][SavedNext]_savedVars /\ SavedFairness

-----------------------------------------------------------------------------
(* The file never goes back to a session before the one it holds, though   *)
(* writes start in any order and fail, the last one too, and numbers begin *)
(* again with every run (Write, Load).                                     *)
NeverBack == [][file' >= file]_file

(* Quitting without an error leaves the file with the session as it was    *)
(* left, whatever writes were out (SaveSession, Write).                    *)
QuitSaves == phase = "ended" => file = session

(* A quit ends: the last write is not kept from the lock for good by the   *)
(* older ones, whatever became of them (Write).                            *)
QuitEnds == phase = "quitting" ~> phase # "quitting"

(* A session that was to be written is in the file some time after, or a   *)
(* later one is, if nothing fails (remember, Write).  A run may end before *)
(* that only by writing what it has.                                       *)
GetsSaved ==
  \A i \in 1 .. MaxMoves :
    (\E s \in pending : s.data = i) ~> (file # Cut /\ file >= i) \/ saveFaults > 0

(* No write waits for good: of a run that goes on, or of one that ends.    *)
(* (Write, SaveSession)                                                    *)
WritesEnd == QuitEnds /\ GetsSaved

(* The numbered snapshots, the lock and the temp file come to a file that  *)
(* is replaced at once by a later session, and by the last one when urga   *)
(* quits (config.go, SaveSession; docs/configuration.md, Saved session).   *)
Kept == INSTANCE Remembered WITH ended <- phase = "ended"
ImplementsRemembered == Kept!Spec
=============================================================================
