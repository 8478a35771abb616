------------------------------ MODULE ModelStore ------------------------------
(***************************************************************************)
(* The checkpoints of one model in loudml/filestorage.py, at the grain of  *)
(* the file operations. The directory of a trained model holds checkpoints *)
(* (NN.ckpt) and state.json, a symbolic link to the current one. The HTTP  *)
(* thread (_start, _stop, _restore) and the worker processes (train) run   *)
(* these operations on the same directory without any lock, and a process  *)
(* may stop between any two of them: a worker is killed when its job is    *)
(* canceled, the server may crash.                                         *)
(***************************************************************************)
EXTENDS Naturals

CONSTANTS
  Trainers,     (* worker processes that run Worker.train                     *)
  Handlers,     (* threads that serve requests: one in the server             *)
  Restorable,   (* the checkpoints users restore                              *)
  MaxName,      (* bound: the last checkpoint                                 *)
  MaxState,     (* bound: trainings started                                   *)
  None

Procs == Trainers \cup Handlers
Names == 0..MaxName
States == 1..MaxState

ASSUME ProcsAssumption == Trainers \cap Handlers = {}
ASSUME StoreBounds ==
  MaxName \in Nat /\ MaxState \in Nat /\ None \notin Nat /\ Restorable \subseteq Names

VARIABLES
  files,        (* the checkpoints: name -> the state in it, or None          *)
  newest,       (* the checkpoint with the latest modification time           *)
  link,         (* the target of state.json                                   *)
  pc,           (* the next file operation of a process                       *)
  name,         (* its ckpt_name                                              *)
  state,        (* the model.state it saves; None when it only restores       *)
  started,      (* trainings started: a training makes a state of its own     *)
  saved         (* history: the states for which save_model has returned      *)

vars == <<files, newest, link, pc, name, state, started, saved>>

Steps == {"idle", "pick", "write", "unlink", "symlink", "touch"}

TypeOK ==
  /\ files \in [Names -> States \cup {None}]
  /\ newest \in Names \cup {None}
  /\ link \in Names \cup {None}
  /\ pc \in [Procs -> Steps]
  /\ name \in [Procs -> Names \cup {None}]
  /\ state \in [Procs -> States \cup {None}]
  /\ started \in 0..MaxState
  /\ saved \subseteq States

\* create_model saves settings only: there is no state yet.
Init ==
  /\ files = [n \in Names |-> None]
  /\ newest = None
  /\ link = None
  /\ pc = [p \in Procs |-> "idle"]
  /\ name = [p \in Procs |-> None]
  /\ state = [p \in Procs |-> None]
  /\ started = 0
  /\ saved = {}

Go(p, step) == pc' = [pc EXCEPT ![p] = step]

-----------------------------------------------------------------------------
(* What the processes do with the store                                     *)

\* Worker.train: a training has a new state to save.
Train(p) ==
  /\ p \in Trainers
  /\ pc[p] = "idle"
  /\ started < MaxState
  /\ started' = started + 1
  /\ state' = [state EXCEPT ![p] = started']
  /\ Go(p, "pick")
  /\ UNCHANGED <<files, newest, link, name, saved>>

\* model_start and model_stop load the model and save it again, with the state
\* they have read; _start refuses an untrained model, _stop fails on it.
LoadForSave(p) ==
  /\ p \in Handlers
  /\ pc[p] = "idle"
  /\ link # None
  /\ files[link] # None
  /\ state' = [state EXCEPT ![p] = files[link]]
  /\ Go(p, "pick")
  /\ UNCHANGED <<files, newest, link, name, started, saved>>

\* model_restore_version: the version must be one of list_checkpoints.
Restore(p, n) ==
  /\ p \in Handlers
  /\ pc[p] = "idle"
  /\ files[n] # None
  /\ name' = [name EXCEPT ![p] = n]
  /\ state' = [state EXCEPT ![p] = None]
  /\ Go(p, "unlink")
  /\ UNCHANGED <<files, newest, link, started, saved>>

-----------------------------------------------------------------------------
(* save_model and set_current_ckpt                                          *)

\* Mutant: the next name follows the current checkpoint, not the newest.
NextNameOfLink == IF link = None THEN 0 ELSE link + 1

\* get_next_ckpt_name: one more than the checkpoint modified last.
NextName == IF newest = None THEN 0 ELSE newest + 1

\* Mutant: the link is switched before the checkpoint is written.
PickNameOnly(p) ==
  /\ pc[p] = "pick"
  /\ NextName \in Names
  /\ name' = [name EXCEPT ![p] = NextName]
  /\ Go(p, "unlink")
  /\ UNCHANGED <<files, newest, link, state, started, saved>>

PickName(p) ==
  /\ pc[p] = "pick"
  /\ NextName \in Names
  /\ name' = [name EXCEPT ![p] = NextName]
  /\ Go(p, "write")
  /\ UNCHANGED <<files, newest, link, state, started, saved>>

\* _write_json: the file appears under its name complete, by a rename.
WriteCkpt(p) ==
  /\ pc[p] = "write"
  /\ files' = [files EXCEPT ![name[p]] = state[p]]
  /\ newest' = name[p]
  /\ Go(p, "unlink")
  /\ UNCHANGED <<link, name, state, started, saved>>

\* _set_current_ckpt, os.unlink(state.json); a missing link is no error.
Unlink(p) ==
  /\ pc[p] = "unlink"
  /\ link' = None
  /\ Go(p, "symlink")
  /\ UNCHANGED <<files, newest, name, state, started, saved>>

\* Mutant: a process that finds the link of another removes it and fails.
SymlinkOrClean(p) ==
  /\ pc[p] = "symlink"
  /\ IF link = None
     THEN link' = name[p] /\ Go(p, "touch")
     ELSE link' = None /\ Go(p, "idle")
  /\ UNCHANGED <<files, newest, name, state, started, saved>>

\* os.symlink; FileExistsError when another process was faster, and then the
\* request or the job fails.
Symlink(p) ==
  /\ pc[p] = "symlink"
  /\ IF link = None
     THEN link' = name[p] /\ Go(p, "touch")
     ELSE link' = link /\ Go(p, "idle")
  /\ UNCHANGED <<files, newest, name, state, started, saved>>

\* os.utime on the checkpoint; save_model and set_current_ckpt return.
Touch(p) ==
  /\ pc[p] = "touch"
  /\ newest' = name[p]
  /\ saved' = IF state[p] = None THEN saved ELSE saved \cup {state[p]}
  /\ Go(p, "idle")
  /\ UNCHANGED <<files, link, name, state, started>>

\* The process stops where it is; another one takes its place.
Crash(p) ==
  /\ pc[p] # "idle"
  /\ Go(p, "idle")
  /\ UNCHANGED <<files, newest, link, name, state, started, saved>>

-----------------------------------------------------------------------------
Operation(p) == PickName(p) \/ WriteCkpt(p) \/ Unlink(p) \/ Symlink(p) \/ Touch(p)

Next == \E p \in Procs :
          \/ Train(p) \/ LoadForSave(p)
          \/ \E n \in Restorable : Restore(p, n)
          \/ Operation(p)

Spec == Init /\ [][Next]_vars

CrashSpec == Init /\ [][Next \/ \E p \in Procs : Crash(p)]_vars

\* The users send one request at a time, and none during a training.
OneAtATime == \A p, q \in Procs : pc[p] # "idle" /\ pc[q] # "idle" => p = q

SerialSpec == Init /\ [][Next /\ OneAtATime']_vars

SerialCrashSpec == Init /\ [][(Next \/ \E p \in Procs : Crash(p)) /\ OneAtATime']_vars

\* A process that has begun an operation on the files goes on with the next.
FairSpec == Spec /\ \A p \in Procs : WF_vars(Operation(p))

-----------------------------------------------------------------------------
(* Properties                                                               *)

\* Whoever loads the model reads a complete state: state.json never points to
\* a checkpoint that is not there, however savers and crashes interleave.
LinkNeverDangles == link # None => files[link] # None

\* While nobody crashes, a saved model is without state.json only for as long
\* as some process is about to link it: the race of two processes in
\* _set_current_ckpt, where one gets FileExistsError, leaves a current version.
SwitchIsPending ==
  saved # {} /\ link = None => \E p \in Procs : pc[p] = "symlink"

\* One training at a time and no restore: the state of every training that
\* succeeded is still in a checkpoint, wherever other trainings have crashed.
EveryTrainingKept == \A s \in saved : \E n \in Names : files[n] = s

\* A saved model that has lost its link gets it back without a new request.
CurrentAgain == (saved # {} /\ link = None) ~> (link # None)
=============================================================================
