--------------------------- MODULE ModelStoreProofs ---------------------------
(***************************************************************************)
(* Theorems about ModelStore for any number of worker processes, request   *)
(* handlers, checkpoints and trainings.                                    *)
(***************************************************************************)
EXTENDS ModelStore, TLAPS

\* What a process has done when it is at a step of save_model or of
\* set_current_ckpt: it has a state to write, then a checkpoint that exists.
Progress ==
  \A p \in Procs :
    /\ pc[p] \in {"pick", "write"} => state[p] # None
    /\ pc[p] \in {"write", "unlink", "symlink", "touch"} => name[p] \in Names
    /\ pc[p] \in {"unlink", "symlink", "touch"} => files[name[p]] # None

\* SwitchIsPending is not inductive: the process that is about to return from
\* save_model has linked its checkpoint, and the link may be gone again.
LinkedOrPending ==
  (saved # {} \/ \E p \in Procs : pc[p] = "touch") /\ link = None
    => \E p \in Procs : pc[p] = "symlink"

SafeInv == TypeOK /\ Progress /\ LinkNeverDangles
IInv == SafeInv /\ LinkedOrPending

\* The absent name is not the name of a checkpoint.
LEMMA NoneIsNoName == None \notin Names /\ None \notin States
  BY StoreBounds DEF Names, States

\* A model that was only created has no link that could dangle.
LEMMA SafeInit == Init => SafeInv
  BY StoreBounds DEF Init, SafeInv, TypeOK, Progress, LinkNeverDangles, Steps

\* Every step, a crash included, keeps the types and never unlinks a file.
LEMMA SafeStep == SafeInv /\ [Next \/ \E p \in Procs : Crash(p)]_vars => SafeInv'
<1> SUFFICES ASSUME SafeInv, [Next \/ \E p \in Procs : Crash(p)]_vars
             PROVE  SafeInv'
  OBVIOUS
<1> USE NoneIsNoName DEF SafeInv, TypeOK, Progress, LinkNeverDangles, Steps, Go
<1>1. ASSUME NEW p \in Procs, Train(p) PROVE SafeInv'
  <2>1. started' \in 0..MaxState /\ started' \in States
    BY <1>1, StoreBounds DEF Train, States
  <2> QED BY <1>1, <2>1 DEF Train
<1>2. ASSUME NEW p \in Procs, LoadForSave(p) PROVE SafeInv'
  BY <1>2 DEF LoadForSave
<1>3. ASSUME NEW p \in Procs, NEW n \in Restorable, Restore(p, n) PROVE SafeInv'
  BY <1>3, StoreBounds DEF Restore
<1>4. ASSUME NEW p \in Procs, PickName(p) PROVE SafeInv'
  BY <1>4 DEF PickName
<1>5. ASSUME NEW p \in Procs, WriteCkpt(p) PROVE SafeInv'
  BY <1>5 DEF WriteCkpt
<1>6. ASSUME NEW p \in Procs, Unlink(p) PROVE SafeInv'
  BY <1>6 DEF Unlink
<1>7. ASSUME NEW p \in Procs, Symlink(p) PROVE SafeInv'
  BY <1>7 DEF Symlink
<1>8. ASSUME NEW p \in Procs, Touch(p) PROVE SafeInv'
  BY <1>8 DEF Touch
<1>9. ASSUME NEW p \in Procs, Crash(p) PROVE SafeInv'
  BY <1>9 DEF Crash
<1>10. CASE UNCHANGED vars
  BY <1>10 DEF vars
<1> QED
  BY <1>1, <1>2, <1>3, <1>4, <1>5, <1>6, <1>7, <1>8, <1>9, <1>10
  DEF Next, Operation

\* Every step keeps a process about to link while a saved model has no link.
LEMMA PendingStep == SafeInv /\ LinkedOrPending /\ [Next]_vars => LinkedOrPending'
<1> SUFFICES ASSUME SafeInv, LinkedOrPending, [Next]_vars PROVE LinkedOrPending'
  OBVIOUS
<1> USE NoneIsNoName DEF SafeInv, TypeOK, LinkedOrPending, Steps, Go
<1>1. ASSUME NEW p \in Procs, Train(p) PROVE LinkedOrPending'
  BY <1>1 DEF Train
<1>2. ASSUME NEW p \in Procs, LoadForSave(p) PROVE LinkedOrPending'
  BY <1>2 DEF LoadForSave
<1>3. ASSUME NEW p \in Procs, NEW n \in Restorable, Restore(p, n)
      PROVE  LinkedOrPending'
  BY <1>3 DEF Restore
<1>4. ASSUME NEW p \in Procs, PickName(p) PROVE LinkedOrPending'
  BY <1>4 DEF PickName
<1>5. ASSUME NEW p \in Procs, WriteCkpt(p) PROVE LinkedOrPending'
  BY <1>5 DEF WriteCkpt
<1>6. ASSUME NEW p \in Procs, Unlink(p) PROVE LinkedOrPending'
  BY <1>6 DEF Unlink
<1>7. ASSUME NEW p \in Procs, Symlink(p) PROVE LinkedOrPending'
  BY <1>7 DEF Symlink, Progress
<1>8. ASSUME NEW p \in Procs, Touch(p) PROVE LinkedOrPending'
  BY <1>8 DEF Touch
<1>9. CASE UNCHANGED vars
  BY <1>9 DEF vars
<1> QED
  BY <1>1, <1>2, <1>3, <1>4, <1>5, <1>6, <1>7, <1>8, <1>9 DEF Next, Operation

\* state.json points to a complete checkpoint at every moment, for any number
\* of processes and whichever of them stop in the middle of an operation.
THEOREM NoDanglingLink == CrashSpec => []LinkNeverDangles
<1>1. SafeInv => LinkNeverDangles
  BY DEF SafeInv
<1> QED BY <1>1, SafeInit, SafeStep, PTL DEF CrashSpec

\* The inductive invariant of the link holds in every reachable state.
LEMMA Invariant == Spec => []IInv
<1>1. Init => IInv
  BY SafeInit DEF Init, IInv, LinkedOrPending
<1>2. IInv /\ [Next]_vars => IInv'
  BY SafeStep, PendingStep DEF IInv
<1> QED BY <1>1, <1>2, PTL DEF Spec

\* Without crashes, a model that was saved is without its current version only
\* while a process is about to link one, however many of them race.
THEOREM SwitchAlwaysPending == Spec => []SwitchIsPending
<1>1. IInv => SwitchIsPending
  BY DEF IInv, LinkedOrPending, SwitchIsPending
<1> QED BY <1>1, Invariant, PTL

-----------------------------------------------------------------------------
(* No training is lost, when operations do not overlap                      *)

\* EveryTrainingKept is not inductive: the next checkpoint must have a name that
\* no checkpoint has. The newest checkpoint has the greatest name, and so a
\* process that is about to write has picked a name after all others.
NewestIsLast ==
  \A n \in Names : files[n] # None => newest # None /\ n <= newest

Position ==
  \A p \in Procs :
    /\ pc[p] = "write" => name[p] = NextName
    /\ pc[p] \in {"unlink", "symlink", "touch"} =>
         name[p] = newest /\ files[newest] = state[p]

KeptInv == SafeInv /\ OneAtATime /\ NewestIsLast /\ Position /\ EveryTrainingKept

LEMMA KeptInit == Init => KeptInv
  BY SafeInit DEF Init, KeptInv, OneAtATime, NewestIsLast, Position, EveryTrainingKept

\* One operation at a time keeps the order of the names, wherever it stops.
LEMMA KeptStep ==
  ASSUME Restorable = {}, KeptInv,
         [(Next \/ \E p \in Procs : Crash(p)) /\ OneAtATime']_vars
  PROVE  KeptInv'
<1>1. SafeInv'
  BY SafeStep DEF KeptInv
<1>2. OneAtATime'
  BY DEF KeptInv, OneAtATime, vars
<1> SUFFICES (NewestIsLast /\ Position /\ EveryTrainingKept)'
  BY <1>1, <1>2 DEF KeptInv
<1> USE NoneIsNoName
        DEF KeptInv, SafeInv, TypeOK, Progress, NewestIsLast, Position, EveryTrainingKept, Steps, Go
<1>3. ASSUME NEW p \in Procs, Train(p) \/ LoadForSave(p) \/ Crash(p)
      PROVE  (NewestIsLast /\ Position /\ EveryTrainingKept)'
  BY <1>3 DEF Train, LoadForSave, Crash, NextName
<1>4. ASSUME NEW p \in Procs, PickName(p)
      PROVE  (NewestIsLast /\ Position /\ EveryTrainingKept)'
  BY <1>4 DEF PickName, NextName
<1>5. ASSUME NEW p \in Procs, WriteCkpt(p)
      PROVE  (NewestIsLast /\ Position /\ EveryTrainingKept)'
  <2>1. name[p] = NextName /\ name[p] \in Names /\ state[p] # None
    BY <1>5 DEF WriteCkpt
  <2>2. files[name[p]] = None
    BY <2>1, StoreBounds DEF NextName, Names
  <2>3. files' = [files EXCEPT ![name[p]] = state[p]] /\ newest' = name[p]
    BY <1>5 DEF WriteCkpt
  <2>4. NewestIsLast'
    <3>1. ASSUME NEW n \in Names, files'[n] # None PROVE newest' # None /\ n <= newest'
      <4>1. n = name[p] \/ files[n] # None
        BY <2>3, <3>1
      <4>2. n \in Nat /\ name[p] \in Nat
        BY <2>1, StoreBounds DEF Names
      <4>3. n <= name[p]
        BY <2>1, <4>1, <4>2, StoreBounds DEF NextName, Names
      <4> QED BY <2>1, <2>3, <4>3
    <3> QED BY <3>1
  <2>5. \A q \in Procs : q # p => pc[q] = "idle"
    BY <1>5 DEF WriteCkpt, OneAtATime
  <2>6. Position'
    BY <1>5, <2>1, <2>3, <2>5 DEF WriteCkpt
  <2>7. EveryTrainingKept'
    BY <1>5, <2>1, <2>2, <2>3 DEF WriteCkpt, States
  <2> QED BY <2>4, <2>6, <2>7
<1>6. ASSUME NEW p \in Procs, Unlink(p) \/ Symlink(p)
      PROVE  (NewestIsLast /\ Position /\ EveryTrainingKept)'
  BY <1>6 DEF Unlink, Symlink, NextName
<1>7. ASSUME NEW p \in Procs, Touch(p)
      PROVE  (NewestIsLast /\ Position /\ EveryTrainingKept)'
  <2>1. newest' = newest /\ files' = files /\ files[newest] = state[p] /\ newest \in Names
    BY <1>7 DEF Touch
  <2>2. saved' \subseteq saved \cup {state[p]}
    BY <1>7 DEF Touch
  <2> QED BY <1>7, <2>1, <2>2 DEF Touch, NextName
<1>8. CASE UNCHANGED vars
  BY <1>8 DEF vars, NextName
<1> QED
  BY <1>3, <1>4, <1>5, <1>6, <1>7, <1>8 DEF Next, Operation

\* When users send one request at a time and restore nothing, the state of each
\* training that succeeded stays in a checkpoint, however many operations stop
\* in the middle.
THEOREM TrainingsKept == Restorable = {} /\ SerialCrashSpec => []EveryTrainingKept
<1> SUFFICES ASSUME Restorable = {} PROVE SerialCrashSpec => []EveryTrainingKept
  OBVIOUS
<1>1. KeptInv /\ [(Next \/ \E p \in Procs : Crash(p)) /\ OneAtATime']_vars => KeptInv'
  BY KeptStep
<1>2. KeptInv => EveryTrainingKept
  BY DEF KeptInv
<1> QED BY <1>1, <1>2, KeptInit, PTL DEF SerialCrashSpec

\* The variables of the store keep their types through crashes.
THEOREM TypeCorrect == CrashSpec => []TypeOK
<1>1. SafeInv => TypeOK
  BY DEF SafeInv
<1> QED BY <1>1, SafeInit, SafeStep, PTL DEF CrashSpec
=============================================================================
