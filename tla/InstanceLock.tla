---------------------------- MODULE InstanceLock ----------------------------
(***************************************************************************)
(* SingleInstanceLock of engine/order_synchronizer.py: a flock on a file   *)
(* that each contender first judges by its contents, removes if it looks   *)
(* abandoned, opens (which empties it), locks and signs; whoever leaves    *)
(* unlocks and removes it.  The kernel locks files, not paths: a file is a *)
(* number here, and the path names the last one made, or none.             *)
(***************************************************************************)
EXTENDS Integers

CONSTANTS
    Processes,
    Nobody,
    MaxFiles    \* the files ever made at the path (a bound)

VARIABLES
    files,    \* how many were made
    path,     \* the file at the path; 0 if there is none
    signed,   \* who signed each file
    locked,   \* who holds the lock of each file
    at,       \* where each process is
    opened    \* the file each has open

lockVars == <<files, path, signed, locked, at, opened>>

Files   == 1 .. MaxFiles
Places  == {"gone", "judging", "removing", "opening", "locking", "signing", "running", "unlocked"}
Alive(p) == p # Nobody /\ at[p] # "gone"

LockInit ==
    /\ files = 0 /\ path = 0
    /\ signed = [f \in Files |-> Nobody] /\ locked = [f \in Files |-> Nobody]
    /\ at = [p \in Processes |-> "gone"] /\ opened = [p \in Processes |-> 0]

Goes(p, place) == at' = [at EXCEPT ![p] = place]

\* The constructor of the executor asks for the lock.
Launches(p) ==
    /\ at[p] = "gone" /\ Goes(p, "judging")
    /\ UNCHANGED <<files, path, signed, locked, opened>>

\* _cleanup_stale_lock_file: the file is kept if its signer lives, or if it was
\* signed less than an hour ago; a file without a signature is neither.
Judges(p) ==
    /\ at[p] = "judging"
    /\ \/ path # 0 /\ ~Alive(signed[path]) /\ Goes(p, "removing")
       \/ (path # 0 => signed[path] # Nobody) /\ Goes(p, "opening")
    /\ UNCHANGED <<files, path, signed, locked, opened>>
Removes(p) ==
    /\ at[p] = "removing" /\ Goes(p, "opening") /\ path' = 0
    /\ UNCHANGED <<files, signed, locked, opened>>

\* open(lock_file, 'w') makes the file, or empties the one that is there.
Opens(p) ==
    /\ at[p] = "opening" /\ Goes(p, "locking")
    /\ \/ /\ path = 0 /\ files < MaxFiles
          /\ files' = files + 1 /\ path' = files + 1 /\ UNCHANGED signed
       \/ /\ path # 0 /\ signed' = [signed EXCEPT ![path] = Nobody]
          /\ UNCHANGED <<files, path>>
    /\ opened' = [opened EXCEPT ![p] = path']
    /\ UNCHANGED locked

\* flock(LOCK_EX | LOCK_NB); whoever is refused closes the file and ends.
Locks(p) ==
    /\ at[p] = "locking"
    /\ IF locked[opened[p]] = Nobody
       THEN /\ locked' = [locked EXCEPT ![opened[p]] = p] /\ Goes(p, "signing")
            /\ UNCHANGED opened
       ELSE Goes(p, "gone") /\ opened' = [opened EXCEPT ![p] = 0] /\ UNCHANGED locked
    /\ UNCHANGED <<files, path, signed>>
Signs(p) ==
    /\ at[p] = "signing" /\ Goes(p, "running")
    /\ signed' = [signed EXCEPT ![opened[p]] = p]
    /\ UNCHANGED <<files, path, locked, opened>>

\* release: at the end of the run, or of the process.
Unlocked(p) == [f \in Files |-> IF locked[f] = p THEN Nobody ELSE locked[f]]
Unlocks(p) ==
    /\ at[p] = "running" /\ Goes(p, "unlocked")
    /\ locked' = Unlocked(p) /\ opened' = [opened EXCEPT ![p] = 0]
    /\ UNCHANGED <<files, path, signed>>
Unlinks(p) ==
    /\ at[p] = "unlocked" /\ Goes(p, "gone") /\ path' = 0
    /\ UNCHANGED <<files, signed, locked, opened>>

\* A process killed at any point: the kernel unlocks and closes its file.
Dies(p) ==
    /\ at[p] # "gone" /\ Goes(p, "gone")
    /\ locked' = Unlocked(p) /\ opened' = [opened EXCEPT ![p] = 0]
    /\ UNCHANGED <<files, path, signed>>

LockNext ==
    \E p \in Processes :
        \/ Launches(p) \/ Judges(p) \/ Removes(p) \/ Opens(p) \/ Locks(p) \/ Signs(p)
        \/ Unlocks(p) \/ Unlinks(p) \/ Dies(p)
LockSpec == LockInit /\ [][LockNext]_lockVars
-----------------------------------------------------------------------------
LockTypes ==
    /\ files \in 0 .. MaxFiles /\ path \in 0 .. files
    /\ signed \in [Files -> Processes \cup {Nobody}]
    /\ locked \in [Files -> Processes \cup {Nobody}]
    /\ at \in [Processes -> Places] /\ opened \in [Processes -> 0 .. MaxFiles]

\* What the class is for: a second process of the program ends before it trades.
OneInstance ==
    \A p, q \in Processes : at[p] = "running" /\ at[q] = "running" => p = q
=============================================================================
