------------------------------ MODULE AtomicFile ------------------------------
(***************************************************************************)
(* A file of JSON that several writers replace and anybody may load:       *)
(* internal/fsatomic.  A writer holds the advisory lock, makes path.tmp,   *)
(* fills it and renames it; who loads the file first removes path.tmp,     *)
(* without the lock, as left over from a crash.  A writer goes on writing  *)
(* to a file that was removed, and fails when it comes to rename it.       *)
(***************************************************************************)
EXTENDS Naturals

CONSTANTS Writers, NoOne, Blank
ASSUME WriterAssumption == NoOne \notin Writers

VARIABLES
  file, tmp, \* [is |-> "none" | "torn" | "whole", data |-> what is in it]
  holder,    \* who has the lock of WithLock
  fd         \* the file each writer has open

atomic == <<file, tmp, holder, fd>>

NoFile == [is |-> "none", data |-> Blank]
Torn == [is |-> "torn", data |-> Blank]
Whole(d) == [is |-> "whole", data |-> d]

FileInit(f) == file = f /\ tmp = NoFile /\ holder = NoOne /\ fd = [w \in Writers |-> "none"]

\* Mutant: anybody writes at any time.
WithLock_None(w) == holder' = w

WithLock(w) == holder = NoOne /\ holder' = w
Unlock(w) == holder' = IF holder = w THEN NoOne ELSE holder

\* OpenFile with O_TRUNC.
Create(w) == tmp' = Torn /\ fd' = [fd EXCEPT ![w] = "tmp"] /\ UNCHANGED file
Fill(w, d) ==
  /\ tmp' = IF fd[w] = "tmp" THEN Whole(d) ELSE tmp
  /\ file' = IF fd[w] = "file" THEN Whole(d) ELSE file
  /\ UNCHANGED fd

\* What an open file is called once path.tmp is removed, or renamed.
Without(names) == [w \in Writers |-> IF fd[w] \in DOMAIN names THEN names[fd[w]] ELSE fd[w]]
Removed == [tmp |-> "lost"]
Renamed == [tmp |-> "file", file |-> "lost"]

RenameOver(w) == tmp # NoFile /\ file' = tmp /\ tmp' = NoFile /\ fd' = [Without(Renamed) EXCEPT ![w] = "none"]

\* Mutant: the file goes too.
Discard_Both(w) == tmp' = NoFile /\ fd' = [Without(Removed) EXCEPT ![w] = "none"] /\ file' = NoFile

\* A write that fails removes path.tmp, and so does a rename that fails.
Discard(w) == tmp' = NoFile /\ fd' = [Without(Removed) EXCEPT ![w] = "none"] /\ UNCHANGED file

\* LoadJSON, up to where it reads the file.
CleanUp == tmp' = NoFile /\ fd' = Without(Removed) /\ UNCHANGED <<file, holder>>
=============================================================================
