-------------------------- MODULE CrudasmMainProps --------------------------
(***************************************************************************)
(* What a run of crudasm9 does and leaves behind.                          *)
(***************************************************************************)
EXTENDS CrudasmMain, TLC

Locations == {"start", "name", "remove", "mkdir", "locate", "wait", "find", "info",
              "load", "cleanup", "rmdir", "output", "init", "returned"}

\* The types of the variables, a part of the first invariant below.
TypeOK ==
  /\ input \in [Instances -> Inputs] /\ pc \in [Instances -> Locations]
  /\ ok \in [Instances -> BOOLEAN] /\ rmdir_onexit \in [Instances -> BOOLEAN]
  /\ temp_location \in [Instances -> Names \cup {NoName}]
  /\ remove_onexit \in [Instances -> SUBSET FileNames]
  /\ exec_result \in [Instances -> -1..1] /\ status \in [Instances -> -1..1]
  /\ output \in [Instances -> {"untouched", "created", "listing"}]
  /\ entry \in [Names -> {"nothing", "file", "directory"}]
  /\ \A i \in Instances :
       /\ \A o \in open[i] : o.at \in Names /\ o.name \in FileNames
       /\ \A l \in loaded[i] : l.image \in Images /\ l.by \in Instances \cup {"user"}
  /\ \A n \in Names : \A c \in files[n] : c.name \in FileNames /\ c.by \in Instances
  /\ refused \in [Instances -> SUBSET Calls]

\* What is disassembled is complete and comes from one source: the files that
\* the user has named, or all three from the COFFLOAD that was started for it.
\* main takes the name of a file that GetTempFileNameW has made and makes a
\* directory in its place (crudasm9.cpp:1084): another instance may slip in
\* between, but it never comes to two of them using one directory.
LoadsOwnOutput ==
  TypeOK /\ \A i \in Instances : At(i, "init") =>
    CASE input[i] = "pe"  -> loaded[i] = {Image(k, i) : k \in Images}
      [] input[i] = "dat" -> loaded[i] = {Image(k, "user") : k \in Images}
      [] input[i] = "raw" -> loaded[i] = {Image("dat", "user")}

\* The files in the temporary directory that an instance is responsible for.
Left(i) == UNION {{c \in files[n] : c.by = i} : n \in Names}

\* Why a file may stay: the instance has it open (until it ends), or it was
\* refused its removal, or the search was refused that would have found it.
MayStay(i, c) ==
  \/ [at |-> temp_location[i], name |-> c.name] \in open[i]
  \/ c.name \in remove_onexit[i] /\ "RemoveFiles" \in refused[i]
  \/ c.name \notin remove_onexit[i] /\ "FindFiles" \in refused[i]

\* Whichever of its calls fail, COFFLOAD among them, an instance that returns
\* leaves a file in the temporary directory only if it has opened it, or if
\* the very call that was to find or to remove that file was refused; and of
\* the name it was given nothing stays, file or directory, but for such files,
\* a refused removal, or another instance that has been given the same name.
LeavesOnlyWhatItReads ==
  \A i \in Instances : At(i, "returned") =>
    /\ \A c \in Left(i) : MayStay(i, c)
    /\ (/\ temp_location[i] # NoName /\ Left(i) = {}
        /\ refused[i] \cap {"RemoveFile", "RemoveDirectory"} = {}) =>
         \/ entry[temp_location[i]] = "nothing"
         \/ \E j \in Instances \ {i} : temp_location[j] = temp_location[i]

\* "We'll then do our regular processing on the generated .DAT file, then
\* delete the .DAT file and the other temporary files made by COFFLOAD"
\* (crudasm9.cpp:10): nothing stays once a listing is there, if the system has
\* refused nothing.
DeletesTemporaryFiles ==
  \A i \in Instances :
    At(i, "returned") /\ output[i] = "listing" /\ refused[i] = {} => Left(i) = {}

\* The instances and the names are interchangeable.
InstanceSymmetry == Permutations(Instances) \cup Permutations(Names)
=============================================================================
