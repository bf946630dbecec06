---------------------------- MODULE CrudasmMain ----------------------------
(***************************************************************************)
(* main of util/main/crudasm9.cpp on Windows, with read_file of            *)
(* winhelpers.h: runs of the program, side by side, that share the         *)
(* directory for temporary files.  (The branch for other systems does not  *)
(* compile; the files there are read by functions of winhelpers.h only.)   *)
(*                                                                         *)
(* COFFLOAD, the program that loads an executable, and the file system are *)
(* external: COFFLOAD leaves any files in the directory it is given, and   *)
(* the system may refuse any call: to give a name, to make, search or      *)
(* remove, to start a program, to open a file or to read it. (Waiting for  *)
(* COFFLOAD is the exception; it returns when COFFLOAD has ended.) What    *)
(* main goes on without, without telling, is recorded in refused.          *)
(***************************************************************************)
EXTENDS Integers, FiniteSets

CONSTANTS
  Instances,   \* runs of crudasm9
  Names,       \* file names in the directory for temporary files
  NoName,
  MaxRefused   \* bound on the calls refused without main taking notice

ASSUME NoNameAssumption == NoName \notin Names

\* What the command line names: nothing, no file, a file that is not empty.
Inputs == {"none", "missing", "raw", "raw_without_bits", "dat", "dat_alone", "pe"}

Images == {"dat", "raw", "bin"}
FileNames == Images \cup {"info"}
Contents == {"absent", "empty", "full"}
Calls == {"RemoveFile", "FindFiles", "RemoveFiles", "RemoveDirectory"}

File(f, by, data) == [name |-> f, by |-> by, data |-> data]

VARIABLES
  input,          \* of each instance
  pc,
  ok,
  temp_location,
  rmdir_onexit,   \* is the directory to be removed
  remove_onexit,  \* the files to be removed
  exec_result,
  open,           \* files that are open, until the instance returns
  loaded,         \* the images to disassemble, with who made them
  output,         \* of ofasm
  status,         \* returned by main
  entry,          \* what each temporary name stands for
  files,          \* in each directory
  refused         \* for the properties: what the system has refused each
                  \* instance without main taking notice

local == <<input, ok, exec_result, output, status>>
temp == <<temp_location, rmdir_onexit, remove_onexit>>
disk == <<entry, files>>
read == <<open, loaded>>
vars == <<pc, local, temp, read, disk, refused>>

Init ==
  /\ input \in [Instances -> Inputs]
  /\ pc = [i \in Instances |-> "start"]
  /\ ok = [i \in Instances |-> TRUE]
  /\ temp_location = [i \in Instances |-> NoName]
  /\ rmdir_onexit = [i \in Instances |-> FALSE]
  /\ remove_onexit = [i \in Instances |-> {}]
  /\ exec_result = [i \in Instances |-> -1]
  /\ open = [i \in Instances |-> {}]
  /\ loaded = [i \in Instances |-> {}]
  /\ output = [i \in Instances |-> "untouched"]
  /\ status = [i \in Instances |-> -1]
  /\ entry = [n \in Names |-> "nothing"]
  /\ files = [n \in Names |-> {}]
  /\ refused = [i \in Instances |-> {}]

At(i, here) == pc[i] = here
Go(i, there) == pc' = [pc EXCEPT ![i] = there]
Fail(i) == ok' = [ok EXCEPT ![i] = FALSE] /\ Go(i, "cleanup")
Refuse(i, call) ==
  /\ refused' = [refused EXCEPT ![i] = @ \cup {call}]
  /\ Cardinality({p \in Instances \X Calls : p[2] \in refused'[p[1]]}) <= MaxRefused
Return(i, s) == status' = [status EXCEPT ![i] = s] /\ Go(i, "returned")

-----------------------------------------------------------------------------
(* What kind of input it is *)

\* Without the arguments it needs main explains them and returns 0.
Usage(i) ==
  /\ At(i, "start") /\ input[i] = "none"
  /\ Return(i, 0)
  /\ UNCHANGED <<input, ok, exec_result, output, temp, read, disk, refused>>

\* The file is not there or empty, the number of bits of a raw binary is not
\* given, or one of the two files beside a load description is missing.
Rejected(i) ==
  /\ At(i, "start") /\ input[i] \in {"missing", "raw_without_bits", "dat_alone"}
  /\ Return(i, 1)
  /\ UNCHANGED <<input, ok, exec_result, output, temp, read, disk, refused>>

Image(k, by) == [image |-> k, by |-> by]
Given(i) == IF input[i] = "dat" THEN Images ELSE {"dat"}
Accepted(i) ==
  /\ At(i, "start") /\ input[i] \in {"raw", "dat"}
  /\ loaded' = [loaded EXCEPT ![i] = {Image(k, "user") : k \in Given(i)}]
  /\ Go(i, "output")
  /\ UNCHANGED <<local, temp, open, disk, refused>>

IsPe(i) ==
  /\ At(i, "start") /\ input[i] = "pe"
  /\ Go(i, "name")
  /\ UNCHANGED <<local, temp, read, disk, refused>>

-----------------------------------------------------------------------------
(* The temporary directory *)

\* GetTempFileNameW finds a name that is not in use and creates an empty file.
TempFileName(i) ==
  /\ At(i, "name")
  /\ \E n \in Names :
       /\ entry[n] = "nothing"
       /\ entry' = [entry EXCEPT ![n] = "file"]
       /\ temp_location' = [temp_location EXCEPT ![i] = n]
  /\ Go(i, "remove")
  /\ UNCHANGED <<local, rmdir_onexit, remove_onexit, read, files, refused>>
NoTempFileName(i) ==
  /\ At(i, "name") /\ Fail(i)
  /\ UNCHANGED <<input, exec_result, output, status, temp, read, disk, refused>>

\* The file is removed (a directory of that name would stay).
RemoveFile(i) ==
  /\ At(i, "remove")
  /\ LET n == temp_location[i] IN
       \/ /\ entry' = IF entry[n] = "file" THEN [entry EXCEPT ![n] = "nothing"] ELSE entry
          /\ UNCHANGED refused
       \/ /\ entry[n] = "file"
          /\ Refuse(i, "RemoveFile") /\ UNCHANGED entry
  /\ Go(i, "mkdir")
  /\ UNCHANGED <<local, temp, read, files>>

MkdirSucceeds(i) == entry[temp_location[i]] = "nothing"
MakeDirectory(i) ==
  /\ At(i, "mkdir") /\ MkdirSucceeds(i)
  /\ entry' = [entry EXCEPT ![temp_location[i]] = "directory"]
  /\ rmdir_onexit' = [rmdir_onexit EXCEPT ![i] = TRUE]
  /\ Go(i, "locate")
  /\ UNCHANGED <<local, temp_location, remove_onexit, read, files, refused>>
NoDirectory(i) ==
  /\ At(i, "mkdir") /\ Fail(i)
  /\ UNCHANGED <<input, exec_result, output, status, temp, read, disk, refused>>

-----------------------------------------------------------------------------
(* COFFLOAD *)

\* The directory of the program is not known, or COFFLOAD is not in it.
NoCoffload(i) ==
  /\ At(i, "locate") /\ Fail(i)
  /\ UNCHANGED <<input, exec_result, output, status, temp, read, disk, refused>>

\* info.txt is to be removed whether COFFLOAD can be started or not.
Execute(i) ==
  /\ At(i, "locate")
  /\ remove_onexit' = [remove_onexit EXCEPT ![i] = {"info"}]
  /\ \/ Go(i, "wait") /\ UNCHANGED ok
     \/ Fail(i)
  /\ UNCHANGED <<input, exec_result, output, status, temp_location, rmdir_onexit, read, disk, refused>>

\* COFFLOAD ends, successful or not, and has written any of the files, some of
\* them perhaps without getting to their contents.
Coffload(i) ==
  /\ At(i, "wait")
  /\ \E images \in [Images -> Contents], info \in Contents, r \in {0, 1} :
       /\ LET data(f) == IF f = "info" THEN info ELSE images[f]
              written == {f \in FileNames : data(f) # "absent"}
              kept == {c \in files[temp_location[i]] : c.name \notin written}
          IN  files' = [files EXCEPT ![temp_location[i]] =
                          kept \cup {File(f, i, data(f)) : f \in written}]
       /\ exec_result' = [exec_result EXCEPT ![i] = r]
  /\ Go(i, "find")
  /\ UNCHANGED <<input, ok, output, status, temp, read, entry, refused>>

\* The files that COFFLOAD names after the executable are to be removed, too,
\* whether it was successful or not: those that the search returns before it
\* ends, by itself or because it fails.
Found(i) == {c.name : c \in files[temp_location[i]]} \cap Images
FindFiles_if_successful(i) ==
  /\ At(i, "find")
  /\ IF exec_result[i] = 0
     THEN /\ remove_onexit' = [remove_onexit EXCEPT ![i] = @ \cup Found(i)]
          /\ Go(i, "info") /\ UNCHANGED ok
     ELSE Fail(i) /\ UNCHANGED remove_onexit
  /\ UNCHANGED <<input, exec_result, output, status, temp_location, rmdir_onexit, read, disk, refused>>
FindFiles(i) ==
  /\ At(i, "find")
  /\ \E found \in SUBSET Found(i) :
       /\ remove_onexit' = [remove_onexit EXCEPT ![i] = @ \cup found]
       /\ IF found = Found(i) THEN UNCHANGED refused ELSE Refuse(i, "FindFiles")
  /\ IF exec_result[i] = 0 THEN Go(i, "info") /\ UNCHANGED ok ELSE Fail(i)
  /\ UNCHANGED <<input, exec_result, output, status, temp_location, rmdir_onexit, read, disk>>

-----------------------------------------------------------------------------
(* Reading what COFFLOAD has written *)

\* read_file closes a file that turns out to be empty, and no other, read or
\* not; it opens any of the files, as the system may refuse to open one.
Readable(i, F) == {c \in files[temp_location[i]] : c.name \in F /\ c.data # "empty"}
Open(i, cs) ==
  open' = [open EXCEPT ![i] = @ \cup {[at |-> temp_location[i], name |-> c.name] : c \in cs}]

\* What was opened may still not be read, or not speak of success; that need
\* not agree with the result of COFFLOAD.
ReadInfo(i) ==
  /\ At(i, "info")
  /\ \E opened \in SUBSET Readable(i, {"info"}) :
       /\ Open(i, opened)
       /\ \/ opened # {} /\ Go(i, "load") /\ UNCHANGED ok
          \/ Fail(i)
  /\ UNCHANGED <<input, exec_result, output, status, temp, loaded, disk, refused>>

Complete_any(images) == images # {}
Complete(images) == {l.image : l \in images} = Images
ReadImages(i) ==
  /\ At(i, "load")
  /\ \E opened \in SUBSET Readable(i, Images) : \E got \in SUBSET opened :
       LET images == {Image(c.name, c.by) : c \in got}
       IN  /\ Open(i, opened)
           /\ IF Complete(images)
              THEN loaded' = [loaded EXCEPT ![i] = images] /\ Go(i, "cleanup") /\ UNCHANGED ok
              ELSE Fail(i) /\ UNCHANGED loaded
  /\ UNCHANGED <<input, exec_result, output, status, temp, disk, refused>>

-----------------------------------------------------------------------------
(* The end *)

\* A file that is open cannot be removed, nor a directory with a file in it.
InUse(n, f) == \E j \in Instances : pc[j] # "returned" /\ [at |-> n, name |-> f] \in open[j]
Removable(i) ==
  {c \in files[temp_location[i]] :
     c.name \in remove_onexit[i] /\ ~InUse(temp_location[i], c.name)}
RemoveFiles(i) ==
  /\ At(i, "cleanup") /\ remove_onexit[i] # {}
  /\ \E gone \in SUBSET Removable(i) :
       /\ files' = [files EXCEPT ![temp_location[i]] = @ \ gone]
       /\ IF gone = Removable(i) THEN UNCHANGED refused ELSE Refuse(i, "RemoveFiles")
  /\ Go(i, "rmdir")
  /\ UNCHANGED <<local, temp, read, entry>>
NothingToRemove(i) ==
  /\ At(i, "cleanup") /\ remove_onexit[i] = {}
  /\ Go(i, "rmdir")
  /\ UNCHANGED <<local, temp, read, disk, refused>>

\* The directory is removed when it is empty, if there is one.
MayRemove(i) == rmdir_onexit[i] /\ files[temp_location[i]] = {}
RemoveDirectory(i) ==
  /\ At(i, "rmdir")
  /\ \/ /\ MayRemove(i)
        /\ entry' = [entry EXCEPT ![temp_location[i]] = "nothing"]
        /\ UNCHANGED refused
     \/ /\ MayRemove(i)
        /\ Refuse(i, "RemoveDirectory") /\ UNCHANGED entry
     \/ /\ ~MayRemove(i)
        /\ UNCHANGED <<entry, refused>>
  /\ IF ok[i] THEN Go(i, "output") /\ UNCHANGED status ELSE Return(i, 1)
  /\ UNCHANGED <<input, ok, exec_result, output, temp, read, files>>

NoOutput(i) ==
  /\ At(i, "output") /\ Return(i, 1)
  /\ UNCHANGED <<input, ok, exec_result, output, temp, read, disk, refused>>
CreateOutput(i) ==
  /\ At(i, "output")
  /\ output' = [output EXCEPT ![i] = "created"]
  /\ Go(i, "init")
  /\ UNCHANGED <<input, ok, exec_result, status, temp, read, disk, refused>>

\* init may reject the images; the result is 0 all the same.
Disassemble(i) ==
  /\ At(i, "init")
  /\ \/ output' = [output EXCEPT ![i] = "listing"]
     \/ UNCHANGED output
  /\ Return(i, 0)
  /\ UNCHANGED <<input, ok, exec_result, temp, read, disk, refused>>

Step(i) ==
  \/ Usage(i) \/ Rejected(i) \/ Accepted(i) \/ IsPe(i)
  \/ TempFileName(i) \/ NoTempFileName(i) \/ RemoveFile(i)
  \/ MakeDirectory(i) \/ NoDirectory(i)
  \/ NoCoffload(i) \/ Execute(i) \/ Coffload(i) \/ FindFiles(i)
  \/ ReadInfo(i) \/ ReadImages(i)
  \/ RemoveFiles(i) \/ NothingToRemove(i) \/ RemoveDirectory(i)
  \/ NoOutput(i) \/ CreateOutput(i) \/ Disassemble(i)

Returned == (\A i \in Instances : At(i, "returned")) /\ UNCHANGED vars

Next == Returned \/ \E i \in Instances : Step(i)

Spec == Init /\ [][Next]_vars
=============================================================================
