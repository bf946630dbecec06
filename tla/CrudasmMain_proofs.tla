------------------------- MODULE CrudasmMain_proofs ------------------------
(***************************************************************************)
(* Proofs about runs of crudasm9 that share a directory for temporary      *)
(* files, for any number of runs and of names.                             *)
(***************************************************************************)
EXTENDS CrudasmMainProps, TLAPS

-----------------------------------------------------------------------------
(* The inductive invariant *)

FileRecords == [name : FileNames, by : Instances,
                data : Contents]
ImageRecords == [image : Images, by : Instances \cup {"user"}]

\* The types, with those of the variables that are functions of sets.
Types ==
  /\ TypeOK
  /\ open \in [Instances -> SUBSET [at : Names, name : FileNames]]
  /\ loaded \in [Instances -> SUBSET ImageRecords]
  /\ files \in [Names -> SUBSET FileRecords]

BeforeDirectory == {"start", "name", "remove", "mkdir"}
InDirectory == {"locate", "wait", "find", "info", "load"}
Cleaning == {"cleanup", "rmdir"}
AfterCleaning == {"output", "init", "returned"}

\* What an instance knows at each place of main.
Progress(i) ==
  /\ pc[i] \in BeforeDirectory => ~rmdir_onexit[i]
  /\ pc[i] \in {"start", "name"} => temp_location[i] = NoName
  /\ pc[i] \in {"remove", "mkdir"} => temp_location[i] \in Names
  /\ pc[i] \in InDirectory => rmdir_onexit[i]
  /\ rmdir_onexit[i] => temp_location[i] \in Names
  /\ remove_onexit[i] # {} => rmdir_onexit[i]
  /\ pc[i] \in {"wait", "find"} => "info" \in remove_onexit[i]

\* The files that i is responsible for are in its directory, which it made.
Has(i, c) == c \in files[temp_location[i]] /\ c.by = i
Located == \A n \in Names : \A c \in files[n] :
             temp_location[c.by] = n /\ rmdir_onexit[c.by]

\* An instance uses the directory it made until it has cleaned up, and after
\* that as long as there is a file of its own in it.
Using(i) ==
  /\ rmdir_onexit[i]
  /\ pc[i] \in InDirectory \cup Cleaning \/ \E c \in files[temp_location[i]] : c.by = i

\* A directory that is used is there, and one instance uses it.
Exclusive ==
  /\ \A i \in Instances : Using(i) => entry[temp_location[i]] = "directory"
  /\ \A i, j \in Instances :
       Using(i) /\ Using(j) /\ temp_location[i] = temp_location[j] => i = j

\* The files that are open are files of the instance's own, in its directory.
OpenOwn(i) ==
  \A o \in open[i] :
    /\ rmdir_onexit[i] /\ o.at = temp_location[i]
    /\ pc[i] # "returned" => \E c \in files[o.at] : c.by = i /\ c.name = o.name

\* Which of its files an instance will remove, or has left.
Remembered(i) ==
  rmdir_onexit[i] => \A c \in files[temp_location[i]] : c.by = i =>
    /\ pc[i] \notin {"locate", "wait"}
    /\ pc[i] \in {"info", "load", "cleanup"} =>
         c.name \in remove_onexit[i] \/ "FindFiles" \in refused[i]
    /\ pc[i] \in {"rmdir"} \cup AfterCleaning => MayStay(i, c)

\* Where an instance has, or should have, nothing left of its own under its
\* name: before it makes the directory, if it makes none, and in the end.
Emptied(i) ==
  /\ \/ pc[i] \in AfterCleaning
     \/ pc[i] \in {"mkdir"} \cup Cleaning /\ ~rmdir_onexit[i]
  /\ temp_location[i] \in Names
  /\ \A c \in files[temp_location[i]] : c.by # i
  /\ refused[i] \cap {"RemoveFile", "RemoveDirectory"} = {}

\* The name then stands for nothing, or has been given to another instance.
Vacated(i) ==
  Emptied(i) =>
     \/ entry[temp_location[i]] = "nothing"
     \/ \E j \in Instances \ {i} : temp_location[j] = temp_location[i]

\* The images an instance goes on with.
OwnImages(i) == {Image(k, i) : k \in Images}
Sourced(i) ==
  /\ pc[i] \in {"name", "remove", "mkdir"} \cup InDirectory \cup Cleaning => input[i] = "pe"
  /\ pc[i] \in Cleaning /\ ok[i] => loaded[i] = OwnImages(i)
  /\ pc[i] \in {"output", "init"} =>
       \/ input[i] = "pe" /\ loaded[i] = OwnImages(i)
       \/ input[i] = "dat" /\ loaded[i] = {Image(k, "user") : k \in Images}
       \/ input[i] = "raw" /\ loaded[i] = {Image("dat", "user")}

\* The name an instance has been given is that of the file that was made for
\* it, until it removes the file.
Reserved ==
  /\ \A i \in Instances : pc[i] = "remove" => entry[temp_location[i]] = "file"
  /\ \A i, j \in Instances :
       pc[i] = "remove" /\ pc[j] = "remove" /\ temp_location[i] = temp_location[j] => i = j

\* What holds of one instance.
Own(i) == Progress(i) /\ OpenOwn(i) /\ Remembered(i) /\ Vacated(i) /\ Sourced(i)

Inv == Types /\ Located /\ Exclusive /\ Reserved /\ \A i \in Instances : Own(i)

-----------------------------------------------------------------------------
(* Steps of one instance and the others *)

\* What an instance has of its own.
SameFor(j) ==
  /\ pc'[j] = pc[j] /\ input'[j] = input[j] /\ ok'[j] = ok[j]
  /\ temp_location'[j] = temp_location[j] /\ rmdir_onexit'[j] = rmdir_onexit[j]
  /\ remove_onexit'[j] = remove_onexit[j]
  /\ open'[j] = open[j] /\ loaded'[j] = loaded[j] /\ refused'[j] = refused[j]

\* A refused call is recorded for the instance that made it.
LEMMA Refusal ==
  ASSUME Types, NEW i \in Instances, NEW call \in Calls,
         Refuse(i, call) \/ UNCHANGED refused
  PROVE  /\ refused' \in [Instances -> SUBSET Calls]
         /\ refused[i] \subseteq refused'[i]
         /\ Refuse(i, call) => call \in refused'[i]
         /\ \A j \in Instances \ {i} : refused'[j] = refused[j]
  <1>1. refused \in [Instances -> SUBSET Calls]
    BY DEF Types, TypeOK
  <1>2. Refuse(i, call) => refused' = [refused EXCEPT ![i] = @ \cup {call}]
    BY DEF Refuse
  <1>3. CASE UNCHANGED refused /\ ~Refuse(i, call)
    BY <1>1, <1>3
  <1>4. CASE refused' = [refused EXCEPT ![i] = @ \cup {call}]
    BY <1>1, <1>4
  <1>5. QED
    BY <1>2, <1>3, <1>4

\* The steps in which a call may be refused.
LEMMA RefusalSteps ==
  ASSUME Types, NEW i \in Instances, Step(i)
  PROVE  /\ refused' \in [Instances -> SUBSET Calls]
         /\ refused[i] \subseteq refused'[i]
         /\ \A j \in Instances \ {i} : refused'[j] = refused[j]
  <1>1. \/ UNCHANGED refused \/ Refuse(i, "RemoveFile") \/ Refuse(i, "FindFiles")
        \/ Refuse(i, "RemoveFiles") \/ Refuse(i, "RemoveDirectory")
    BY DEF Step, Usage, Rejected, Accepted, IsPe, TempFileName, NoTempFileName,
      RemoveFile, MakeDirectory, NoDirectory, NoCoffload, Execute, Coffload,
      FindFiles, ReadInfo, ReadImages, RemoveFiles, NothingToRemove,
      RemoveDirectory, NoOutput, CreateOutput, Disassemble
  <1>2. QED
    BY <1>1, Refusal DEF Calls

\* A step of one instance changes nothing of the others but what they share.
LEMMA Others ==
  ASSUME Types, NEW i \in Instances, NEW j \in Instances, i # j, Step(i)
  PROVE  SameFor(j)
  <1>refused. refused'[j] = refused[j]
    BY RefusalSteps
  <1> USE <1>refused DEF SameFor, At, Go, Fail, Return, local, temp, disk, read
  <1>0. /\ pc \in [Instances -> Locations] /\ ok \in [Instances -> BOOLEAN]
        /\ temp_location \in [Instances -> Names \cup {NoName}]
        /\ rmdir_onexit \in [Instances -> BOOLEAN]
        /\ remove_onexit \in [Instances -> SUBSET FileNames]
        /\ DOMAIN open = Instances /\ DOMAIN loaded = Instances
    BY DEF Types, TypeOK
  <1>1. CASE Usage(i)
    BY <1>0, <1>1 DEF Usage
  <1>2. CASE Rejected(i)
    BY <1>0, <1>2 DEF Rejected
  <1>3. CASE Accepted(i)
    BY <1>0, <1>3 DEF Accepted
  <1>4. CASE IsPe(i)
    BY <1>0, <1>4 DEF IsPe
  <1>5. CASE TempFileName(i)
    BY <1>0, <1>5 DEF TempFileName
  <1>6. CASE NoTempFileName(i)
    BY <1>0, <1>6 DEF NoTempFileName
  <1>7. CASE RemoveFile(i)
    BY <1>0, <1>7 DEF RemoveFile
  <1>8. CASE MakeDirectory(i)
    BY <1>0, <1>8 DEF MakeDirectory
  <1>9. CASE NoDirectory(i)
    BY <1>0, <1>9 DEF NoDirectory
  <1>10. CASE NoCoffload(i)
    BY <1>0, <1>10 DEF NoCoffload
  <1>11. CASE Execute(i)
    BY <1>0, <1>11 DEF Execute
  <1>12. CASE Coffload(i)
    BY <1>0, <1>12 DEF Coffload
  <1>13. CASE FindFiles(i)
    BY <1>0, <1>13 DEF FindFiles
  <1>14. CASE ReadInfo(i)
    BY <1>0, <1>14 DEF ReadInfo, Open
  <1>15. CASE ReadImages(i)
    BY <1>0, <1>15 DEF ReadImages, Open
  <1>16. CASE RemoveFiles(i)
    BY <1>0, <1>16 DEF RemoveFiles
  <1>17. CASE NothingToRemove(i)
    BY <1>0, <1>17 DEF NothingToRemove
  <1>18. CASE RemoveDirectory(i)
    BY <1>0, <1>18 DEF RemoveDirectory
  <1>19. CASE NoOutput(i)
    BY <1>0, <1>19 DEF NoOutput
  <1>20. CASE CreateOutput(i)
    BY <1>0, <1>20 DEF CreateOutput
  <1>21. CASE Disassemble(i)
    BY <1>0, <1>21 DEF Disassemble
  <1>22. QED
    BY <1>1, <1>2, <1>3, <1>4, <1>5, <1>6, <1>7, <1>8, <1>9, <1>10, <1>11, <1>12, <1>13, <1>14, <1>15, <1>16, <1>17, <1>18, <1>19, <1>20, <1>21 DEF Step

\* While it works in its directory an instance has a name for it, and what is
\* in it are files.
LEMMA Here ==
  ASSUME Types, NEW i \in Instances, Progress(i), pc[i] \in InDirectory
  PROVE  /\ temp_location[i] \in Names /\ rmdir_onexit[i]
         /\ files[temp_location[i]] \in SUBSET FileRecords
BY DEF Types, Progress

\* Every step keeps the types.
LEMMA TypesStep ==
  ASSUME Types, NEW i \in Instances, Step(i), Progress(i)
  PROVE  Types'
  <1>refused. refused' \in [Instances -> SUBSET Calls]
    BY RefusalSteps
  <1> USE <1>refused DEF Types, TypeOK, At, Go, Fail, Return, local, temp, disk, read,
        Locations, FileNames
  <1>1. CASE Usage(i)
    BY <1>1 DEF Usage
  <1>2. CASE Rejected(i)
    BY <1>2 DEF Rejected
  <1>3. CASE Accepted(i)
    <2>1. {Image(k, "user") : k \in Given(i)} \in SUBSET ImageRecords
      BY DEF Given, Image, Images, ImageRecords
    <2>2. /\ loaded' = [loaded EXCEPT ![i] = {Image(k, "user") : k \in Given(i)}]
          /\ pc' = [pc EXCEPT ![i] = "output"]
          /\ UNCHANGED <<input, ok, exec_result, output, status>>
          /\ UNCHANGED <<temp_location, rmdir_onexit, remove_onexit>>
          /\ UNCHANGED <<open, entry, files>>
      BY <1>3 DEF Accepted
    <2>3. loaded' \in [Instances -> SUBSET ImageRecords]
      BY <2>1, <2>2
    <2>4. \A j \in Instances : \A l \in loaded'[j] :
            l.image \in Images /\ l.by \in Instances \cup {"user"}
      BY <2>3 DEF ImageRecords
    <2>5. QED
      BY <2>2, <2>3, <2>4
  <1>4. CASE IsPe(i)
    BY <1>4 DEF IsPe
  <1>5. CASE TempFileName(i)
    BY <1>5 DEF TempFileName
  <1>6. CASE NoTempFileName(i)
    BY <1>6 DEF NoTempFileName
  <1>7. CASE RemoveFile(i)
    BY <1>7 DEF RemoveFile
  <1>8. CASE MakeDirectory(i)
    BY <1>8 DEF MakeDirectory
  <1>9. CASE NoDirectory(i)
    BY <1>9 DEF NoDirectory
  <1>10. CASE NoCoffload(i)
    BY <1>10 DEF NoCoffload
  <1>11. CASE Execute(i)
    <2>1. remove_onexit' = [remove_onexit EXCEPT ![i] = {"info"}]
      BY <1>11 DEF Execute
    <2>2. remove_onexit' \in [Instances -> SUBSET FileNames]
      BY <2>1
    <2>3. /\ pc' \in [Instances -> Locations] /\ ok' \in [Instances -> BOOLEAN]
      <3>1. \/ pc' = [pc EXCEPT ![i] = "wait"] /\ ok' = ok
            \/ /\ pc' = [pc EXCEPT ![i] = "cleanup"]
               /\ ok' = [ok EXCEPT ![i] = FALSE]
        BY <1>11 DEF Execute
      <3>2. pc \in [Instances -> Locations] /\ ok \in [Instances -> BOOLEAN]
        OBVIOUS
      <3>3. CASE pc' = [pc EXCEPT ![i] = "wait"] /\ ok' = ok
        BY <3>2, <3>3
      <3>4. CASE /\ pc' = [pc EXCEPT ![i] = "cleanup"]
                 /\ ok' = [ok EXCEPT ![i] = FALSE]
        BY <3>2, <3>4
      <3>5. QED
        BY <3>1, <3>3, <3>4
    <2>4. /\ UNCHANGED <<input, exec_result, output, status, entry, files>>
          /\ UNCHANGED <<temp_location, rmdir_onexit, open, loaded>>
      BY <1>11 DEF Execute
    <2>5. QED
      BY <2>2, <2>3, <2>4
  <1>12. CASE Coffload(i)
    <2> DEFINE n == temp_location[i]
    <2>1. PICK images \in [Images -> Contents], info \in Contents, r \in {0, 1} :
                 /\ LET data(f) == IF f = "info" THEN info ELSE images[f]
                        written == {f \in FileNames : data(f) # "absent"}
                        kept == {c \in files[n] : c.name \notin written}
                    IN  files' = [files EXCEPT ![n] =
                                    kept \cup {File(f, i, data(f)) : f \in written}]
                 /\ exec_result' = [exec_result EXCEPT ![i] = r]
      BY <1>12 DEF Coffload
    <2> DEFINE data(f) == IF f = "info" THEN info ELSE images[f]
               written == {f \in FileNames : data(f) # "absent"}
               kept == {c \in files[n] : c.name \notin written}
               new == {File(f, i, data(f)) : f \in written}
    <2>2. n \in Names /\ files[n] \in SUBSET FileRecords
      BY <1>12, Here DEF Coffload, InDirectory
    <2>3. new \in SUBSET FileRecords
      BY DEF File, FileRecords
    <2>4. files' = [files EXCEPT ![n] = kept \cup new]
      BY <2>1
    <2>5. files' \in [Names -> SUBSET FileRecords]
      <3>1. kept \cup new \in SUBSET FileRecords
        BY <2>2, <2>3
      <3> HIDE DEF kept, new
      <3>2. QED
        BY <2>2, <2>4, <3>1
    <2>6. \A m \in Names : \A c \in files'[m] : c.name \in FileNames /\ c.by \in Instances
      BY <2>5 DEF FileRecords
    <2>7. exec_result' \in [Instances -> -1..1]
      BY <2>1
    <2>8. /\ pc' \in [Instances -> Locations]
          /\ UNCHANGED <<input, ok, output, status, entry, open, loaded>>
          /\ UNCHANGED <<temp_location, rmdir_onexit, remove_onexit>>
      BY <1>12 DEF Coffload
    <2>9. QED
      BY <2>5, <2>6, <2>7, <2>8
  <1>13. CASE FindFiles(i)
    <2>1. PICK found \in SUBSET Found(i) :
            remove_onexit' = [remove_onexit EXCEPT ![i] = @ \cup found]
      BY <1>13 DEF FindFiles
    <2>2. remove_onexit' \in [Instances -> SUBSET FileNames]
      BY <2>1 DEF Found
    <2>3. /\ pc' \in [Instances -> Locations] /\ ok' \in [Instances -> BOOLEAN]
          /\ UNCHANGED <<input, exec_result, output, status, entry, files>>
          /\ UNCHANGED <<temp_location, rmdir_onexit, open, loaded>>
      BY <1>13 DEF FindFiles
    <2>4. QED
      BY <2>2, <2>3
  <1>14. CASE ReadInfo(i)
    <2>1. temp_location[i] \in Names /\ Readable(i, {"info"}) \subseteq FileRecords
      BY <1>14, Here DEF ReadInfo, InDirectory, Readable
    <2>2. open' \in [Instances -> SUBSET [at : Names, name : FileNames]]
      <3>1. PICK opened \in SUBSET Readable(i, {"info"}) : Open(i, opened)
        BY <1>14 DEF ReadInfo
      <3> DEFINE new == {[at |-> temp_location[i], name |-> c.name] : c \in opened}
      <3>2. new \in SUBSET [at : Names, name : FileNames]
        BY <2>1 DEF FileRecords
      <3>3. open' = [open EXCEPT ![i] = @ \cup new]
        BY <3>1 DEF Open
      <3> HIDE DEF new
      <3>4. QED
        BY <3>2, <3>3
    <2>3. \A j \in Instances : \A o \in open'[j] : o.at \in Names /\ o.name \in FileNames
      BY <2>2
    <2>4. /\ pc' \in [Instances -> Locations] /\ ok' \in [Instances -> BOOLEAN]
      <3>1. \/ pc' = [pc EXCEPT ![i] = "load"] /\ ok' = ok
            \/ /\ pc' = [pc EXCEPT ![i] = "cleanup"]
               /\ ok' = [ok EXCEPT ![i] = FALSE]
        BY <1>14 DEF ReadInfo
      <3>2. pc \in [Instances -> Locations] /\ ok \in [Instances -> BOOLEAN]
        OBVIOUS
      <3>3. CASE pc' = [pc EXCEPT ![i] = "load"] /\ ok' = ok
        BY <3>2, <3>3
      <3>4. CASE /\ pc' = [pc EXCEPT ![i] = "cleanup"]
                 /\ ok' = [ok EXCEPT ![i] = FALSE]
        BY <3>2, <3>4
      <3>5. QED
        BY <3>1, <3>3, <3>4
    <2>5. /\ UNCHANGED <<input, exec_result, output, status, entry, files>>
          /\ UNCHANGED <<temp_location, rmdir_onexit, remove_onexit, loaded>>
      BY <1>14 DEF ReadInfo
    <2>6. QED
      BY <2>2, <2>3, <2>4, <2>5
  <1>15. CASE ReadImages(i)
    <2>1. temp_location[i] \in Names /\ Readable(i, Images) \subseteq FileRecords
      BY <1>15, Here DEF ReadImages, InDirectory, Readable
    <2>2. open' \in [Instances -> SUBSET [at : Names, name : FileNames]]
      <3>1. PICK opened \in SUBSET Readable(i, Images) : Open(i, opened)
        BY <1>15 DEF ReadImages
      <3> DEFINE new == {[at |-> temp_location[i], name |-> c.name] : c \in opened}
      <3>2. new \in SUBSET [at : Names, name : FileNames]
        BY <2>1 DEF FileRecords
      <3>3. open' = [open EXCEPT ![i] = @ \cup new]
        BY <3>1 DEF Open
      <3> HIDE DEF new
      <3>4. QED
        BY <3>2, <3>3
    <2>3. \A j \in Instances : \A o \in open'[j] : o.at \in Names /\ o.name \in FileNames
      BY <2>2
    <2>4. PICK got \in SUBSET Readable(i, Images) :
            \/ loaded' = loaded
            \/ loaded' = [loaded EXCEPT ![i] = {Image(c.name, c.by) : c \in got}]
      BY <1>15 DEF ReadImages
    <2>5. loaded' \in [Instances -> SUBSET ImageRecords]
      <3> DEFINE new == {Image(c.name, c.by) : c \in got}
      <3>1. new \in SUBSET ImageRecords
        BY <2>1 DEF Readable, Image, ImageRecords, FileRecords
      <3> HIDE DEF new
      <3>2. QED
        BY <2>4, <3>1 DEF new
    <2>6. \A j \in Instances : \A l \in loaded'[j] :
            l.image \in Images /\ l.by \in Instances \cup {"user"}
      BY <2>5 DEF ImageRecords
    <2>7. /\ pc' \in [Instances -> Locations] /\ ok' \in [Instances -> BOOLEAN]
      BY <1>15 DEF ReadImages
    <2>8. /\ UNCHANGED <<input, exec_result, output, status, entry, files>>
          /\ UNCHANGED <<temp_location, rmdir_onexit, remove_onexit>>
      BY <1>15 DEF ReadImages
    <2>9. QED
      BY <2>2, <2>3, <2>5, <2>6, <2>7, <2>8
  <1>16. CASE RemoveFiles(i)
    <2>1. PICK gone \in SUBSET Removable(i) :
            files' = [files EXCEPT ![temp_location[i]] = @ \ gone]
      BY <1>16 DEF RemoveFiles
    <2>2. \A m \in Names : files'[m] \subseteq files[m]
      BY <2>1
    <2>3. files' \in [Names -> SUBSET FileRecords]
      BY <2>1
    <2>4. /\ pc' \in [Instances -> Locations]
          /\ UNCHANGED <<input, ok, exec_result, output, status, entry, open, loaded>>
          /\ UNCHANGED <<temp_location, rmdir_onexit, remove_onexit>>
      BY <1>16 DEF RemoveFiles
    <2>5. QED
      BY <2>2, <2>3, <2>4
  <1>17. CASE NothingToRemove(i)
    BY <1>17 DEF NothingToRemove
  <1>18. CASE RemoveDirectory(i)
    BY <1>18 DEF RemoveDirectory
  <1>19. CASE NoOutput(i)
    BY <1>19 DEF NoOutput
  <1>20. CASE CreateOutput(i)
    BY <1>20 DEF CreateOutput
  <1>21. CASE Disassemble(i)
    BY <1>21 DEF Disassemble
  <1>22. QED
    BY <1>1, <1>2, <1>3, <1>4, <1>5, <1>6, <1>7, <1>8, <1>9, <1>10, <1>11, <1>12, <1>13, <1>14, <1>15, <1>16, <1>17, <1>18, <1>19, <1>20, <1>21 DEF Step

-----------------------------------------------------------------------------
(* What the others keep *)

\* What a step leaves alone of what j shares: its own files, what has its name,
\* unless that is removed or the name given away, and names once chosen.
SharedFor(j) ==
  /\ temp_location[j] \in Names =>
       /\ \A c : c.by = j => (c \in files'[temp_location[j]] <=>
                              c \in files[temp_location[j]])
       /\ \/ entry'[temp_location[j]] = "nothing"
          \/ entry'[temp_location[j]] = entry[temp_location[j]]
          \/ \E k \in Instances \ {j} : temp_location'[k] = temp_location[j]
  /\ \A k \in Instances :
       temp_location'[k] = temp_location[k] \/ temp_location[k] = NoName

\* All that holds of an instance holds after a step of another.
LEMMA OthersKeep ==
  ASSUME Inv, NEW j \in Instances, SameFor(j), SharedFor(j)
  PROVE  Own(j)'
  <1>0. rmdir_onexit[j] => temp_location[j] \in Names
    BY DEF Inv, Own, Progress
  <1>1. Progress(j)' /\ Sourced(j)'
    BY DEF Inv, Own, Progress, Sourced, SameFor, OwnImages
  <1>2. OpenOwn(j)'
    BY <1>0 DEF Inv, Own, OpenOwn, SameFor, SharedFor
  <1>3. Remembered(j)'
    BY <1>0 DEF Inv, Own, Remembered, MayStay, SameFor, SharedFor
  <1>4. Vacated(j)'
    <2> SUFFICES ASSUME Emptied(j)'
                 PROVE  \/ entry'[temp_location[j]] = "nothing"
                        \/ \E k \in Instances \ {j} :
                             temp_location'[k] = temp_location[j]
      BY DEF Vacated, SameFor
    <2>1. Emptied(j) /\ temp_location[j] \in Names
      BY DEF Emptied, SameFor, SharedFor
    <2>2. temp_location[j] # NoName
      BY <2>1, NoNameAssumption
    <2>3. CASE entry[temp_location[j]] = "nothing"
      BY <2>1, <2>3 DEF SharedFor
    <2>4. CASE \E k \in Instances \ {j} : temp_location[k] = temp_location[j]
      BY <2>2, <2>4 DEF SharedFor
    <2>5. QED
      BY <2>1, <2>3, <2>4 DEF Inv, Own, Vacated
  <1>5. QED
    BY <1>1, <1>2, <1>3, <1>4 DEF Own

\* In the directory that an instance uses there is no file of another one.
LEMMA Mine ==
  ASSUME Inv, NEW i \in Instances, Using(i)
  PROVE  /\ temp_location[i] \in Names
         /\ entry[temp_location[i]] = "directory"
         /\ \A c \in files[temp_location[i]] : c.by = i
  <1>1. temp_location[i] \in Names /\ entry[temp_location[i]] = "directory"
    BY DEF Inv, Own, Progress, Exclusive, Using
  <1>2. ASSUME NEW c \in files[temp_location[i]] PROVE c.by = i
    <2>1. c.by \in Instances
      BY <1>1 DEF Inv, Types, FileRecords
    <2>2. temp_location[c.by] = temp_location[i] /\ rmdir_onexit[c.by]
      BY <1>1 DEF Inv, Located
    <2>3. Using(c.by)
      BY <2>1, <2>2 DEF Using
    <2>4. QED
      BY <2>1, <2>2, <2>3 DEF Inv, Exclusive
  <1>3. QED
    BY <1>1, <1>2

\* Steps that leave the names and the disk alone.
Steady(i) ==
  /\ UNCHANGED <<temp_location, rmdir_onexit, entry, files>>
  /\ Using(i)' => Using(i)
  /\ pc'[i] # "remove"

\* They keep what is shared, and what the other instances have.
LEMMA SteadyKeeps ==
  ASSUME Inv, NEW i \in Instances, Steady(i),
         \A j \in Instances \ {i} : SameFor(j)
  PROVE  /\ Located' /\ Exclusive' /\ Reserved'
         /\ \A j \in Instances \ {i} : Own(j)'
  <1>1. Located'
    BY DEF Inv, Located, Steady
  <1>2. \A j \in Instances : Using(j)' => Using(j)
    BY DEF Steady, SameFor, Using
  <1>3. Exclusive'
    BY <1>2 DEF Inv, Exclusive, Steady
  <1>4. \A j \in Instances \ {i} : SharedFor(j)
    BY DEF SharedFor, Steady
  <1>5. Reserved'
    BY DEF Inv, Reserved, Steady, SameFor
  <1>6. QED
    BY <1>1, <1>3, <1>4, <1>5, OthersKeep

-----------------------------------------------------------------------------
(* Steps that go on, or give up, without touching the disk *)

Moves == {<<"start", "returned">>, <<"start", "name">>, <<"name", "cleanup">>,
          <<"mkdir", "cleanup">>, <<"locate", "cleanup">>, <<"cleanup", "rmdir">>,
          <<"output", "returned">>, <<"output", "init">>, <<"init", "returned">>}

\* i goes from one place to the next; it has failed if it goes to the end from
\* before COFFLOAD, and nothing is to be removed if it removes nothing.
PlainMove(i) ==
  /\ <<pc[i], pc'[i]>> \in Moves
  /\ UNCHANGED <<temp_location, rmdir_onexit, remove_onexit, entry, files>>
  /\ UNCHANGED <<open, loaded, input, refused>>
  /\ pc'[i] = "cleanup" => ~ok'[i]
  /\ pc'[i] # "cleanup" => ok'[i] = ok[i]
  /\ pc'[i] = "rmdir" => remove_onexit[i] = {}
  /\ pc'[i] = "name" => input[i] = "pe"

\* A plain move keeps all that holds of the instance.
LEMMA PlainMoveKeeps ==
  ASSUME Inv, NEW i \in Instances, PlainMove(i)
  PROVE  Steady(i) /\ Own(i)'
  <1>1. \/ pc[i] = "start" /\ pc'[i] \in {"returned", "name"}
        \/ pc[i] \in {"name", "mkdir", "locate"} /\ pc'[i] = "cleanup"
        \/ pc[i] = "cleanup" /\ pc'[i] = "rmdir"
        \/ pc[i] = "output" /\ pc'[i] \in {"returned", "init"}
        \/ pc[i] = "init" /\ pc'[i] = "returned"
    BY DEF PlainMove, Moves
  <1>2. Own(i)
    BY DEF Inv
  <1>3. Progress(i)'
    BY <1>1, <1>2 DEF PlainMove, Own, Progress, BeforeDirectory, InDirectory
  <1>4. OpenOwn(i)'
    BY <1>1, <1>2 DEF PlainMove, Own, OpenOwn
  <1>5. Remembered(i)'
    BY <1>1, <1>2 DEF PlainMove, Own, Remembered, MayStay, Progress,
      BeforeDirectory, AfterCleaning
  <1>6. Vacated(i)'
    <2>1. Emptied(i)' => Emptied(i)
      BY <1>1, <1>2, NoNameAssumption DEF PlainMove, Own, Emptied, Progress,
        InDirectory, AfterCleaning, Cleaning
    <2>2. QED
      BY <1>2, <2>1 DEF PlainMove, Own, Vacated
  <1>7. Sourced(i)'
    BY <1>1, <1>2 DEF PlainMove, Own, Sourced, InDirectory, Cleaning, OwnImages
  <1>8. Using(i)' => Using(i)
    BY <1>1, <1>2 DEF PlainMove, Own, Progress, Using, BeforeDirectory,
      InDirectory, Cleaning
  <1>9. QED
    BY <1>1, <1>3, <1>4, <1>5, <1>6, <1>7, <1>8 DEF Own, Steady, PlainMove

PlainStep(i) ==
  \/ Usage(i) \/ Rejected(i) \/ IsPe(i) \/ NoTempFileName(i) \/ NoDirectory(i)
  \/ NoCoffload(i) \/ NothingToRemove(i) \/ NoOutput(i) \/ CreateOutput(i)
  \/ Disassemble(i)

\* The steps that are plain moves.
LEMMA PlainSteps ==
  ASSUME Inv, NEW i \in Instances, PlainStep(i)
  PROVE  PlainMove(i)
  <1>0. pc \in [Instances -> Locations] /\ ok \in [Instances -> BOOLEAN]
    BY DEF Inv, Types, TypeOK
  <1> USE DEF PlainMove, Moves, At, Go, Fail, Return, local, temp, disk, read
  <1>1. CASE Usage(i)
    BY <1>0, <1>1 DEF Usage
  <1>2. CASE Rejected(i)
    BY <1>0, <1>2 DEF Rejected
  <1>3. CASE IsPe(i)
    BY <1>0, <1>3 DEF IsPe
  <1>4. CASE NoTempFileName(i)
    BY <1>0, <1>4 DEF NoTempFileName
  <1>5. CASE NoDirectory(i)
    BY <1>0, <1>5 DEF NoDirectory
  <1>6. CASE NoCoffload(i)
    BY <1>0, <1>6 DEF NoCoffload
  <1>7. CASE NothingToRemove(i)
    BY <1>0, <1>7 DEF NothingToRemove
  <1>8. CASE NoOutput(i)
    BY <1>0, <1>8 DEF NoOutput
  <1>9. CASE CreateOutput(i)
    BY <1>0, <1>9 DEF CreateOutput
  <1>10. CASE Disassemble(i)
    BY <1>0, <1>10 DEF Disassemble
  <1>11. QED
    BY <1>1, <1>2, <1>3, <1>4, <1>5, <1>6, <1>7, <1>8, <1>9, <1>10 DEF PlainStep

\* The images that the user names are those that are loaded.
LEMMA AcceptedKeeps ==
  ASSUME Inv, NEW i \in Instances, Accepted(i)
  PROVE  Steady(i) /\ Own(i)'
  <1>0. /\ pc \in [Instances -> Locations]
        /\ DOMAIN loaded = Instances
    BY DEF Inv, Types, TypeOK
  <1>1. /\ pc[i] = "start" /\ pc'[i] = "output" /\ input[i] \in {"raw", "dat"}
        /\ UNCHANGED <<temp_location, rmdir_onexit, remove_onexit, entry, files>>
        /\ UNCHANGED <<open, input, ok>>
        /\ loaded'[i] = {Image(k, "user") : k \in Given(i)}
    BY <1>0 DEF Accepted, At, Go, local, temp, disk
  <1>2. Own(i) /\ ~rmdir_onexit[i] /\ temp_location[i] = NoName
    BY <1>1 DEF Inv, Own, Progress, BeforeDirectory
  <1>3. Progress(i)'
    BY <1>1, <1>2 DEF Own, Progress, BeforeDirectory, InDirectory
  <1>4. OpenOwn(i)' /\ Remembered(i)' /\ Vacated(i)' /\ ~Using(i)'
    BY <1>1, <1>2, NoNameAssumption DEF Own, OpenOwn, Remembered, Vacated, Emptied,
      Using
  <1>5. Sourced(i)'
    BY <1>1 DEF Sourced, InDirectory, Cleaning, Given
  <1>6. QED
    BY <1>1, <1>3, <1>4, <1>5 DEF Own, Steady

\* COFFLOAD is started, or could not be.
LEMMA ExecuteKeeps ==
  ASSUME Inv, NEW i \in Instances, Execute(i)
  PROVE  Steady(i) /\ Own(i)'
  <1>0. /\ pc \in [Instances -> Locations] /\ ok \in [Instances -> BOOLEAN]
        /\ remove_onexit \in [Instances -> SUBSET FileNames]
    BY DEF Inv, Types, TypeOK
  <1>1. /\ pc[i] = "locate" /\ pc'[i] \in {"wait", "cleanup"}
        /\ UNCHANGED <<temp_location, rmdir_onexit, entry, files>>
        /\ UNCHANGED <<open, loaded, input>>
        /\ remove_onexit'[i] = {"info"}
    BY <1>0 DEF Execute, At, Go, Fail, disk, read
  <1>2. pc'[i] = "cleanup" => ~ok'[i]
    BY <1>0 DEF Execute, At, Go, Fail
  <1>3. Own(i) /\ rmdir_onexit[i] /\ input[i] = "pe"
    BY <1>1 DEF Inv, Own, Progress, InDirectory, Sourced
  <1>4. Progress(i)'
    BY <1>1, <1>3 DEF Own, Progress, BeforeDirectory, InDirectory
  <1>5. OpenOwn(i)'
    BY <1>1, <1>3 DEF Own, OpenOwn
  <1>6. Remembered(i)' /\ Vacated(i)'
    BY <1>1, <1>3 DEF Own, Remembered, Vacated, Emptied, AfterCleaning
  <1>7. Sourced(i)'
    BY <1>1, <1>2, <1>3 DEF Sourced, InDirectory, Cleaning
  <1>8. Using(i)' => Using(i)
    BY <1>1, <1>3 DEF Using, InDirectory
  <1>9. QED
    BY <1>1, <1>4, <1>5, <1>6, <1>7, <1>8 DEF Own, Steady

\* Every file that COFFLOAD has left is one that will be removed, unless the
\* search for them fails.
LEMMA FindFilesKeeps ==
  ASSUME Inv, NEW i \in Instances, FindFiles(i)
  PROVE  Steady(i) /\ Own(i)'
  <1>0. /\ pc \in [Instances -> Locations] /\ ok \in [Instances -> BOOLEAN]
        /\ remove_onexit \in [Instances -> SUBSET FileNames]
    BY DEF Inv, Types, TypeOK
  <1>1. /\ pc[i] = "find" /\ pc'[i] \in {"info", "cleanup"}
        /\ UNCHANGED <<temp_location, rmdir_onexit, entry, files>>
        /\ UNCHANGED <<open, loaded, input>>
    BY <1>0 DEF FindFiles, At, Go, Fail, disk, read
  <1>found. PICK found \in SUBSET Found(i) :
          /\ remove_onexit' = [remove_onexit EXCEPT ![i] = @ \cup found]
          /\ IF found = Found(i) THEN UNCHANGED refused ELSE Refuse(i, "FindFiles")
    BY DEF FindFiles
  <1>listed. remove_onexit'[i] = remove_onexit[i] \cup found
    BY <1>0, <1>found
  <1>missed. found = Found(i) \/ "FindFiles" \in refused'[i]
    BY <1>found, Refusal DEF Inv, Calls
  <1>2. pc'[i] = "cleanup" => ~ok'[i]
    BY <1>0 DEF FindFiles, At, Go, Fail
  <1>3. /\ Own(i) /\ rmdir_onexit[i] /\ input[i] = "pe"
        /\ "info" \in remove_onexit[i] /\ temp_location[i] \in Names
    BY <1>1 DEF Inv, Own, Progress, InDirectory, Sourced
  <1>4. Progress(i)'
    BY <1>1, <1>3, <1>listed DEF Own, Progress, BeforeDirectory, InDirectory
  <1>5. OpenOwn(i)'
    BY <1>1, <1>3 DEF Own, OpenOwn
  <1>6. Remembered(i)'
    <2>1. \A c \in files[temp_location[i]] :
            c.name \in remove_onexit'[i] \/ "FindFiles" \in refused'[i]
      <3>1. \A c \in files[temp_location[i]] : c.name \in Images \cup {"info"}
        BY <1>3 DEF Inv, Types, FileRecords, FileNames
      <3>2. QED
        BY <1>3, <1>listed, <1>missed, <3>1 DEF Found
    <2>2. QED
      BY <1>1, <2>1 DEF Remembered, AfterCleaning
  <1>7. Vacated(i)'
    BY <1>1, <1>3 DEF Vacated, Emptied, AfterCleaning
  <1>8. Sourced(i)'
    BY <1>1, <1>2, <1>3 DEF Sourced, InDirectory, Cleaning
  <1>9. Using(i)' => Using(i)
    BY <1>1, <1>3 DEF Using, InDirectory
  <1>10. QED
    BY <1>1, <1>4, <1>5, <1>6, <1>7, <1>8, <1>9 DEF Own, Steady

\* Files of the instance's own directory are opened.
LEMMA OpenKeeps ==
  ASSUME Inv, NEW i \in Instances, pc[i] \in {"info", "load"},
         NEW F, NEW opened \in SUBSET Readable(i, F), Open(i, opened),
         pc' = [pc EXCEPT ![i] = pc'[i]], pc'[i] \in {"load", "cleanup"},
         UNCHANGED <<input, exec_result, output, status, temp, disk, refused>>
  PROVE  /\ Steady(i) /\ Progress(i)' /\ OpenOwn(i)' /\ Remembered(i)' /\ Vacated(i)'
         /\ Using(i) /\ input[i] = "pe"
  <1>1. /\ Own(i) /\ rmdir_onexit[i] /\ input[i] = "pe"
        /\ temp_location[i] \in Names /\ Using(i)
    BY DEF Inv, Own, Progress, InDirectory, Sourced, Using
  <1>2. /\ UNCHANGED <<temp_location, rmdir_onexit, remove_onexit, entry, files>>
        /\ input' = input
    BY DEF temp, disk
  <1>3. Progress(i)'
    BY <1>1, <1>2 DEF Own, Progress, BeforeDirectory, InDirectory
  <1>4. OpenOwn(i)'
    <2>1. open \in [Instances -> SUBSET [at : Names, name : FileNames]]
      BY DEF Inv, Types
    <2>2. open'[i] = open[i] \cup {[at |-> temp_location[i], name |-> c.name] :
                                    c \in opened}
      BY <2>1 DEF Open
    <2>3. \A c \in opened : c \in files[temp_location[i]] /\ c.by = i
      BY <1>1, Mine DEF Readable
    <2>4. ASSUME NEW o \in open'[i]
          PROVE  /\ o.at = temp_location[i]
                 /\ \E c \in files[o.at] : c.by = i /\ c.name = o.name
      <3>1. CASE o \in open[i]
        BY <1>1, <3>1 DEF Own, OpenOwn
      <3>2. CASE o \in {[at |-> temp_location[i], name |-> c.name] : c \in opened}
        BY <2>3, <3>2
      <3>3. QED
        BY <2>2, <3>1, <3>2
    <2>5. QED
      BY <1>1, <1>2, <2>4 DEF OpenOwn
  <1>5. Remembered(i)' /\ Vacated(i)'
    BY <1>1, <1>2 DEF Own, Remembered, Vacated, Emptied, AfterCleaning
  <1>6. Steady(i)
    BY <1>1, <1>2 DEF Steady
  <1>7. QED
    BY <1>1, <1>3, <1>4, <1>5, <1>6

\* info.txt is read.
LEMMA ReadInfoKeeps ==
  ASSUME Inv, NEW i \in Instances, ReadInfo(i)
  PROVE  Steady(i) /\ Own(i)'
  <1>0. pc \in [Instances -> Locations] /\ ok \in [Instances -> BOOLEAN]
    BY DEF Inv, Types, TypeOK
  <1>opened. PICK opened \in SUBSET Readable(i, {"info"}) : Open(i, opened)
    BY DEF ReadInfo
  <1>1. /\ pc[i] = "info"
        /\ pc' = [pc EXCEPT ![i] = pc'[i]] /\ pc'[i] \in {"load", "cleanup"}
        /\ UNCHANGED <<input, exec_result, output, status, temp, disk, refused>>
        /\ UNCHANGED loaded
    BY <1>0 DEF ReadInfo, At, Go, Fail
  <1>2. pc'[i] = "cleanup" => ~ok'[i]
    BY <1>0 DEF ReadInfo, At, Go, Fail
  <1>3. /\ Steady(i) /\ Progress(i)' /\ OpenOwn(i)' /\ Remembered(i)' /\ Vacated(i)'
        /\ input[i] = "pe"
    BY <1>opened, <1>1, OpenKeeps
  <1>4. Sourced(i)'
    BY <1>1, <1>2, <1>3 DEF Sourced, InDirectory, Cleaning
  <1>5. QED
    BY <1>3, <1>4 DEF Own

\* The images are read: when all three are there they are the instance's own.
LEMMA ReadImagesKeeps ==
  ASSUME Inv, NEW i \in Instances, ReadImages(i)
  PROVE  Steady(i) /\ Own(i)'
  <1>0. /\ pc \in [Instances -> Locations] /\ ok \in [Instances -> BOOLEAN]
        /\ DOMAIN loaded = Instances
    BY DEF Inv, Types, TypeOK
  <1>1. /\ pc[i] = "load"
        /\ UNCHANGED <<input, exec_result, output, status, temp, disk, refused>>
    BY DEF ReadImages, At
  <1>2. PICK opened \in SUBSET Readable(i, Images) : \E got \in SUBSET opened :
          LET images == {Image(c.name, c.by) : c \in got}
          IN  /\ Open(i, opened)
              /\ IF Complete(images)
                 THEN /\ loaded' = [loaded EXCEPT ![i] = images]
                      /\ Go(i, "cleanup") /\ UNCHANGED ok
                 ELSE Fail(i) /\ UNCHANGED loaded
    BY DEF ReadImages
  <1>3. PICK got \in SUBSET opened :
          LET images == {Image(c.name, c.by) : c \in got}
          IN  /\ Open(i, opened)
              /\ IF Complete(images)
                 THEN /\ loaded' = [loaded EXCEPT ![i] = images]
                      /\ Go(i, "cleanup") /\ UNCHANGED ok
                 ELSE Fail(i) /\ UNCHANGED loaded
    BY <1>2
  <1> DEFINE images == {Image(c.name, c.by) : c \in got}
  <1>4. /\ pc' = [pc EXCEPT ![i] = pc'[i]] /\ pc'[i] = "cleanup"
        /\ ok'[i] => Complete(images) /\ loaded'[i] = images
    BY <1>0, <1>3 DEF Go, Fail
  <1>5. /\ Steady(i) /\ Progress(i)' /\ OpenOwn(i)' /\ Remembered(i)' /\ Vacated(i)'
        /\ Using(i) /\ input[i] = "pe"
    BY <1>1, <1>3, <1>4, OpenKeeps
  <1>6. Complete(images) => images = OwnImages(i)
    <2>1. \A c \in got : c.by = i /\ c.name \in Images
      BY <1>5, Mine DEF Readable
    <2>2. \A l \in images : l.image \in Images /\ l = Image(l.image, i)
      BY <2>1 DEF Image
    <2> HIDE DEF images
    <2>3. ASSUME Complete(images), NEW k \in Images
          PROVE  Image(k, i) \in images
      <3>1. PICK l \in images : l.image = k
        BY <2>3 DEF Complete
      <3>2. QED
        BY <2>2, <3>1
    <2>4. QED
      BY <2>2, <2>3 DEF OwnImages
  <1> HIDE DEF images
  <1>7. Sourced(i)'
    <2>1. input'[i] = "pe"
      BY <1>1, <1>5
    <2>2. ok'[i] => loaded'[i] = OwnImages(i)
      BY <1>4, <1>6
    <2>3. QED
      BY <1>4, <2>1, <2>2 DEF Sourced, OwnImages
  <1>8. QED
    BY <1>5, <1>7 DEF Own

\* The steps that leave the disk alone keep the invariant.
LEMMA SteadySteps ==
  ASSUME Inv, NEW i \in Instances,
         \/ PlainStep(i) \/ Accepted(i) \/ Execute(i) \/ FindFiles(i)
         \/ ReadInfo(i) \/ ReadImages(i)
  PROVE  Inv'
  <1>1. Step(i)
    BY DEF Step, PlainStep
  <1>2. Types'
    BY <1>1, TypesStep DEF Inv, Own
  <1>3. \A j \in Instances \ {i} : SameFor(j)
    BY <1>1, Others DEF Inv
  <1>4. Steady(i) /\ Own(i)'
    BY PlainSteps, PlainMoveKeeps, AcceptedKeeps, ExecuteKeeps, FindFilesKeeps,
      ReadInfoKeeps, ReadImagesKeeps
  <1>5. /\ Located' /\ Exclusive' /\ Reserved'
        /\ \A j \in Instances \ {i} : Own(j)'
    BY <1>3, <1>4, SteadyKeeps
  <1>6. QED
    BY <1>2, <1>4, <1>5 DEF Inv

-----------------------------------------------------------------------------
(* Steps that change the disk *)

\* A step of i keeps the invariant when it keeps what is shared and what holds
\* of i.
LEMMA StepKeeps ==
  ASSUME Inv, NEW i \in Instances, Step(i), Located', Exclusive', Reserved', Own(i)',
         \A j \in Instances \ {i} : SharedFor(j)
  PROVE  Inv'
  <1>1. Types'
    BY TypesStep DEF Inv, Own
  <1>2. \A j \in Instances \ {i} : SameFor(j)
    BY Others DEF Inv
  <1>3. \A j \in Instances \ {i} : Own(j)'
    BY <1>2, OthersKeep
  <1>4. QED
    BY <1>1, <1>3 DEF Inv

\* A name that is not in use becomes a file.
LEMMA TempFileNameKeeps ==
  ASSUME Inv, NEW i \in Instances, TempFileName(i)
  PROVE  Inv'
  <1>0. /\ pc \in [Instances -> Locations]
        /\ temp_location \in [Instances -> Names \cup {NoName}]
        /\ entry \in [Names -> {"nothing", "file", "directory"}]
    BY DEF Inv, Types, TypeOK
  <1>1. PICK n \in Names :
          /\ entry[n] = "nothing"
          /\ entry' = [entry EXCEPT ![n] = "file"]
          /\ temp_location' = [temp_location EXCEPT ![i] = n]
    BY DEF TempFileName
  <1>2. /\ pc[i] = "name" /\ pc'[i] = "remove"
        /\ UNCHANGED <<rmdir_onexit, remove_onexit, files, open, loaded, input, ok>>
        /\ UNCHANGED refused
    BY <1>0 DEF TempFileName, At, Go, local, read
  <1>3. /\ Own(i) /\ ~rmdir_onexit[i] /\ temp_location[i] = NoName
        /\ remove_onexit[i] = {} /\ input[i] = "pe"
    BY <1>2 DEF Inv, Own, Progress, BeforeDirectory, Sourced
  <1>4. \A j \in Instances \ {i} : SameFor(j)
    BY Others DEF Inv, Step
  <1>5. Located'
    <2>1. \A m \in Names : \A c \in files[m] : c.by \in Instances \ {i}
      BY <1>3 DEF Inv, Located, Types, FileRecords
    <2>2. QED
      BY <1>2, <1>4, <2>1 DEF Inv, Located, SameFor
  <1>6. Exclusive'
    <2>1. ~Using(i)'
      BY <1>2, <1>3 DEF Using
    <2>2. \A j \in Instances \ {i} : Using(j)' => Using(j)
      BY <1>2, <1>4 DEF Using, SameFor
    <2>3. \A j \in Instances \ {i} : Using(j) =>
            temp_location[j] \in Names /\ temp_location[j] # n
      BY <1>1, Mine
    <2>4. \A j \in Instances \ {i} : Using(j)' =>
            entry'[temp_location'[j]] = "directory"
      BY <1>0, <1>1, <1>4, <2>2, <2>3, Mine DEF SameFor
    <2>5. QED
      BY <1>4, <2>1, <2>2, <2>4 DEF Inv, Exclusive, SameFor
  <1>7. Own(i)'
    <2>1. temp_location'[i] \in Names
      BY <1>0, <1>1
    <2>2. Progress(i)'
      BY <1>2, <1>3, <2>1 DEF Progress, BeforeDirectory, InDirectory
    <2>3. OpenOwn(i)' /\ Remembered(i)' /\ Vacated(i)'
      BY <1>2, <1>3 DEF Own, OpenOwn, Remembered, Vacated, Emptied, AfterCleaning,
        Cleaning
    <2>4. Sourced(i)'
      BY <1>2, <1>3 DEF Sourced, Cleaning
    <2>5. QED
      BY <2>2, <2>3, <2>4 DEF Own
  <1>8. ASSUME NEW j \in Instances \ {i} PROVE SharedFor(j)
    <2>1. ASSUME temp_location[j] \in Names
          PROVE  \/ entry'[temp_location[j]] = entry[temp_location[j]]
                 \/ temp_location'[i] = temp_location[j]
      BY <1>0, <1>1, <2>1
    <2>2. \A k \in Instances :
            temp_location'[k] = temp_location[k] \/ temp_location[k] = NoName
      BY <1>0, <1>1, <1>3
    <2>3. QED
      BY <1>2, <2>1, <2>2 DEF SharedFor
  <1>9. Reserved'
    <2>1. \A j \in Instances \ {i} : pc[j] = "remove" =>
            temp_location[j] \in Names /\ temp_location[j] # n
      BY <1>1 DEF Inv, Reserved, Own, Progress
    <2>2. temp_location'[i] = n /\ entry'[n] = "file"
      BY <1>0, <1>1
    <2>3. \A m \in Names \ {n} : entry'[m] = entry[m]
      BY <1>0, <1>1
    <2>4. QED
      BY <1>4, <2>1, <2>2, <2>3 DEF Inv, Reserved, SameFor
  <1>10. QED
    BY <1>5, <1>6, <1>7, <1>8, <1>9, StepKeeps DEF Step

\* The file is removed, unless that is refused.
LEMMA RemoveFileKeeps ==
  ASSUME Inv, NEW i \in Instances, RemoveFile(i)
  PROVE  Inv'
  <1>0. /\ pc \in [Instances -> Locations]
        /\ entry \in [Names -> {"nothing", "file", "directory"}]
    BY DEF Inv, Types, TypeOK
  <1>1. /\ pc[i] = "remove" /\ pc'[i] = "mkdir"
        /\ UNCHANGED <<temp_location, rmdir_onexit, remove_onexit, files>>
        /\ UNCHANGED <<open, loaded, input, ok>>
    BY <1>0 DEF RemoveFile, At, Go, local, temp, read
  <1>2. /\ Own(i) /\ ~rmdir_onexit[i] /\ remove_onexit[i] = {}
        /\ temp_location[i] \in Names /\ input[i] = "pe"
    BY <1>1 DEF Inv, Own, Progress, BeforeDirectory, Sourced
  <1>3. \A n \in Names : \/ entry'[n] = entry[n]
                         \/ /\ entry[n] = "file" /\ entry'[n] = "nothing"
                            /\ n = temp_location[i]
    BY <1>0 DEF RemoveFile
  <1>removed. entry'[temp_location[i]] = "nothing" \/ "RemoveFile" \in refused'[i]
    <2>1. entry[temp_location[i]] = "file"
      BY <1>1 DEF Inv, Reserved
    <2>2. CASE Refuse(i, "RemoveFile")
      BY <2>2, Refusal DEF Inv, Calls
    <2>3. CASE ~Refuse(i, "RemoveFile")
      BY <1>0, <1>2, <2>1, <2>3 DEF RemoveFile
    <2>4. QED
      BY <2>2, <2>3
  <1>4. \A j \in Instances \ {i} : SameFor(j)
    BY Others DEF Inv, Step
  <1>5. Located'
    BY <1>1 DEF Inv, Located
  <1>6. Exclusive'
    <2>1. ~Using(i)'
      BY <1>1, <1>2 DEF Using
    <2>2. \A j \in Instances \ {i} : Using(j)' => Using(j)
      BY <1>1, <1>4 DEF Using, SameFor
    <2>3. \A j \in Instances \ {i} : Using(j)' =>
            entry'[temp_location'[j]] = "directory"
      BY <1>1, <1>3, <2>2, Mine
    <2>4. QED
      BY <1>1, <2>1, <2>2, <2>3 DEF Inv, Exclusive
  <1>7. Own(i)'
    <2>1. Progress(i)'
      BY <1>1, <1>2 DEF Progress, BeforeDirectory, InDirectory
    <2>2. OpenOwn(i)' /\ Remembered(i)'
      BY <1>1, <1>2 DEF Own, OpenOwn, Remembered
    <2>3. Vacated(i)'
      BY <1>1, <1>removed DEF Vacated, Emptied
    <2>4. Sourced(i)'
      BY <1>1, <1>2 DEF Sourced, Cleaning
    <2>5. QED
      BY <2>1, <2>2, <2>3, <2>4 DEF Own
  <1>8. \A j \in Instances \ {i} : SharedFor(j)
    BY <1>1, <1>3 DEF SharedFor
  <1>9. Reserved'
    <2>1. \A j \in Instances \ {i} : pc[j] = "remove" =>
            temp_location[j] \in Names /\ temp_location[j] # temp_location[i]
      BY <1>1 DEF Inv, Reserved, Own, Progress
    <2>2. QED
      BY <1>1, <1>3, <1>4, <2>1 DEF Inv, Reserved, SameFor
  <1>10. QED
    BY <1>5, <1>6, <1>7, <1>8, <1>9, StepKeeps DEF Step

\* A directory is made where there is nothing, so nobody uses the name.
LEMMA MakeDirectoryKeeps ==
  ASSUME Inv, NEW i \in Instances, MakeDirectory(i)
  PROVE  Inv'
  <1> DEFINE n == temp_location[i]
  <1>0. /\ pc \in [Instances -> Locations]
        /\ entry \in [Names -> {"nothing", "file", "directory"}]
        /\ rmdir_onexit \in [Instances -> BOOLEAN]
    BY DEF Inv, Types, TypeOK
  <1>1. /\ pc[i] = "mkdir" /\ pc'[i] = "locate" /\ entry[n] = "nothing"
        /\ UNCHANGED <<temp_location, remove_onexit, files>>
        /\ UNCHANGED <<open, loaded, input, ok>>
        /\ entry' = [entry EXCEPT ![n] = "directory"]
        /\ rmdir_onexit'[i]
    BY <1>0 DEF MakeDirectory, MkdirSucceeds, At, Go, local, read
  <1>2. /\ Own(i) /\ remove_onexit[i] = {} /\ n \in Names /\ input[i] = "pe"
        /\ ~rmdir_onexit[i]
    BY <1>1 DEF Inv, Own, Progress, BeforeDirectory, Sourced
  <1>3. entry'[n] = "directory" /\ \A m \in Names \ {n} : entry'[m] = entry[m]
    BY <1>0, <1>1, <1>2
  <1>4. \A j \in Instances \ {i} : SameFor(j)
    BY Others DEF Inv, Step
  <1>5. files[n] = {}
    <2>1. SUFFICES ASSUME NEW c \in files[n] PROVE FALSE
      BY <1>2 DEF Inv, Types
    <2>2. /\ c.by \in Instances /\ temp_location[c.by] = n /\ rmdir_onexit[c.by]
      BY <1>2 DEF Inv, Located, Types, FileRecords
    <2>3. Using(c.by)
      BY <2>2 DEF Using
    <2>4. QED
      BY <1>1, <2>2, <2>3, Mine
  <1>6. Located'
    <2>1. \A m \in Names : \A c \in files[m] : c.by \in Instances
      BY DEF Inv, Types, FileRecords
    <2>2. QED
      BY <1>1, <1>4, <2>1 DEF Inv, Located, SameFor
  <1>7. Exclusive'
    <2>1. \A j \in Instances \ {i} : Using(j)' => Using(j)
      BY <1>1, <1>4 DEF Using, SameFor
    <2>2. \A j \in Instances \ {i} : Using(j) =>
            /\ temp_location[j] \in Names /\ temp_location[j] # n
            /\ entry[temp_location[j]] = "directory"
      BY <1>1, Mine
    <2>3. \A j \in Instances \ {i} : Using(j)' =>
            /\ temp_location'[j] # n /\ entry'[temp_location'[j]] = "directory"
      BY <1>1, <1>3, <2>1, <2>2
    <2>4. QED
      BY <1>1, <1>3, <2>1, <2>3 DEF Inv, Exclusive
  <1>8. Own(i)'
    <2>1. Progress(i)'
      BY <1>1, <1>2 DEF Progress, BeforeDirectory, InDirectory
    <2>2. OpenOwn(i)' /\ Remembered(i)' /\ Vacated(i)'
      BY <1>1, <1>2, <1>5 DEF Own, OpenOwn, Remembered, Vacated, Emptied,
        AfterCleaning, Cleaning
    <2>3. Sourced(i)'
      BY <1>1, <1>2 DEF Sourced, Cleaning
    <2>4. QED
      BY <2>1, <2>2, <2>3 DEF Own
  <1>9. \A j \in Instances \ {i} : SharedFor(j)
    BY <1>1, <1>3 DEF SharedFor
  <1>10. Reserved'
    <2>1. \A j \in Instances \ {i} : pc[j] = "remove" =>
            temp_location[j] \in Names /\ temp_location[j] # n
      BY <1>1 DEF Inv, Reserved, Own, Progress
    <2>2. QED
      BY <1>1, <1>3, <1>4, <2>1 DEF Inv, Reserved, SameFor
  <1>11. QED
    BY <1>6, <1>7, <1>8, <1>9, <1>10, StepKeeps DEF Step

\* COFFLOAD leaves files in the directory of the instance that started it, and
\* names that were there stay there.
LEMMA CoffloadFiles ==
  ASSUME Inv, NEW i \in Instances, Coffload(i)
  PROVE  \E X : /\ files' = [files EXCEPT ![temp_location[i]] = X]
                /\ \A c \in X : c.by = i
                /\ \A c \in files[temp_location[i]] : \E d \in X : d.name = c.name
  <1> DEFINE n == temp_location[i]
  <1>1. PICK images \in [Images -> Contents], info \in Contents, r \in {0, 1} :
               /\ LET data(f) == IF f = "info" THEN info ELSE images[f]
                      written == {f \in FileNames : data(f) # "absent"}
                      kept == {c \in files[n] : c.name \notin written}
                  IN  files' = [files EXCEPT ![n] =
                                  kept \cup {File(f, i, data(f)) : f \in written}]
               /\ exec_result' = [exec_result EXCEPT ![i] = r]
    BY DEF Coffload
  <1> DEFINE data(f) == IF f = "info" THEN info ELSE images[f]
             written == {f \in FileNames : data(f) # "absent"}
             kept == {c \in files[n] : c.name \notin written}
             new == {File(f, i, data(f)) : f \in written}
  <1>2. files' = [files EXCEPT ![n] = kept \cup new]
    BY <1>1
  <1>3. \A c \in kept \cup new : c.by = i
    <2>1. Using(i)
      BY DEF Inv, Own, Progress, Using, Coffload, At, InDirectory
    <2>2. \A c \in kept : c.by = i
      BY <2>1, Mine
    <2>3. \A c \in new : c.by = i
      BY DEF File
    <2>4. QED
      BY <2>2, <2>3
  <1>4. ASSUME NEW c \in files[n] PROVE \E d \in kept \cup new : d.name = c.name
    <2>1. CASE c.name \in written
      <3>1. File(c.name, i, data(c.name)) \in new
        BY <2>1
      <3>2. File(c.name, i, data(c.name)).name = c.name
        BY DEF File
      <3> HIDE DEF new, data, written, kept
      <3>3. QED
        BY <3>1, <3>2
    <2>2. CASE c.name \notin written
      BY <2>2
    <2>3. QED
      BY <2>1, <2>2
  <1> HIDE DEF kept, new
  <1>5. QED
    BY <1>2, <1>3, <1>4

\* COFFLOAD ends.
LEMMA CoffloadKeeps ==
  ASSUME Inv, NEW i \in Instances, Coffload(i)
  PROVE  Inv'
  <1> DEFINE n == temp_location[i]
  <1>0. /\ pc \in [Instances -> Locations]
        /\ files \in [Names -> SUBSET FileRecords]
    BY DEF Inv, Types, TypeOK
  <1>1. PICK X : /\ files' = [files EXCEPT ![n] = X]
                 /\ \A c \in X : c.by = i
                 /\ \A c \in files[n] : \E d \in X : d.name = c.name
    BY CoffloadFiles
  <1>2. /\ pc[i] = "wait" /\ pc'[i] = "find"
        /\ UNCHANGED <<temp_location, rmdir_onexit, remove_onexit, entry>>
        /\ UNCHANGED <<open, loaded, input, ok>>
    BY <1>0 DEF Coffload, At, Go, temp, read
  <1>3. /\ Own(i) /\ rmdir_onexit[i] /\ n \in Names /\ input[i] = "pe"
        /\ "info" \in remove_onexit[i] /\ Using(i)
    BY <1>2 DEF Inv, Own, Progress, InDirectory, Sourced, Using
  <1>4. files'[n] = X /\ \A m \in Names \ {n} : files'[m] = files[m]
    BY <1>0, <1>1, <1>3
  <1>5. \A j \in Instances \ {i} : SameFor(j)
    BY Others DEF Inv, Step
  <1>6. \A c \in files[n] : c.by = i
    BY <1>3, Mine
  <1>7. Located'
    BY <1>1, <1>2, <1>3, <1>4 DEF Inv, Located
  <1>8. Exclusive'
    <2>1. ASSUME NEW j \in Instances \ {i}, Using(j)' PROVE Using(j)
      <3>1. temp_location[j] \in Names
        BY <1>2, <2>1 DEF Inv, Own, Progress, Using
      <3>2. \A c \in files'[temp_location[j]] :
              c.by = j => c \in files[temp_location[j]]
        BY <1>1, <1>4, <3>1
      <3>3. QED
        BY <1>2, <1>5, <2>1, <3>2 DEF Using, SameFor
    <2>2. QED
      BY <1>2, <1>3, <2>1 DEF Inv, Exclusive
  <1>9. Own(i)'
    <2>1. Progress(i)'
      BY <1>2, <1>3 DEF Progress, BeforeDirectory, InDirectory
    <2>2. OpenOwn(i)'
      <3>1. ASSUME NEW o \in open[i]
            PROVE  o.at = n /\ \E c \in files'[n] : c.by = i /\ c.name = o.name
        BY <1>1, <1>2, <1>3, <1>4, <3>1 DEF Own, OpenOwn
      <3>2. QED
        BY <1>2, <1>3, <3>1 DEF OpenOwn
    <2>3. Remembered(i)' /\ Vacated(i)'
      BY <1>2 DEF Remembered, Vacated, Emptied, AfterCleaning, Cleaning
    <2>4. Sourced(i)'
      BY <1>2, <1>3 DEF Sourced, Cleaning
    <2>5. QED
      BY <2>1, <2>2, <2>3, <2>4 DEF Own
  <1>10. \A j \in Instances \ {i} : SharedFor(j)
    BY <1>1, <1>2, <1>4, <1>6 DEF SharedFor
  <1>11. Reserved'
    BY <1>2, <1>5 DEF Inv, Reserved, SameFor
  <1>12. QED
    BY <1>7, <1>8, <1>9, <1>10, <1>11, StepKeeps DEF Step

\* An instance removes files of its own: none of those that it has open, and
\* of the others those whose removal is not refused.
LEMMA RemoveFilesKeeps ==
  ASSUME Inv, NEW i \in Instances, RemoveFiles(i)
  PROVE  Inv'
  <1> DEFINE n == temp_location[i]
  <1>0. /\ pc \in [Instances -> Locations]
        /\ files \in [Names -> SUBSET FileRecords]
    BY DEF Inv, Types, TypeOK
  <1>1. /\ pc[i] = "cleanup" /\ pc'[i] = "rmdir" /\ remove_onexit[i] # {}
        /\ UNCHANGED <<temp_location, rmdir_onexit, remove_onexit, entry>>
        /\ UNCHANGED <<open, loaded, input, ok>>
    BY <1>0 DEF RemoveFiles, At, Go, local, temp, read
  <1>gone. PICK gone \in SUBSET Removable(i) :
          /\ files' = [files EXCEPT ![n] = @ \ gone]
          /\ IF gone = Removable(i) THEN UNCHANGED refused ELSE Refuse(i, "RemoveFiles")
    BY DEF RemoveFiles
  <1>refused. /\ gone = Removable(i) \/ "RemoveFiles" \in refused'[i]
              /\ refused[i] \subseteq refused'[i]
    BY <1>gone, Refusal DEF Inv, Calls
  <1>2. /\ Own(i) /\ rmdir_onexit[i] /\ n \in Names /\ input[i] = "pe" /\ Using(i)
    BY <1>1 DEF Inv, Own, Progress, Cleaning, Sourced, Using
  <1>3. /\ files'[n] = files[n] \ gone
        /\ \A m \in Names \ {n} : files'[m] = files[m]
    BY <1>0, <1>2, <1>gone
  <1>4. \A j \in Instances \ {i} : SameFor(j)
    BY Others DEF Inv, Step
  <1>5. \A c \in files[n] : c.by = i
    BY <1>2, Mine
  <1>6. \A m \in Names : files'[m] \subseteq files[m]
    BY <1>3
  <1>7. Located'
    BY <1>1, <1>6 DEF Inv, Located
  <1>8. Exclusive'
    <2>1. ASSUME NEW j \in Instances, Using(j)' PROVE Using(j)
      <3>1. CASE j = i
        BY <1>2, <3>1
      <3>2. CASE j # i
        <4>1. temp_location[j] \in Names
          BY <1>1, <2>1 DEF Inv, Own, Progress, Using
        <4>2. files'[temp_location[j]] \subseteq files[temp_location[j]]
          BY <1>6, <4>1
        <4>3. QED
          BY <1>1, <1>4, <2>1, <3>2, <4>2 DEF Using, SameFor
      <3>3. QED
        BY <3>1, <3>2
    <2>2. QED
      BY <1>1, <2>1 DEF Inv, Exclusive
  <1>9. Own(i)'
    <2>1. Progress(i)'
      BY <1>1, <1>2 DEF Own, Progress, BeforeDirectory, InDirectory
    <2>2. OpenOwn(i)'
      <3>1. ASSUME NEW o \in open[i]
            PROVE  o.at = n /\ \E c \in files'[n] : c.by = i /\ c.name = o.name
        <4>1. /\ o.at = n
              /\ \E c \in files[n] : c.by = i /\ c.name = o.name
          BY <1>1, <1>2 DEF Own, OpenOwn
        <4>2. o = [at |-> n, name |-> o.name]
          BY <4>1 DEF Inv, Types
        <4>3. InUse(n, o.name)
          BY <1>1, <4>2 DEF InUse
        <4>4. PICK c \in files[n] : c.by = i /\ c.name = o.name
          BY <4>1
        <4>5. c \notin gone
          BY <4>3, <4>4, <1>gone DEF Removable
        <4>6. QED
          BY <1>3, <4>1, <4>4, <4>5
      <3>2. QED
        BY <1>1, <1>2, <3>1 DEF OpenOwn
    <2>3. Remembered(i)'
      <3>1. ASSUME NEW c \in files'[n] PROVE MayStay(i, c)'
        <4>1. c \in files[n] /\ c.by = i /\ c \notin gone
          BY <1>3, <1>5
        <4>2. c.name \in remove_onexit[i] \/ "FindFiles" \in refused[i]
          BY <1>1, <1>2, <4>1 DEF Own, Remembered
        <4>3. CASE c.name \notin remove_onexit[i]
          BY <1>1, <1>refused, <4>2, <4>3 DEF MayStay
        <4>4. CASE c.name \in remove_onexit[i] /\ "RemoveFiles" \in refused'[i]
          BY <1>1, <4>4 DEF MayStay
        <4>5. CASE c.name \in remove_onexit[i] /\ gone = Removable(i)
          <5>1. InUse(n, c.name)
            BY <4>1, <4>5 DEF Removable
          <5>2. PICK j \in Instances :
                  pc[j] # "returned" /\ [at |-> n, name |-> c.name] \in open[j]
            BY <5>1 DEF InUse
          <5>3. /\ rmdir_onexit[j] /\ temp_location[j] = n
                /\ \E d \in files[n] : d.by = j
            BY <5>2 DEF Inv, Own, OpenOwn
          <5>4. j = i
            BY <1>5, <5>3
          <5>5. QED
            BY <1>1, <5>2, <5>4 DEF MayStay
        <4>6. QED
          BY <1>refused, <4>3, <4>4, <4>5
      <3>2. QED
        BY <1>1, <3>1 DEF Remembered, AfterCleaning
    <2>4. Vacated(i)'
      BY <1>1, <1>2 DEF Vacated, Emptied, AfterCleaning
    <2>5. Sourced(i)'
      BY <1>1, <1>2 DEF Own, Sourced, Cleaning, InDirectory, OwnImages
    <2>6. QED
      BY <2>1, <2>2, <2>3, <2>4, <2>5 DEF Own
  <1>10. \A j \in Instances \ {i} : SharedFor(j)
    <2>1. \A c \in gone : c.by = i
      BY <1>5, <1>gone DEF Removable
    <2>2. QED
      BY <1>1, <1>3, <2>1 DEF SharedFor
  <1>11. Reserved'
    BY <1>1, <1>4 DEF Inv, Reserved, SameFor
  <1>12. QED
    BY <1>7, <1>8, <1>9, <1>10, <1>11, StepKeeps DEF Step

\* The directory goes if nothing is left in it, unless that is refused, and
\* with it its use.
LEMMA RemoveDirectoryKeeps ==
  ASSUME Inv, NEW i \in Instances, RemoveDirectory(i)
  PROVE  Inv'
  <1> DEFINE n == temp_location[i]
  <1>0. /\ pc \in [Instances -> Locations]
        /\ entry \in [Names -> {"nothing", "file", "directory"}]
    BY DEF Inv, Types, TypeOK
  <1>1. /\ pc[i] = "rmdir" /\ pc'[i] \in {"output", "returned"}
        /\ pc'[i] = "output" => ok[i]
        /\ UNCHANGED <<temp_location, rmdir_onexit, remove_onexit, files>>
        /\ UNCHANGED <<open, loaded, input, ok>>
    BY <1>0 DEF RemoveDirectory, At, Go, Return, temp, read
  <1>entry. \/ /\ MayRemove(i) /\ UNCHANGED refused
               /\ entry' = [entry EXCEPT ![n] = "nothing"]
            \/ MayRemove(i) /\ Refuse(i, "RemoveDirectory") /\ UNCHANGED entry
            \/ ~MayRemove(i) /\ UNCHANGED <<entry, refused>>
    BY DEF RemoveDirectory
  <1>recorded. refused[i] \subseteq refused'[i]
    BY <1>entry, Refusal DEF Inv, Calls
  <1>refused. Refuse(i, "RemoveDirectory") => "RemoveDirectory" \in refused'[i]
    BY Refusal DEF Inv, Calls
  <1>2. /\ Own(i) /\ input[i] = "pe"
        /\ rmdir_onexit[i] => n \in Names /\ Using(i)
    BY <1>1 DEF Inv, Own, Progress, Cleaning, Sourced, Using
  <1>3. \A m \in Names : \/ entry'[m] = entry[m]
                         \/ /\ rmdir_onexit[i] /\ files[n] = {} /\ m = n
                            /\ entry'[m] = "nothing"
    BY <1>0, <1>entry DEF MayRemove
  <1>4. \A j \in Instances \ {i} : SameFor(j)
    BY Others DEF Inv, Step
  <1>5. Located'
    BY <1>1 DEF Inv, Located
  <1>6. Exclusive'
    <2>1. \A j \in Instances \ {i} : Using(j)' => Using(j)
      BY <1>1, <1>4 DEF Using, SameFor
    <2>2. Using(i)' => Using(i) /\ files[n] # {}
      BY <1>1, <1>2 DEF Using, InDirectory, Cleaning
    <2>3. ASSUME NEW j \in Instances, Using(j)'
          PROVE  entry'[temp_location'[j]] = "directory"
      <3>1. Using(j)
        BY <2>1, <2>2, <2>3
      <3>2. entry[temp_location[j]] = "directory" /\ temp_location[j] \in Names
        BY <3>1, Mine
      <3>3. CASE j = i
        BY <1>1, <1>3, <2>2, <2>3, <3>2, <3>3
      <3>4. CASE j # i
        <4>1. rmdir_onexit[i] => temp_location[j] # n
          BY <1>2, <3>1, <3>4 DEF Inv, Exclusive
        <4>2. QED
          BY <1>1, <1>3, <3>2, <4>1
      <3>5. QED
        BY <3>3, <3>4
    <2>4. \A j \in Instances : Using(j)' => Using(j)
      BY <2>1, <2>2
    <2>5. QED
      BY <1>1, <2>3, <2>4 DEF Inv, Exclusive
  <1>7. Own(i)'
    <2>1. Progress(i)'
      BY <1>1, <1>2 DEF Own, Progress, BeforeDirectory, InDirectory
    <2>2. OpenOwn(i)' /\ Remembered(i)'
      BY <1>1, <1>2, <1>recorded DEF Own, OpenOwn, Remembered, MayStay, AfterCleaning
    <2>3. Vacated(i)'
      <3>1. SUFFICES ASSUME n \in Names, \A c \in files[n] : c.by # i,
                            refused'[i] \cap {"RemoveFile", "RemoveDirectory"} = {}
                     PROVE  \/ entry'[n] = "nothing"
                            \/ \E j \in Instances \ {i} : temp_location[j] = n
        BY <1>1 DEF Vacated, Emptied
      <3>2. CASE rmdir_onexit[i]
        <4>1. files[n] = {}
          BY <1>2, <3>1, <3>2, Mine
        <4>2. QED
          BY <1>0, <1>entry, <1>refused, <3>1, <3>2, <4>1 DEF MayRemove
      <3>3. CASE ~rmdir_onexit[i]
        <4>1. Emptied(i)
          BY <1>1, <1>recorded, <3>1, <3>3 DEF Emptied, Cleaning
        <4>2. entry' = entry
          BY <1>entry, <3>3 DEF MayRemove
        <4>3. QED
          BY <1>2, <4>1, <4>2 DEF Own, Vacated
      <3>4. QED
        BY <3>2, <3>3
    <2>4. Sourced(i)'
      BY <1>1, <1>2 DEF Own, Sourced, Cleaning, InDirectory, OwnImages
    <2>5. QED
      BY <2>1, <2>2, <2>3, <2>4 DEF Own
  <1>8. \A j \in Instances \ {i} : SharedFor(j)
    BY <1>1, <1>3 DEF SharedFor
  <1>9. Reserved'
    <2>1. rmdir_onexit[i] => entry[n] = "directory"
      BY <1>2, Mine
    <2>2. \A j \in Instances : pc[j] = "remove" => temp_location[j] \in Names
      BY DEF Inv, Own, Progress
    <2>3. QED
      BY <1>1, <1>3, <1>4, <2>1, <2>2 DEF Inv, Reserved, SameFor
  <1>10. QED
    BY <1>5, <1>6, <1>7, <1>8, <1>9, StepKeeps DEF Step

-----------------------------------------------------------------------------
(* The invariant, and what it means *)

\* Every step keeps the invariant.
LEMMA InvStep == Inv /\ [Next]_vars => Inv'
  <1> SUFFICES ASSUME Inv, [Next]_vars PROVE Inv'
    OBVIOUS
  <1>1. CASE UNCHANGED vars
    <2>1. /\ UNCHANGED <<pc, input, ok, exec_result, output, status>>
          /\ UNCHANGED <<temp_location, rmdir_onexit, remove_onexit>>
          /\ UNCHANGED <<open, loaded, entry, files, refused>>
      BY <1>1 DEF vars, local, temp, read, disk
    <2>2. Types' /\ Located' /\ Reserved'
      BY <2>1 DEF Inv, Types, TypeOK, Located, Reserved
    <2>3. Exclusive'
      BY <2>1 DEF Inv, Exclusive, Using
    <2>4. \A j \in Instances : Own(j)'
      BY <2>1 DEF Inv, Own, Progress, OpenOwn, Remembered, MayStay, Vacated,
        Emptied, Sourced, OwnImages
    <2>5. QED
      BY <2>2, <2>3, <2>4 DEF Inv
  <1>2. ASSUME NEW i \in Instances, Step(i) PROVE Inv'
    BY <1>2, SteadySteps, TempFileNameKeeps, RemoveFileKeeps, MakeDirectoryKeeps,
      CoffloadKeeps, RemoveFilesKeeps, RemoveDirectoryKeeps DEF Step, PlainStep
  <1>3. QED
    BY <1>1, <1>2 DEF Next, Returned

\* At first no instance has a name, a directory or a file.
LEMMA InvInit == Init => Inv
  <1> SUFFICES ASSUME Init PROVE Inv
    OBVIOUS
  <1>1. /\ \A i \in Instances : /\ pc[i] = "start" /\ temp_location[i] = NoName
                                /\ ~rmdir_onexit[i] /\ remove_onexit[i] = {}
                                /\ open[i] = {} /\ loaded[i] = {}
        /\ \A n \in Names : files[n] = {}
    BY DEF Init
  <1>2. TypeOK
    BY <1>1 DEF Init, TypeOK, Locations
  <1>3. Types
    BY <1>1, <1>2 DEF Init, Types
  <1>4. Located /\ Exclusive /\ Reserved
    BY <1>1 DEF Located, Exclusive, Using, Reserved
  <1>5. ASSUME NEW i \in Instances PROVE Own(i)
    <2>1. Progress(i) /\ OpenOwn(i) /\ Remembered(i)
      BY <1>1 DEF Progress, OpenOwn, Remembered, InDirectory
    <2>2. Vacated(i) /\ Sourced(i)
      BY <1>1 DEF Vacated, Emptied, Sourced, InDirectory, Cleaning, AfterCleaning
    <2>3. QED
      BY <2>1, <2>2 DEF Own
  <1>6. QED
    BY <1>3, <1>4, <1>5 DEF Inv

\* The invariant holds in every state.
LEMMA InvAlways == Spec => []Inv
BY InvInit, InvStep, PTL DEF Spec

\* What an instance disassembles comes from one source and is complete: the
\* file or files the user named, or the three files of the COFFLOAD that was
\* started for it. No other instance gets at its directory, although main
\* takes the name of a file another instance may have been given in between.
THEOREM AlwaysLoadsOwnOutput == Spec => []LoadsOwnOutput
  <1>1. Inv => LoadsOwnOutput
    <2> SUFFICES ASSUME Inv, NEW i \in Instances, At(i, "init")
                 PROVE  CASE input[i] = "pe"  -> loaded[i] = {Image(k, i) : k \in Images}
                          [] input[i] = "dat" -> loaded[i] = {Image(k, "user") : k \in Images}
                          [] input[i] = "raw" -> loaded[i] = {Image("dat", "user")}
      BY DEF LoadsOwnOutput, Inv, Types
    <2>1. \/ input[i] = "pe" /\ loaded[i] = OwnImages(i)
          \/ input[i] = "dat" /\ loaded[i] = {Image(k, "user") : k \in Images}
          \/ input[i] = "raw" /\ loaded[i] = {Image("dat", "user")}
      BY DEF Inv, Own, Sourced, At
    <2>2. QED
      BY <2>1 DEF OwnImages
  <1>2. QED
    BY <1>1, InvAlways, PTL

\* Whichever calls the system refuses, main going on or giving up: when an
\* instance has returned, each file it is responsible for is one it had opened,
\* or one whose removal was refused, or one that the search did not find
\* because it was refused. If there is none, and the removal of the file or the
\* directory of its name was not refused either, the name stands for nothing or
\* has been given to another instance.
THEOREM AlwaysLeavesOnlyWhatItReads == Spec => []LeavesOnlyWhatItReads
  <1>1. Inv => LeavesOnlyWhatItReads
    <2> SUFFICES ASSUME Inv, NEW i \in Instances, At(i, "returned")
                 PROVE  /\ \A c \in Left(i) : MayStay(i, c)
                        /\ (/\ temp_location[i] # NoName /\ Left(i) = {}
                            /\ refused[i] \cap {"RemoveFile", "RemoveDirectory"} = {}) =>
                             \/ entry[temp_location[i]] = "nothing"
                             \/ \E j \in Instances \ {i} :
                                  temp_location[j] = temp_location[i]
      BY DEF LeavesOnlyWhatItReads
    <2>1. \A c \in Left(i) : /\ rmdir_onexit[i] /\ c.by = i
                             /\ c \in files[temp_location[i]]
      BY DEF Left, Inv, Located
    <2>2. \A c \in Left(i) : MayStay(i, c)
      BY <2>1 DEF At, Inv, Own, Remembered, AfterCleaning
    <2>3. ASSUME temp_location[i] # NoName, Left(i) = {},
                 refused[i] \cap {"RemoveFile", "RemoveDirectory"} = {}
          PROVE  Emptied(i)
      <3>1. temp_location[i] \in Names
        BY <2>3 DEF Inv, Types, TypeOK
      <3>2. QED
        BY <2>3, <3>1 DEF Left, Emptied, At, AfterCleaning
    <2>4. QED
      BY <2>2, <2>3 DEF Inv, Own, Vacated
  <1>2. QED
    BY <1>1, InvAlways, PTL
=============================================================================
