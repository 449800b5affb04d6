------------------------------ MODULE FileStore ------------------------------
(***************************************************************************)
(* The drivers storage/local and storage/memory under Files.Put,           *)
(* PutUnique, Get, Delete and List, called by several clients at once.     *)
(* The local driver stages a body in a temporary file beside the key and   *)
(* moves it into place; the memory driver reads it whole and stores it     *)
(* under its lock.  A key is <<name, n>>: the name itself (n = 0) or the   *)
(* numbered ones PutUnique tries after it; all are in one directory.       *)
(* A crash ends every call and keeps what is on disk.  Symbolic links,     *)
(* which the drivers refuse, are left out.                                 *)
(* ever is what List is measured by: the keys that were there at some time *)
(* during the call.                                                        *)
(***************************************************************************)
EXTENDS Integers, FiniteSets
CONSTANTS Clients, BaseNames, maxUniqueTries, MaxCalls, MaxCrashes
ASSUME FileStoreAssumption == maxUniqueTries \in Nat \ {0} /\ BaseNames # {} /\ "temp" \notin BaseNames
VARIABLES driver, files, temps, call, pc, try, temp, names, ever, calls, crashes
fileVars == <<driver, files, temps, call, pc, try, temp, names, ever, calls, crashes>>

Keys == BaseNames \X (0..(maxUniqueTries - 1))
Bodies == Clients
Series(key) == {<<key[1], n>> : n \in 0..(maxUniqueTries - 1)}
AF == INSTANCE AtomicFiles

there == {k \in Keys : files[k] # {}}
FilesInit ==
  /\ driver \in {"local", "memory"} /\ files = [k \in Keys |-> {}] /\ temps = {} /\ calls = 0 /\ crashes = 0
  /\ call = [c \in Clients |-> AF!Nothing] /\ pc = [c \in Clients |-> "idle"] /\ try = [c \in Clients |-> 0]
  /\ temp = [c \in Clients |-> 0] /\ names = [c \in Clients |-> {}] /\ ever = [c \in Clients |-> {}]

goes(c, at) == pc' = [pc EXCEPT ![c] = at]
local(c, at) == driver = "local" /\ pc[c] = at
answerCall(c, ok, at, read) == call' = [call EXCEPT ![c].status = "done", ![c].ok = ok, ![c].at = at, ![c].read = read]
fail(c) == answerCall(c, FALSE, {}, {})
\* The key of this try: the name, then "base-1.ext", "base-2.ext", ...
wanted(c) == IF call[c].op = "unique" THEN <<call[c].key[1], try[c]>> ELSE call[c].key
\* Every write of the directory is seen by the calls that list it.
store(now) ==
  /\ files' = now
  /\ ever' = [c \in Clients |-> ever[c] \cup {k \in Keys : now[k] # {}}]
quiet == UNCHANGED <<files, ever>>

BeginCall(c) ==
  /\ pc[c] = "idle" /\ calls < MaxCalls /\ calls' = calls + 1
  /\ \E op \in {"put", "unique", "get", "delete", "list"}, n \in BaseNames :
        /\ call' = [call EXCEPT ![c] = [AF!Nothing EXCEPT !.op = op, !.key = <<n, 0>>, !.body = c, !.status = "called"]]
        /\ goes(c, CASE op = "list" -> "names" [] op \in {"get", "delete"} -> "act" [] op \in {"put", "unique"} /\ driver = "memory" -> "read"
                     [] op = "unique" /\ driver # "memory" -> "look" [] OTHER -> "stage")
  /\ ever' = [ever EXCEPT ![c] = there]
  /\ UNCHANGED <<driver, files, temps, try, temp, names, crashes>>

\* The next name of PutUnique, or none is left.
another(c) ==
  IF try[c] + 1 < maxUniqueTries
  THEN /\ try' = [try EXCEPT ![c] = @ + 1] /\ goes(c, IF driver = "local" THEN "look" ELSE "lock") /\ UNCHANGED call
  ELSE /\ fail(c) /\ goes(c, "return") /\ UNCHANGED try
\* PutNew: taken already, the stream is not even read.
Look(c) ==
  /\ local(c, "look")
  /\ IF files[wanted(c)] # {} THEN another(c) ELSE goes(c, "stage") /\ UNCHANGED <<call, try>>
  /\ quiet /\ UNCHANGED <<driver, temps, temp, names, calls, crashes>>
\* os.CreateTemp: a name nothing has.
unused == CHOOSE t \in 1..(Cardinality(temps) + 1) : t \notin temps
\* stage: the temporary file, then the whole stream in it, or nothing.
Stage(c) ==
  /\ local(c, "stage")
  /\ temps' = temps \cup {unused} /\ temp' = [temp EXCEPT ![c] = unused]
  /\ goes(c, "write") /\ quiet /\ UNCHANGED <<driver, call, try, names, calls, crashes>>
writeAll(c) == local(c, "write") /\ goes(c, "place") /\ quiet /\ UNCHANGED <<driver, temps, call, try, temp, names, calls, crashes>>
writeAllFails(c) ==
  /\ local(c, "write") /\ temps' = temps \ {temp[c]} /\ temp' = [temp EXCEPT ![c] = 0] /\ fail(c) /\ goes(c, "return")
  /\ quiet /\ UNCHANGED <<driver, try, names, calls, crashes>>
\* Put: rename replaces.
Rename(c) ==
  /\ local(c, "place") /\ call[c].op = "put"
  /\ store([files EXCEPT ![wanted(c)] = {call[c].body}]) /\ temps' = temps \ {temp[c]} /\ temp' = [temp EXCEPT ![c] = 0]
  /\ answerCall(c, TRUE, {wanted(c)}, {}) /\ goes(c, "return") /\ UNCHANGED <<driver, try, names, calls, crashes>>
ReplacesMutant(c) ==
  /\ local(c, "place") /\ call[c].op = "unique"
  /\ store([files EXCEPT ![wanted(c)] = {call[c].body}]) /\ answerCall(c, TRUE, {wanted(c)}, {}) /\ goes(c, "cleanup")
  /\ UNCHANGED <<driver, temps, try, temp, names, calls, crashes>>
\* PutNew: link refuses a name that is taken.
Link(c) ==
  /\ local(c, "place") /\ call[c].op = "unique" /\ files[wanted(c)] = {}
  /\ store([files EXCEPT ![wanted(c)] = {call[c].body}]) /\ answerCall(c, TRUE, {wanted(c)}, {}) /\ goes(c, "cleanup")
  /\ UNCHANGED <<driver, temps, try, temp, names, calls, crashes>>
LinkTaken(c) ==
  /\ local(c, "place") /\ call[c].op = "unique" /\ files[wanted(c)] # {}
  /\ goes(c, "discard") /\ quiet /\ UNCHANGED <<driver, temps, call, try, temp, names, calls, crashes>>
placeFails(c) ==
  /\ local(c, "place") /\ fail(c) /\ goes(c, "cleanup") /\ quiet /\ UNCHANGED <<driver, temps, try, temp, names, calls, crashes>>
\* The deferred Remove is best-effort: a file it could not remove stays.
removal(c) == (temps' = temps \ {temp[c]} \/ UNCHANGED temps) /\ temp' = [temp EXCEPT ![c] = 0]
Discard(c) == local(c, "discard") /\ removal(c) /\ another(c) /\ quiet /\ UNCHANGED <<driver, names, calls, crashes>>
Cleanup(c) == local(c, "cleanup") /\ removal(c) /\ goes(c, "return") /\ quiet /\ UNCHANGED <<driver, call, try, names, calls, crashes>>

\* The memory driver's put: the whole stream, then the map under the lock.
MemoryRead(c) == pc[c] = "read" /\ goes(c, "lock") /\ quiet /\ UNCHANGED <<driver, temps, call, try, temp, names, calls, crashes>>
MemoryReadFails(c) ==
  pc[c] = "read" /\ fail(c) /\ goes(c, "return") /\ quiet /\ UNCHANGED <<driver, temps, try, temp, names, calls, crashes>>
MemoryPut(c) ==
  /\ pc[c] = "lock"
  /\ IF call[c].op = "unique" /\ files[wanted(c)] # {} THEN another(c) /\ quiet
     ELSE /\ store([files EXCEPT ![wanted(c)] = {call[c].body}]) /\ answerCall(c, TRUE, {wanted(c)}, {}) /\ goes(c, "return") /\ UNCHANGED try
  /\ UNCHANGED <<driver, temps, temp, names, calls, crashes>>

\* Get opens a file that keeps its body; Delete of a missing file is no error.
Get(c) ==
  /\ pc[c] = "act" /\ call[c].op = "get" /\ answerCall(c, files[call[c].key] # {}, {}, files[call[c].key]) /\ goes(c, "return")
  /\ quiet /\ UNCHANGED <<driver, temps, try, temp, names, calls, crashes>>
Delete(c) ==
  /\ pc[c] = "act" /\ call[c].op = "delete" /\ store([files EXCEPT ![call[c].key] = {}]) /\ answerCall(c, TRUE, {}, {})
  /\ goes(c, "return") /\ UNCHANGED <<driver, temps, try, temp, names, calls, crashes>>
MemoryList(c) ==
  /\ driver = "memory" /\ pc[c] = "names" /\ answerCall(c, TRUE, there, {}) /\ goes(c, "return")
  /\ quiet /\ UNCHANGED <<driver, temps, try, temp, names, calls, crashes>>
\* filepath.Walk: the names of the directory, then each of them looked at.  A
\* name is a key or <<"temp", t>>; a temporary file is left out.
present(name) == IF name[1] = "temp" THEN name[2] \in temps ELSE files[name] # {}
ReadNames(c) ==
  /\ local(c, "names") /\ names' = [names EXCEPT ![c] = there \cup ({"temp"} \X temps)] /\ goes(c, "walk")
  /\ quiet /\ UNCHANGED <<driver, temps, call, try, temp, calls, crashes>>
listed(name) == IF name[1] = "temp" THEN {} ELSE {name}
Walk(c) ==
  /\ local(c, "walk")
  /\ \E name \in names[c] :
        /\ names' = [names EXCEPT ![c] = @ \ {name}]
        /\ present(name) /\ call' = [call EXCEPT ![c].at = @ \cup listed(name)] /\ UNCHANGED pc
  /\ quiet /\ UNCHANGED <<driver, temps, try, temp, calls, crashes>>
\* A name that went away ends the walk, which List answers with no keys.
Vanished(c) ==
  /\ local(c, "walk") /\ (\E name \in names[c] : ~present(name)) /\ names' = [names EXCEPT ![c] = {}]
  /\ answerCall(c, TRUE, {}, {}) /\ goes(c, "return") /\ quiet /\ UNCHANGED <<driver, temps, try, temp, calls, crashes>>
Walked(c) ==
  /\ local(c, "walk") /\ names[c] = {} /\ answerCall(c, TRUE, call[c].at, {}) /\ goes(c, "return")
  /\ quiet /\ UNCHANGED <<driver, temps, try, temp, names, calls, crashes>>

Return(c) ==
  /\ pc[c] = "return" /\ goes(c, "idle") /\ call' = [call EXCEPT ![c] = AF!Nothing] /\ try' = [try EXCEPT ![c] = 0]
  /\ quiet /\ UNCHANGED <<driver, temps, temp, names, calls, crashes>>
CrashFiles ==
  /\ driver = "local" /\ crashes < MaxCrashes /\ crashes' = crashes + 1
  /\ call' = [c \in Clients |-> AF!Nothing] /\ pc' = [c \in Clients |-> "idle"] /\ try' = [c \in Clients |-> 0]
  /\ temp' = [c \in Clients |-> 0] /\ names' = [c \in Clients |-> {}] /\ quiet /\ UNCHANGED <<driver, temps, calls>>

Step(c) ==
  \/ Look(c) \/ Stage(c) \/ writeAll(c) \/ writeAllFails(c) \/ Rename(c) \/ Link(c) \/ LinkTaken(c) \/ placeFails(c)
  \/ Discard(c) \/ Cleanup(c) \/ MemoryRead(c) \/ MemoryReadFails(c) \/ MemoryPut(c) \/ Get(c) \/ Delete(c)
  \/ MemoryList(c) \/ ReadNames(c) \/ Walk(c) \/ Vanished(c) \/ Walked(c) \/ Return(c)
FilesNext == CrashFiles \/ \E c \in Clients : BeginCall(c) \/ Step(c)
FilesSpec == FilesInit /\ [][FilesNext]_fileVars
-----------------------------------------------------------------------------
listing(c) == call[c].op = "list" /\ call[c].status = "called"
AtomicCall == [c \in Clients |-> IF listing(c) THEN [call[c] EXCEPT !.at = {}] ELSE call[c]]
Atomic == INSTANCE AtomicFiles WITH call <- AtomicCall

(* A listing names only files that were there at some time while it ran,    *)
(* and never a temporary one (Driver.List).                                 *)
ListedWasThere == \A c \in Clients : call[c].op = "list" => call[c].at \subseteq ever[c]

(* However Put, PutUnique, Get, Delete and List race, fail and are cut off  *)
(* by a crash, the files change as if each call took effect at one moment   *)
(* or not at all, PutUnique never replaces a file, and a list names only    *)
(* what was there during the call (local and memory drivers, PutUnique).    *)
FilesAtomic == Atomic!Spec /\ []ListedWasThere
=============================================================================
