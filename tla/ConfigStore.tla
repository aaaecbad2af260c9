----------------------------- MODULE ConfigStore -----------------------------
(***************************************************************************)
(* How configurations get into files: what conf_write (kconfig/confdata.c) *)
(* does to the directory, for any number of programs that write there.     *)
(*                                                                         *)
(* A program w writes a configuration to a temporary file, which has its   *)
(* process number in its name; renames the file it replaces to NAME.old;   *)
(* and renames the temporary file to NAME.  It may be killed between any   *)
(* two of these steps.  pending[w] says how far w has come.                *)
(***************************************************************************)
EXTENDS Naturals, Sequences

CONSTANTS Names,        \* the files configurations are saved to
          Writers,      \* the programs
          Configs,      \* what can be in a file
          Absent        \* stands for the content of a file that does not exist

OldOf(n) == <<n, "old">>
Files == Names \union {OldOf(n) : n \in Names}
Content == Configs \union {Absent}

\* Nobody saves to a name that is the old file of another.
ASSUME NamesAssumption == \A n \in Names : OldOf(n) \notin Names
ASSUME AbsentAssumption == Absent \notin Configs

VARIABLES files,        \* the content of every file
          pending,      \* what each program is writing
          newest        \* the last configuration that got each name

storeVars == <<files, pending, newest>>

Stages == {"idle", "written", "backed"}
Nothing(n) == [stage |-> "idle", name |-> n, config |-> Absent]

StoreTypeOK ==
  /\ files \in [Files -> Content]
  /\ pending \in [Writers -> [stage : Stages, name : Names, config : Content]]
  /\ newest \in [Names -> Content]

\* The configurations found; none has been backed up.
StoreInit(found, any) ==
  /\ files = [f \in Files |-> IF f \in Names THEN found[f] ELSE Absent]
  /\ pending = [w \in Writers |-> Nothing(any)]
  /\ newest = found

\* fopen, and all that is printed to the temporary file.
WriteTmp(w, n, c) ==
  /\ pending[w].stage = "idle"
  /\ pending' = [pending EXCEPT ![w] = [stage |-> "written", name |-> n, config |-> c]]
  /\ UNCHANGED <<files, newest>>

\* (Wrong variant: the file to be replaced is removed.)
RemovedFirst(n) == [files EXCEPT ![n] = Absent]

\* rename(newname, newname.old): its result is not looked at, and fails where there
\* is no such file.
RenamedToOld(n) == [files EXCEPT ![OldOf(n)] = files[n], ![n] = Absent]
Backup(w) ==
  /\ pending[w].stage = "written"
  /\ pending' = [pending EXCEPT ![w].stage = "backed"]
  /\ \/ files[pending[w].name] # Absent /\ files' = RenamedToOld(pending[w].name)
     \/ UNCHANGED files
  /\ UNCHANGED newest

\* rename(tmpname, newname).
Publish(w) ==
  /\ pending[w].stage = "backed"
  /\ files' = [files EXCEPT ![pending[w].name] = pending[w].config]
  /\ newest' = [newest EXCEPT ![pending[w].name] = pending[w].config]
  /\ pending' = [pending EXCEPT ![w].stage = "idle"]

\* It fails: conf_write returns 1.
FailPublish(w) ==
  /\ pending[w].stage = "backed"
  /\ pending' = [pending EXCEPT ![w].stage = "idle"]
  /\ UNCHANGED <<files, newest>>

\* Killed: what it was writing stays behind in its temporary file, which nobody reads.
Killed(w) ==
  /\ pending' = [pending EXCEPT ![w].stage = "idle"]
  /\ UNCHANGED <<files, newest>>

StoreNext ==
  \E w \in Writers :
    \/ \E n \in Names, c \in Configs : WriteTmp(w, n, c)
    \/ Backup(w)
    \/ Publish(w)
    \/ FailPublish(w)
    \/ Killed(w)

StoreSpec ==
  /\ \E found \in [Names -> Content], any \in Names : StoreInit(found, any)
  /\ [][StoreNext]_storeVars

\* The newest configuration of a name is always there, under the name or, between
\* two renames, as the old file: whoever else writes, and whoever is killed.
NewestKept ==
  \A n \in Names : newest[n] # Absent =>
    \/ files[n] = newest[n]
    \/ files[n] = Absent /\ files[OldOf(n)] = newest[n]

\* The files are well formed, and the newest configurations are among them.
StoreInv == StoreTypeOK /\ NewestKept

\* A configuration only disappears from the disk when a newer one takes its place.
Present(fs, n, c) == fs[n] = c \/ fs[OldOf(n)] = c
NeverLost ==
  [][\A n \in Names : newest[n] # Absent /\ newest'[n] = newest[n]
                        => Present(files', n, newest[n])]_storeVars
=============================================================================
