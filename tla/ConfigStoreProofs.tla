-------------------------- MODULE ConfigStoreProofs --------------------------
(***************************************************************************)
(* Configurations are never lost, for any set of names, of configurations  *)
(* and of programs that write at the same time, killed at any point.       *)
(***************************************************************************)
EXTENDS ConfigStore, TLAPS

\* The names of the old files are apart from the names, and from one another.
LEMMA OldApart ==
  ASSUME NEW n \in Names, NEW m \in Names
  PROVE  /\ OldOf(n) # m
         /\ OldOf(n) = OldOf(m) => n = m
         /\ n \in Files /\ OldOf(n) \in Files
BY NamesAssumption DEF OldOf, Files

\* Every variable of the store keeps its type.
LEMMA StoreTypeStep ==
  ASSUME StoreTypeOK, [StoreNext]_storeVars
  PROVE  StoreTypeOK'
<1>1. CASE UNCHANGED storeVars
  BY <1>1 DEF StoreTypeOK, storeVars
<1>2. ASSUME NEW w \in Writers, NEW n \in Names, NEW c \in Configs, WriteTmp(w, n, c)
      PROVE  StoreTypeOK'
  BY <1>2 DEF StoreTypeOK, WriteTmp, Stages, Content
<1>3. ASSUME NEW w \in Writers, Backup(w)
      PROVE  StoreTypeOK'
  <2>1. pending[w].name \in Names
    BY DEF StoreTypeOK
  <2>2. files' \in [Files -> Content]
    BY <1>3, <2>1, OldApart DEF StoreTypeOK, Backup, RenamedToOld, Content
  <2>3. pending' \in [Writers -> [stage : Stages, name : Names, config : Content]]
    BY <1>3 DEF StoreTypeOK, Backup, Stages
  <2>. QED BY <1>3, <2>2, <2>3 DEF StoreTypeOK, Backup
<1>4. ASSUME NEW w \in Writers, Publish(w)
      PROVE  StoreTypeOK'
  BY <1>4, OldApart DEF StoreTypeOK, Publish, Stages
<1>5. ASSUME NEW w \in Writers, FailPublish(w) \/ Killed(w)
      PROVE  StoreTypeOK'
  BY <1>5 DEF StoreTypeOK, FailPublish, Killed, Stages
<1>. QED BY <1>1, <1>2, <1>3, <1>4, <1>5 DEF StoreNext

LEMMA StoreTypeInit ==
  ASSUME NEW found \in [Names -> Content], NEW any \in Names, StoreInit(found, any)
  PROVE  StoreTypeOK
BY DEF StoreInit, StoreTypeOK, Nothing, Stages, Content, Files

\* StoreTypeOK: the files, what each program is writing and the newest configurations
\* are what they are declared to be.
THEOREM StoreTypeCorrect == StoreSpec => []StoreTypeOK
<1>1. (\E found \in [Names -> Content], any \in Names : StoreInit(found, any)) => StoreTypeOK
  BY StoreTypeInit
<1>. QED BY <1>1, StoreTypeStep, PTL DEF StoreSpec

-----------------------------------------------------------------------------
LEMMA NewestKeptInit ==
  ASSUME NEW found \in [Names -> Content], NEW any \in Names, StoreInit(found, any)
  PROVE  NewestKept
BY OldApart DEF StoreInit, NewestKept, Files

\* The renames of one program, seen from each name.
LEMMA NewestKeptStep ==
  ASSUME StoreTypeOK, NewestKept, [StoreNext]_storeVars
  PROVE  NewestKept'
<1>. SUFFICES ASSUME NEW n \in Names, newest'[n] # Absent
              PROVE  \/ files'[n] = newest'[n]
                     \/ files'[n] = Absent /\ files'[OldOf(n)] = newest'[n]
  BY DEF NewestKept
<1>1. CASE UNCHANGED <<files, newest>>
  BY <1>1 DEF NewestKept
<1>2. ASSUME NEW w \in Writers, Backup(w)
      PROVE  \/ files'[n] = newest'[n]
             \/ files'[n] = Absent /\ files'[OldOf(n)] = newest'[n]
  <2>1. CASE UNCHANGED files
    BY <1>2, <2>1 DEF Backup, NewestKept
  <2>2. CASE files[pending[w].name] # Absent /\ files' = RenamedToOld(pending[w].name)
    <3>1. pending[w].name \in Names /\ newest' = newest
      BY <1>2 DEF StoreTypeOK, Backup
    <3>2. CASE n = pending[w].name
      BY <2>2, <3>1, <3>2, OldApart DEF RenamedToOld, NewestKept, StoreTypeOK
    <3>3. CASE n # pending[w].name
      BY <2>2, <3>1, <3>3, OldApart DEF RenamedToOld, NewestKept, StoreTypeOK
    <3>. QED BY <3>2, <3>3
  <2>. QED BY <1>2, <2>1, <2>2 DEF Backup
<1>3. ASSUME NEW w \in Writers, Publish(w)
      PROVE  \/ files'[n] = newest'[n]
             \/ files'[n] = Absent /\ files'[OldOf(n)] = newest'[n]
  <2>1. pending[w].name \in Names
    BY DEF StoreTypeOK
  <2>2. CASE n = pending[w].name
    BY <1>3, <2>1, <2>2, OldApart DEF Publish, StoreTypeOK
  <2>3. CASE n # pending[w].name
    BY <1>3, <2>1, <2>3, OldApart DEF Publish, NewestKept, StoreTypeOK
  <2>. QED BY <2>2, <2>3
<1>4. CASE UNCHANGED storeVars
  BY <1>4, <1>1 DEF storeVars
<1>. QED BY <1>1, <1>2, <1>3, <1>4 DEF StoreNext, WriteTmp, FailPublish, Killed

\* NewestKept: the newest configuration of every name is on the disk at every moment,
\* under its name or as its old file.
THEOREM NewestAlwaysKept == StoreSpec => []NewestKept
<1>1. (\E found \in [Names -> Content], any \in Names : StoreInit(found, any)) => NewestKept
  BY NewestKeptInit
<1>2. StoreTypeOK /\ NewestKept /\ [StoreNext]_storeVars => NewestKept'
  BY NewestKeptStep
<1>. QED BY <1>1, <1>2, StoreTypeCorrect, PTL DEF StoreSpec

\* StoreInv: at every moment the files are well formed and the newest configuration of
\* every name is on the disk.
THEOREM StoreCorrect == StoreSpec => []StoreInv
<1>1. StoreTypeOK /\ NewestKept => StoreInv
  BY DEF StoreInv
<1>. QED BY <1>1, StoreTypeCorrect, NewestAlwaysKept, PTL

\* NeverLost: no step takes the newest configuration of a name from the disk unless a
\* newer one gets the name.
THEOREM NothingLost == StoreSpec => NeverLost
<1>1. NewestKept /\ NewestKept' /\ [StoreNext]_storeVars
        => [\A n \in Names : newest[n] # Absent /\ newest'[n] = newest[n]
                               => Present(files', n, newest[n])]_storeVars
  BY DEF NewestKept, Present
<1>. QED BY <1>1, NewestAlwaysKept, PTL DEF StoreSpec, NeverLost
=============================================================================
