-------------------------- MODULE AtomicSave_proofs --------------------------
(***************************************************************************)
(* Proofs about save_file_if_unchanged: no torn file, durable success, no  *)
(* lost outside write, and the contract it implements, for any number of   *)
(* threads and any number of writes.                                       *)
(***************************************************************************)
EXTENDS AtomicSaveProps, TLAPS

-----------------------------------------------------------------------------
(* What a step changes of the saver that takes it *)

Others(s) == \A u \in Savers : u # s => saver'[u] = saver[u]

\* All of a save's state but its pc and what the last comparison left.
SameSave(s) ==
    /\ saver'[s].round = saver[s].round /\ saver'[s].expected = saver[s].expected
    /\ saver'[s].data = saver[s].data /\ saver'[s].name = saver[s].name
    /\ saver'[s].replaced = saver[s].replaced

\* A record that is a saver's state stays one, and so does the function of them.
LEMMA SaverReplaced ==
    ASSUME TypeOK, NEW s \in Savers, NEW r \in SaverStates, saver' = [saver EXCEPT ![s] = r]
    PROVE  saver' \in [Savers -> SaverStates] /\ Others(s) /\ saver'[s] = r
BY DEF TypeOK, Others

\* Going on to another call changes nothing else.
LEMMA GoesShape ==
    ASSUME TypeOK, NEW s \in Savers, NEW pc \in Calls, Goes(s, pc)
    PROVE  /\ saver' \in [Savers -> SaverStates] /\ Others(s) /\ SameSave(s)
           /\ saver'[s].pc = pc /\ saver'[s].checked = saver[s].checked
BY DEF TypeOK, Goes, SaverStates, Others, SameSave

\* A decision records the revision it was made on.
LEMMA DecideShape ==
    ASSUME TypeOK, NEW s \in Savers, NEW rev \in MaybeFile, Decide(s, rev)
    PROVE  /\ saver' \in [Savers -> SaverStates] /\ Others(s) /\ SameSave(s)
           /\ saver'[s].pc = Decision(s, rev)
           /\ saver'[s].result = rev /\ saver'[s].checked = entry
<1>1. Decision(s, rev) \in Calls
  BY DEF Decision, Calls, Abandoned
<1> QED BY <1>1, ZenonT(60) DEF TypeOK, Decide, SaverStates, Others, SameSave

\* Reading the metadata keeps it for the comparison.
LEMMA MetaShape ==
    ASSUME TypeOK, NEW s \in Savers, NEW pc \in Calls, NEW m \in Nat,
           saver' = [saver EXCEPT ![s].pc = pc, ![s].meta = m]
    PROVE  /\ saver' \in [Savers -> SaverStates] /\ Others(s) /\ SameSave(s)
           /\ saver'[s].pc = pc
BY ZenonT(60) DEF TypeOK, SaverStates, Others, SameSave

\* A name that exists costs one attempt.
LEMMA RetryShape ==
    ASSUME TypeOK, NEW s \in Savers, saver' = [saver EXCEPT ![s].tries = @ + 1]
    PROVE  /\ saver' \in [Savers -> SaverStates] /\ Others(s) /\ SameSave(s)
           /\ saver'[s].pc = saver[s].pc /\ saver'[s].checked = saver[s].checked
BY DEF TypeOK, SaverStates, Others, SameSave

\* Creating the temporary file gives the save its name.
LEMMA CreateShape ==
    ASSUME TypeOK, NEW s \in Savers, NEW pc \in Calls, NEW n \in Nat,
           saver' = [saver EXCEPT ![s].pc = pc, ![s].name = n]
    PROVE  /\ saver' \in [Savers -> SaverStates] /\ Others(s)
           /\ saver'[s].pc = pc /\ saver'[s].name = n
           /\ saver'[s].round = saver[s].round /\ saver'[s].data = saver[s].data
           /\ saver'[s].replaced = saver[s].replaced
BY ZenonT(60) DEF TypeOK, SaverStates, Others

\* Syncing the file or the directory leads to the next read of the revision.
LEMMA RoundShape ==
    ASSUME TypeOK, NEW s \in Savers, NEW pc \in Calls, NEW k \in 1..3,
           saver' = [saver EXCEPT ![s].pc = pc, ![s].round = k]
    PROVE  /\ saver' \in [Savers -> SaverStates] /\ Others(s)
           /\ saver'[s].pc = pc /\ saver'[s].round = k
           /\ saver'[s].name = saver[s].name /\ saver'[s].data = saver[s].data
           /\ saver'[s].replaced = saver[s].replaced
BY ZenonT(60) DEF TypeOK, SaverStates, Others

\* The rename remembers what a power cut could have left before it.
LEMMA RenameShape ==
    ASSUME TypeOK, NoTornFile, NEW s \in Savers, NEW pc \in Calls,
           saver' = [saver EXCEPT ![s].pc = pc, ![s].replaced = survivors]
    PROVE  /\ saver' \in [Savers -> SaverStates] /\ Others(s)
           /\ saver'[s].pc = pc /\ saver'[s].replaced = survivors
           /\ saver'[s].round = saver[s].round /\ saver'[s].data = saver[s].data
           /\ saver'[s].name = saver[s].name
<1>1. survivors \in SUBSET MaybeFile
  BY DEF TypeOK, NoTornFile, Disks
<1> QED BY <1>1, ZenonT(60) DEF TypeOK, SaverStates, Others

\* A temporary file is changed in one place.
LEMMA TempShape ==
    ASSUME TypeOK, ConstantsAssumption, NEW n \in Names, temps[n] # None
    PROVE  /\ \A f \in Files : temps' = [temps EXCEPT ![n].file = f] =>
                 /\ temps' \in [Names -> Temps \cup {None}]
                 /\ temps'[n] # None /\ temps'[n].file = f /\ temps'[n].synced = temps[n].synced
                 /\ \A k \in Names : k # n => temps'[k] = temps[k]
           /\ temps' = [temps EXCEPT ![n].synced = TRUE] =>
                 /\ temps' \in [Names -> Temps \cup {None}]
                 /\ temps'[n] # None /\ temps'[n].file = temps[n].file /\ temps'[n].synced
                 /\ \A k \in Names : k # n => temps'[k] = temps[k]
<1>1. temps[n] \in Temps /\ None \notin Temps
  BY ConstantsAssumption DEF TypeOK, ConstantsAssumption
<1>2. ASSUME NEW q \in Temps, temps' = [temps EXCEPT ![n] = q]
      PROVE  /\ temps' \in [Names -> Temps \cup {None}] /\ temps'[n] = q /\ temps'[n] # None
             /\ \A k \in Names : k # n => temps'[k] = temps[k]
  BY <1>1, <1>2 DEF TypeOK
<1>3. ASSUME NEW f \in Files, temps' = [temps EXCEPT ![n].file = f]
      PROVE  /\ temps' \in [Names -> Temps \cup {None}]
             /\ temps'[n] # None /\ temps'[n].file = f /\ temps'[n].synced = temps[n].synced
             /\ \A k \in Names : k # n => temps'[k] = temps[k]
  <2> DEFINE q == [temps[n] EXCEPT !.file = f]
  <2>1. q \in Temps /\ q.file = f /\ q.synced = temps[n].synced
    BY <1>1 DEF Temps
  <2>2. temps' = [temps EXCEPT ![n] = q]
    BY <1>3
  <2> HIDE DEF q
  <2> QED BY <1>2, <2>1, <2>2
<1>4. ASSUME temps' = [temps EXCEPT ![n].synced = TRUE]
      PROVE  /\ temps' \in [Names -> Temps \cup {None}]
             /\ temps'[n] # None /\ temps'[n].file = temps[n].file /\ temps'[n].synced
             /\ \A k \in Names : k # n => temps'[k] = temps[k]
  <2> DEFINE q == [temps[n] EXCEPT !.synced = TRUE]
  <2>1. q \in Temps /\ q.file = temps[n].file /\ q.synced
    BY <1>1 DEF Temps
  <2>2. temps' = [temps EXCEPT ![n] = q]
    BY <1>4
  <2> HIDE DEF q
  <2> QED BY <1>2, <2>1, <2>2
<1> QED BY <1>3, <1>4

\* A save that rests knows nothing.
LEMMA RestingState ==
    ASSUME ConstantsAssumption
    PROVE  /\ Resting \in SaverStates
           /\ Resting.pc = "idle" /\ Resting.round = 1 /\ Resting.name = None
           /\ Resting.data = 0 /\ Resting.replaced = {}
BY DEF Resting, SaverStates, Calls, MaybeFile

\* A save that begins keeps nothing but its expected revision and its bytes.
LEMMA BeginShape ==
    ASSUME TypeOK, NEW s \in Savers, NEW r \in SaverStates, NEW pc \in Calls,
           NEW e \in MaybeFile, NEW d \in Nat,
           saver' = [saver EXCEPT ![s] = [r EXCEPT !.pc = pc, !.expected = e, !.data = d]]
    PROVE  /\ saver' \in [Savers -> SaverStates] /\ Others(s)
           /\ saver'[s].pc = pc /\ saver'[s].data = d
           /\ saver'[s].round = r.round /\ saver'[s].name = r.name
           /\ saver'[s].replaced = r.replaced
<1> DEFINE q == [r EXCEPT !.pc = pc, !.expected = e, !.data = d]
<1>1. /\ q \in SaverStates /\ q.pc = pc /\ q.data = d
      /\ q.round = r.round /\ q.name = r.name /\ q.replaced = r.replaced
  BY DEF SaverStates
<1> HIDE DEF q
<1> QED BY <1>1, SaverReplaced DEF q

\* A new save starts with nothing of the last one.
LEMMA StartShape ==
    ASSUME TypeOK, ConstantsAssumption, NEW s \in Savers, Start(s)
    PROVE  /\ saver' \in [Savers -> SaverStates] /\ Others(s)
           /\ saver'[s].pc = "meta" /\ saver'[s].round = 1 /\ saver'[s].name = None
           /\ saver'[s].data = writes /\ saver'[s].replaced = {}
<1> DEFINE pc == "meta"
<1>1. PICK e \in {entry, saver[s].result} :
        saver' = [saver EXCEPT ![s] = [Resting EXCEPT !.pc = pc, !.expected = e,
                                                      !.data = writes]]
  BY DEF Start
<1>2. e \in MaybeFile /\ writes \in Nat /\ pc \in Calls
  BY DEF TypeOK, SaverStates, Calls
<1> HIDE DEF pc
<1>3. /\ saver' \in [Savers -> SaverStates] /\ Others(s)
      /\ saver'[s].pc = pc /\ saver'[s].data = writes
      /\ saver'[s].round = Resting.round /\ saver'[s].name = Resting.name
      /\ saver'[s].replaced = Resting.replaced
  BY <1>1, <1>2, BeginShape, RestingState, Zenon
<1> QED BY <1>3, RestingState DEF pc

\* Every file that can be at the path, or was, has a number.
LEMMA MetasAreNumbers ==
    ASSUME IInv
    PROVE  /\ \A f \in survivors \ {None} : f \in Files /\ f.meta \in Nat
           /\ \A s \in Savers : \A f \in saver[s].replaced \ {None} :
                 f \in Files /\ f.meta \in Nat
           /\ \A s \in Savers : saver[s].data \in Nat
           /\ writes \in Nat /\ nextName \in Nat
BY DEF IInv, TypeOK, NoTornFile, Disks, MaybeFile, Files, SaverStates

\* The step is one of the contract, or changes nothing the contract sees.
Simulates == [Contract!Next]_(Contract!vars)

\* A step that moves one save's status as the contract does is a step of the contract.
LEMMA ContractStep ==
    ASSUME NEW s \in Savers, Others(s)
    PROVE  /\ \/ UNCHANGED <<entry, survivors>> /\ Status(s)' = Status(s)
              \/ /\ UNCHANGED <<entry, survivors>> /\ Status(s)' = "running"
                 /\ Status(s) \in {"idle", "ok", "failed"}
              \/ /\ UNCHANGED <<entry, survivors>> /\ Status(s)' = "failed"
                 /\ Status(s) \in {"running", "replaced", "settled"}
              \/ UNCHANGED <<entry, survivors>> /\ Status(s) = "settled" /\ Status(s)' = "ok"
              \/ /\ Status(s) = "running" /\ Status(s)' = "replaced"
                 /\ entry' # None /\ survivors' = survivors \cup {entry'}
              \/ /\ Status(s) = "replaced" /\ Status(s)' = "settled"
                 /\ entry' = entry /\ survivors' = {entry}
              => Simulates
<1> DEFINE status == [u \in Savers |-> Status(u)]
<1>1. \A u \in Savers : u # s => Status(u)' = Status(u)
  BY DEF Others, Status, At
<1>2. /\ status' = [status EXCEPT ![s] = Status(s)'] /\ status[s] = Status(s)
      /\ Status(s)' = Status(s) => status' = status
  BY <1>1
<1> HIDE DEF status
<1> QED BY <1>2 DEF Simulates, Contract!Next, Contract!vars, Contract!Begin, Contract!Fail,
                    Contract!Succeed, Contract!Replace, Contract!Settle, Contract!Becomes,
                        status

\* A step of other programs is one of the contract's environment.
LEMMA ContractOutside ==
    ASSUME saver' = saver, survivors' = survivors \cup {entry'}
    PROVE  Simulates
BY DEF Simulates, Contract!Next, Contract!Outside, Contract!vars, Status, At

\* A restart ends every save.
LEMMA ContractRestarts ==
    ASSUME \A s \in Savers : saver'[s].pc = "idle",
           UNCHANGED <<entry, survivors>> \/ (entry' \in survivors /\ survivors' = {entry'})
    PROVE  Simulates
<1>1. [s \in Savers |-> Status(s)]' = [s \in Savers |-> "idle"]
  BY DEF Status
<1> QED BY <1>1 DEF Simulates, Contract!Next, Contract!Kill, Contract!PowerCut, Contract!Restart

\* Starting a save makes a number for its file that nothing has.
LEMMA StartStep ==
  ASSUME ConstantsAssumption, IInv, NEW s \in Savers, Start(s)
  PROVE IInv' /\ Simulates
<1> USE DEF At
<1>1. /\ saver' \in [Savers -> SaverStates] /\ Others(s)
      /\ saver'[s].pc = "meta" /\ saver'[s].round = 1 /\ saver'[s].name = None
      /\ saver[s].pc \in {"idle", "ok", "failed"}
      /\ saver'[s].data = writes /\ saver'[s].replaced = {}
      /\ writes' = writes + 1 /\ nextName' = nextName
      /\ entry' = entry /\ survivors' = survivors /\ temps' = temps
  BY StartShape DEF IInv, Start, Disk
<1>2. TypeOK'
  BY <1>1 DEF IInv, TypeOK
<1>3. NoTornFile'
  BY <1>1 DEF IInv, NoTornFile
<1>4. NamesOwned'
  BY <1>1 DEF IInv, NamesOwned, Others
<1>5. NamesHeld'
  BY <1>1 DEF IInv, NamesHeld, Reading, Ready, HasTemp, Others
<1>6. TempsReady'
  BY <1>1 DEF IInv, TempsReady, Reading, Ready, HasTemp, OwnFile, Others
<1>7. NeverSeen'
  BY <1>1, MetasAreNumbers DEF IInv, NeverSeen, FilesWritten, Reading, Ready, HasTemp,
      Unplaced, Others
<1>8. FilesWritten'
  BY <1>1, MetasAreNumbers DEF IInv, FilesWritten, Others
<1>9. ReplacedIsGone'
  BY <1>1 DEF IInv, ReplacedIsGone, Reading, Others
<1>10. CheckedMatches'
  BY <1>1 DEF IInv, CheckedMatches, Others
<1>11. Simulates
  BY <1>1, ContractStep DEF Status
<1> QED BY <1>2, <1>3, <1>4, <1>5, <1>6, <1>7, <1>8, <1>9, <1>10, <1>11 DEF IInv

\* What a comparison may lead to, and from where.
LEMMA DecisionLeads ==
    ASSUME ConstantsAssumption, IInv, NEW s \in Savers, Reading(s), NEW rev \in MaybeFile,
           Decide(s, rev)
    PROVE  /\ saver'[s].pc \in {"create", "rename", "cleanup", "failed", "ok"}
           /\ saver'[s].pc = "create" => saver[s].round = 1
           /\ saver'[s].pc = "rename" => saver[s].round = 2 /\ rev = saver[s].expected
           /\ saver'[s].pc = "ok" => saver[s].round = 3
<1>1. saver'[s].pc = Decision(s, rev) /\ saver[s].round \in 1..3
  BY DecideShape DEF IInv, TypeOK, SaverStates
<1> QED BY <1>1 DEF Decision, Abandoned

\* The first and the last read of the revision end in a decision that fits the round.
LEMMA DecisionStep ==
    ASSUME ConstantsAssumption, IInv, NEW s \in Savers, Reading(s), NEW rev \in MaybeFile,
           Matches(entry, rev), Decide(s, rev), UNCHANGED <<Disk, nextName, writes>>
    PROVE  IInv' /\ Simulates
<1> USE DEF At
<1>1. /\ saver' \in [Savers -> SaverStates] /\ Others(s)
      /\ SameSave(s) /\ saver'[s].checked = entry
      /\ Matches(entry, rev)
      /\ saver'[s].pc \in {"create", "rename", "cleanup", "failed", "ok"}
      /\ saver'[s].pc = "create" => saver[s].round = 1
      /\ saver'[s].pc = "rename" => saver[s].round = 2 /\ rev = saver[s].expected
      /\ saver'[s].pc = "ok" => saver[s].round = 3
      /\ Reading(s)
      /\ entry' = entry /\ survivors' = survivors /\ temps' = temps
      /\ nextName' = nextName /\ writes' = writes
  BY DecideShape, DecisionLeads DEF IInv, Disk
<1>2. TypeOK'
  BY <1>1 DEF IInv, TypeOK
<1>3. NoTornFile'
  BY <1>1 DEF IInv, NoTornFile
<1>4. NamesOwned'
  BY <1>1 DEF IInv, NamesOwned, Others, SameSave
<1>5. NamesHeld'
  BY <1>1 DEF IInv, NamesHeld, Reading, Ready, HasTemp, Others, SameSave
<1>6. TempsReady'
  BY <1>1 DEF IInv, TempsReady, Reading, Ready, HasTemp, OwnFile, Others, SameSave
<1>7. NeverSeen'
  BY <1>1 DEF IInv, NeverSeen, Reading, Ready, HasTemp, Unplaced, Others, SameSave
<1>8. FilesWritten'
  BY <1>1 DEF IInv, FilesWritten, Others, SameSave
<1>9. ReplacedIsGone'
  BY <1>1 DEF IInv, ReplacedIsGone, Reading, Others, SameSave
<1>10. CheckedMatches'
  BY <1>1 DEF IInv, CheckedMatches, Others, SameSave
<1>11. Simulates
  BY <1>1, ContractStep DEF Status, Reading, SameSave
<1> QED BY <1>2, <1>3, <1>4, <1>5, <1>6, <1>7, <1>8, <1>9, <1>10, <1>11 DEF IInv

\* A metadata read decides nothing.
LEMMA MetaStep ==
  ASSUME ConstantsAssumption, IInv, NEW s \in Savers, ReadMeta(s), entry # None
  PROVE IInv' /\ Simulates
<1> USE DEF At
<1>1. /\ saver' \in [Savers -> SaverStates] /\ Others(s)
      /\ SameSave(s)
      /\ saver'[s].pc = "hash" /\ saver[s].pc = "meta"
      /\ entry' = entry /\ survivors' = survivors /\ temps' = temps
      /\ nextName' = nextName /\ writes' = writes
  <2> DEFINE pc == "hash"
  <2>1. saver' = [saver EXCEPT ![s].pc = pc, ![s].meta = entry.meta]
    BY DEF ReadMeta
  <2>2. pc \in Calls /\ entry.meta \in Nat
    BY DEF IInv, TypeOK, MaybeFile, Files, Calls
  <2> HIDE DEF pc
  <2>3. saver' \in [Savers -> SaverStates] /\ Others(s) /\ SameSave(s) /\ saver'[s].pc = pc
    BY <2>1, <2>2, MetaShape DEF IInv
  <2> QED BY <2>3 DEF ReadMeta, Disk, pc
<1>2. TypeOK'
  BY <1>1 DEF IInv, TypeOK
<1>3. NoTornFile'
  BY <1>1 DEF IInv, NoTornFile
<1>4. NamesOwned'
  BY <1>1 DEF IInv, NamesOwned, Others, SameSave
<1>5. NamesHeld'
  BY <1>1 DEF IInv, NamesHeld, Reading, Ready, HasTemp, Others, SameSave
<1>6. TempsReady'
  BY <1>1 DEF IInv, TempsReady, Reading, Ready, HasTemp, OwnFile, Others, SameSave
<1>7. NeverSeen'
  BY <1>1 DEF IInv, NeverSeen, Reading, Ready, HasTemp, Unplaced, Others, SameSave
<1>8. FilesWritten'
  BY <1>1 DEF IInv, FilesWritten, Others, SameSave
<1>9. ReplacedIsGone'
  BY <1>1 DEF IInv, ReplacedIsGone, Reading, Others, SameSave
<1>10. CheckedMatches'
  BY <1>1 DEF IInv, CheckedMatches, Others
<1>11. Simulates
  BY <1>1, ContractStep DEF Status, SameSave
<1> QED BY <1>2, <1>3, <1>4, <1>5, <1>6, <1>7, <1>8, <1>9, <1>10, <1>11 DEF IInv

\* Reading the metadata of a file leads to its bytes.
LEMMA ReadMetaStep ==
  ASSUME ConstantsAssumption, IInv, NEW s \in Savers, ReadMeta(s)
  PROVE IInv' /\ Simulates
<1>1. CASE entry = None
  BY <1>1, DecisionStep DEF ReadMeta, Reading, At, MaybeFile, Matches
<1>2. CASE entry # None
  BY <1>2, MetaStep
<1> QED BY <1>1, <1>2

\* The bytes read are compared with the expected revision.
LEMMA ReadHashStep ==
  ASSUME ConstantsAssumption, IInv, NEW s \in Savers, ReadHash(s)
  PROVE IInv' /\ Simulates
<1> DEFINE rev == [data |-> entry.data, meta |-> saver[s].meta]
<1>1. rev \in Files /\ rev # None /\ rev.data = entry.data /\ entry # None
  BY DEF ReadHash, IInv, TypeOK, SaverStates, MaybeFile, Files
<1>2. Decide(s, rev) /\ Reading(s) /\ UNCHANGED <<Disk, nextName, writes>>
  BY DEF ReadHash, Reading, At
<1> HIDE DEF rev
<1> QED BY <1>1, <1>2, DecisionStep DEF MaybeFile, Matches

\* The temporary file of another save is neither this one's nor the next.
LEMMA OthersTemps ==
    ASSUME ConstantsAssumption, IInv, NEW s \in Savers, NEW u \in Savers, HasTemp(u), u # s
    PROVE  saver[u].name \in Names /\ saver[u].name # saver[s].name /\ saver[u].name # nextName
<1>1. saver[u].name \in Names /\ saver[u].name # None
  BY DEF IInv, NamesHeld, Names
<1> QED BY <1>1 DEF IInv, NamesOwned, TypeOK, Names

\* A name that exists is passed over.
LEMMA RetryStep ==
    ASSUME ConstantsAssumption, IInv, NEW s \in Savers, CreateTemp(s), temps[nextName] # None
    PROVE  IInv' /\ Simulates
<1> USE DEF At
<1>1. /\ saver' \in [Savers -> SaverStates] /\ Others(s)
      /\ SameSave(s)
      /\ saver'[s].pc = saver[s].pc /\ saver'[s].checked = saver[s].checked
      /\ entry' = entry /\ survivors' = survivors /\ temps' = temps
      /\ nextName' = nextName + 1 /\ writes' = writes
  BY RetryShape DEF IInv, CreateTemp
<1>2. TypeOK'
  BY <1>1 DEF IInv, TypeOK
<1>3. NoTornFile'
  BY <1>1 DEF IInv, NoTornFile
<1>4. NamesOwned'
  BY <1>1 DEF IInv, NamesOwned, TypeOK, SaverStates, Others, SameSave
<1>5. NamesHeld'
  BY <1>1 DEF IInv, NamesHeld, Reading, Ready, HasTemp, Others, SameSave
<1>6. TempsReady'
  BY <1>1 DEF IInv, TempsReady, Reading, Ready, HasTemp, OwnFile, Others, SameSave
<1>7. NeverSeen'
  BY <1>1 DEF IInv, NeverSeen, Reading, Ready, HasTemp, Unplaced, Others, SameSave
<1>8. FilesWritten'
  BY <1>1 DEF IInv, FilesWritten, Others, SameSave
<1>9. ReplacedIsGone'
  BY <1>1 DEF IInv, ReplacedIsGone, Reading, Others, SameSave
<1>10. CheckedMatches'
  BY <1>1 DEF IInv, CheckedMatches, Others, SameSave
<1>11. Simulates
  BY <1>1, ContractStep DEF Status, SameSave
<1> QED BY <1>2, <1>3, <1>4, <1>5, <1>6, <1>7, <1>8, <1>9, <1>10, <1>11 DEF IInv

\* A new temporary file gets a name that no save holds.
LEMMA CreateTempStep ==
  ASSUME ConstantsAssumption, IInv, NEW s \in Savers, CreateTemp(s)
  PROVE IInv' /\ Simulates
<1> USE DEF At
<1>0. SUFFICES ASSUME temps[nextName] = None PROVE IInv' /\ Simulates
  BY RetryStep
<1>1. /\ saver' \in [Savers -> SaverStates] /\ Others(s)
      /\ saver'[s].pc = "write" /\ saver[s].pc = "create" /\ saver'[s].name = nextName
      /\ saver'[s].round = saver[s].round /\ saver'[s].data = saver[s].data
      /\ saver'[s].replaced = saver[s].replaced
      /\ temps' \in [Names -> Temps \cup {None}] /\ temps'[nextName] # None /\ nextName \in
          Names
      /\ \A n \in Names : n # nextName => temps'[n] = temps[n]
      /\ entry' = entry /\ survivors' = survivors
      /\ nextName' = nextName + 1 /\ writes' = writes
  <2> DEFINE pc == "write"
             fresh == [file |-> Torn, synced |-> FALSE]
  <2>1. /\ saver' = [saver EXCEPT ![s].pc = pc, ![s].name = nextName]
        /\ temps' = [temps EXCEPT ![nextName] = fresh]
    BY <1>0 DEF CreateTemp
  <2>2. pc \in Calls /\ nextName \in Nat /\ nextName \in Names /\ fresh \in Temps
    BY DEF CreateTemp, IInv, TypeOK, Calls, Temps
  <2> HIDE DEF pc, fresh
  <2>3. /\ saver' \in [Savers -> SaverStates] /\ Others(s)
        /\ saver'[s].pc = pc /\ saver'[s].name = nextName
        /\ saver'[s].round = saver[s].round /\ saver'[s].data = saver[s].data
        /\ saver'[s].replaced = saver[s].replaced
    BY <2>1, <2>2, CreateShape DEF IInv
  <2>4. /\ temps' \in [Names -> Temps \cup {None}] /\ temps'[nextName] # None
        /\ \A n \in Names : n # nextName => temps'[n] = temps[n]
    BY <2>1, <2>2 DEF IInv, TypeOK
  <2> QED BY <1>0, <2>2, <2>3, <2>4 DEF CreateTemp, pc
<1>2. TypeOK'
  BY <1>1 DEF IInv, TypeOK
<1>3. NoTornFile'
  BY <1>1 DEF IInv, NoTornFile
<1>4. NamesOwned'
  BY <1>1 DEF IInv, NamesOwned, TypeOK, SaverStates, Others
<1>5. NamesHeld'
  BY <1>1 DEF IInv, NamesHeld, Reading, Ready, HasTemp, Others
<1>6. TempsReady'
  <2>1. ASSUME NEW u \in Savers, u # s
        PROVE  /\ HasTemp(u)' => temps'[saver'[u].name] # None
               /\ (At(u, "sync") \/ Ready(u))' => temps'[saver'[u].name].file = OwnFile(u)'
               /\ Ready(u)' => temps'[saver'[u].name].synced
    BY <1>1, OthersTemps DEF IInv, TempsReady, Reading, Ready, HasTemp, OwnFile, Others
  <2>2. /\ HasTemp(s)' => temps'[saver'[s].name] # None
        /\ (At(s, "sync") \/ Ready(s))' => temps'[saver'[s].name].file = OwnFile(s)'
        /\ Ready(s)' => temps'[saver'[s].name].synced
    BY <1>1 DEF Reading, Ready
  <2> QED BY <2>1, <2>2 DEF TempsReady
<1>7. NeverSeen'
  BY <1>1 DEF IInv, NeverSeen, Reading, Ready, HasTemp, Unplaced, Others
<1>8. FilesWritten'
  BY <1>1 DEF IInv, FilesWritten, Others
<1>9. ReplacedIsGone'
  BY <1>1 DEF IInv, ReplacedIsGone, Reading, Others
<1>10. CheckedMatches'
  BY <1>1 DEF IInv, CheckedMatches, Others
<1>11. Simulates
  BY <1>1, ContractStep DEF Status
<1> QED BY <1>2, <1>3, <1>4, <1>5, <1>6, <1>7, <1>8, <1>9, <1>10, <1>11 DEF IInv

\* Writing the temporary file gives it this save's bytes.
LEMMA WriteTempStep ==
  ASSUME ConstantsAssumption, IInv, NEW s \in Savers, WriteTemp(s)
  PROVE IInv' /\ Simulates
<1> USE DEF At
<1>1. /\ saver' \in [Savers -> SaverStates] /\ Others(s)
      /\ SameSave(s)
      /\ saver'[s].pc = "sync" /\ saver[s].pc = "write" /\ saver[s].name \in Names
      /\ saver'[s].checked = saver[s].checked
      /\ temps' \in [Names -> Temps \cup {None}] /\ temps'[saver[s].name] # None
      /\ temps'[saver[s].name].file = OwnFile(s)
      /\ \A n \in Names : n # saver[s].name => temps'[n] = temps[n]
      /\ entry' = entry /\ survivors' = survivors
      /\ nextName' = nextName /\ writes' = writes
  <2>1. saver[s].name \in Names /\ temps[saver[s].name] # None /\ OwnFile(s) \in Files
    BY DEF WriteTemp, IInv, NamesHeld, TempsReady, HasTemp, OwnFile, TypeOK, SaverStates, Files
  <2>2. temps' = [temps EXCEPT ![saver[s].name].file = OwnFile(s)]
    BY DEF WriteTemp, OwnFile
  <2>3. /\ temps' \in [Names -> Temps \cup {None}] /\ temps'[saver[s].name] # None
        /\ temps'[saver[s].name].file = OwnFile(s)
        /\ \A n \in Names : n # saver[s].name => temps'[n] = temps[n]
    BY <2>1, <2>2, TempShape DEF IInv
  <2>4. saver' \in [Savers -> SaverStates] /\ Others(s) /\ SameSave(s)
        /\ saver'[s].pc = "sync" /\ saver'[s].checked = saver[s].checked
    BY GoesShape DEF WriteTemp, IInv, Calls
  <2> QED BY <2>1, <2>3, <2>4 DEF WriteTemp
<1>2. TypeOK'
  BY <1>1 DEF IInv, TypeOK
<1>3. NoTornFile'
  BY <1>1 DEF IInv, NoTornFile
<1>4. NamesOwned'
  BY <1>1 DEF IInv, NamesOwned, Others, SameSave
<1>5. NamesHeld'
  BY <1>1 DEF IInv, NamesHeld, Reading, Ready, HasTemp, Others, SameSave
<1>6. TempsReady'
  <2>1. ASSUME NEW u \in Savers, u # s
        PROVE  /\ HasTemp(u)' => temps'[saver'[u].name] # None
               /\ (At(u, "sync") \/ Ready(u))' => temps'[saver'[u].name].file = OwnFile(u)'
               /\ Ready(u)' => temps'[saver'[u].name].synced
    BY <1>1, <2>1, OthersTemps DEF IInv, TempsReady, Reading, Ready, HasTemp, OwnFile, Others
  <2>2. /\ HasTemp(s)' => temps'[saver'[s].name] # None
        /\ (At(s, "sync") \/ Ready(s))' => temps'[saver'[s].name].file = OwnFile(s)'
        /\ Ready(s)' => temps'[saver'[s].name].synced
    BY <1>1 DEF Reading, Ready, OwnFile, SameSave
  <2> QED BY <2>1, <2>2 DEF TempsReady
<1>7. NeverSeen'
  BY <1>1 DEF IInv, NeverSeen, Reading, Ready, HasTemp, Unplaced, Others, SameSave
<1>8. FilesWritten'
  BY <1>1 DEF IInv, FilesWritten, Others, SameSave
<1>9. ReplacedIsGone'
  BY <1>1 DEF IInv, ReplacedIsGone, Reading, Others
<1>10. CheckedMatches'
  BY <1>1 DEF IInv, CheckedMatches, Others
<1>11. Simulates
  BY <1>1, ContractStep DEF Status, SameSave
<1> QED BY <1>2, <1>3, <1>4, <1>5, <1>6, <1>7, <1>8, <1>9, <1>10, <1>11 DEF IInv

\* Syncing the temporary file makes it ready for the rename.
LEMMA SyncTempStep ==
  ASSUME ConstantsAssumption, IInv, NEW s \in Savers, SyncTemp(s)
  PROVE IInv' /\ Simulates
<1> USE DEF At
<1>1. /\ saver' \in [Savers -> SaverStates] /\ Others(s)
      /\ saver'[s].pc = "meta" /\ saver[s].pc = "sync" /\ saver'[s].round = 2
      /\ saver'[s].name = saver[s].name /\ saver[s].name \in Names
      /\ saver'[s].data = saver[s].data /\ saver'[s].replaced = saver[s].replaced
      /\ temps' \in [Names -> Temps \cup {None}] /\ temps'[saver[s].name] # None
      /\ temps'[saver[s].name].file = temps[saver[s].name].file /\ temps'[saver[s].name].synced
      /\ \A n \in Names : n # saver[s].name => temps'[n] = temps[n]
      /\ entry' = entry /\ survivors' = survivors
      /\ nextName' = nextName /\ writes' = writes
  <2> DEFINE pc == "meta"
  <2>1. saver' = [saver EXCEPT ![s].pc = pc, ![s].round = 2]
    BY DEF SyncTemp
  <2>2. pc \in Calls /\ 2 \in 1..3
    BY DEF Calls
  <2> HIDE DEF pc
  <2>3. /\ saver' \in [Savers -> SaverStates] /\ Others(s)
        /\ saver'[s].pc = pc /\ saver'[s].round = 2
        /\ saver'[s].name = saver[s].name /\ saver'[s].data = saver[s].data
        /\ saver'[s].replaced = saver[s].replaced
    BY <2>1, <2>2, RoundShape DEF IInv
  <2>4. saver[s].name \in Names /\ temps[saver[s].name] # None
    BY DEF SyncTemp, IInv, NamesHeld, TempsReady, HasTemp
  <2>5. temps' = [temps EXCEPT ![saver[s].name].synced = TRUE]
    BY DEF SyncTemp
  <2>6. /\ temps' \in [Names -> Temps \cup {None}] /\ temps'[saver[s].name] # None
        /\ temps'[saver[s].name].file = temps[saver[s].name].file /\
            temps'[saver[s].name].synced
        /\ \A n \in Names : n # saver[s].name => temps'[n] = temps[n]
    BY <2>4, <2>5, TempShape DEF IInv
  <2> QED BY <2>3, <2>4, <2>6 DEF SyncTemp, pc
<1>2. TypeOK'
  BY <1>1 DEF IInv, TypeOK
<1>3. NoTornFile'
  BY <1>1 DEF IInv, NoTornFile
<1>4. NamesOwned'
  BY <1>1 DEF IInv, NamesOwned, Others
<1>5. NamesHeld'
  BY <1>1 DEF IInv, NamesHeld, Reading, Ready, HasTemp, Others
<1>6. TempsReady'
  <2>1. ASSUME NEW u \in Savers, u # s
        PROVE  /\ HasTemp(u)' => temps'[saver'[u].name] # None
               /\ (At(u, "sync") \/ Ready(u))' => temps'[saver'[u].name].file = OwnFile(u)'
               /\ Ready(u)' => temps'[saver'[u].name].synced
    BY <1>1, OthersTemps DEF IInv, TempsReady, Reading, Ready, HasTemp, OwnFile, Others
  <2>2. /\ HasTemp(s)' => temps'[saver'[s].name] # None
        /\ (At(s, "sync") \/ Ready(s))' => temps'[saver'[s].name].file = OwnFile(s)'
        /\ Ready(s)' => temps'[saver'[s].name].synced
    BY <1>1 DEF IInv, TempsReady, OwnFile
  <2> QED BY <2>1, <2>2 DEF TempsReady
<1>7. NeverSeen'
  BY <1>1 DEF IInv, NeverSeen, Reading, Ready, HasTemp, Unplaced, Others
<1>8. FilesWritten'
  BY <1>1 DEF IInv, FilesWritten, Others
<1>9. ReplacedIsGone'
  BY <1>1 DEF IInv, ReplacedIsGone, Reading, Others
<1>10. CheckedMatches'
  BY <1>1 DEF IInv, CheckedMatches, Others
<1>11. Simulates
  BY <1>1, ContractStep DEF Status, IInv, NamesHeld
<1> QED BY <1>2, <1>3, <1>4, <1>5, <1>6, <1>7, <1>8, <1>9, <1>10, <1>11 DEF IInv

\* The rename puts a complete, synced and new file at the path.
LEMMA RenameStep ==
  ASSUME ConstantsAssumption, IInv, NEW s \in Savers, Rename(s)
  PROVE IInv' /\ Simulates
<1> USE DEF At
<1>1. /\ saver' \in [Savers -> SaverStates] /\ Others(s)
      /\ saver'[s].pc = "syncdir" /\ saver[s].pc = "rename" /\ saver'[s].replaced = survivors
      /\ saver'[s].round = saver[s].round /\ saver[s].round # 3 /\ saver'[s].name =
          saver[s].name
      /\ saver'[s].data = saver[s].data /\ saver[s].name \in Names
      /\ entry' = OwnFile(s) /\ survivors' = survivors \cup {entry'}
      /\ OwnFile(s) \in Files /\ OwnFile(s) \notin {None, Torn}
      /\ OwnFile(s).meta = saver[s].data
      /\ temps' \in [Names -> Temps \cup {None}]
      /\ \A n \in Names : n # saver[s].name => temps'[n] = temps[n]
      /\ nextName' = nextName /\ writes' = writes
  <2> DEFINE pc == "syncdir"
  <2>1. saver' = [saver EXCEPT ![s].pc = pc, ![s].replaced = survivors]
    BY DEF Rename
  <2>2. pc \in Calls
    BY DEF Calls
  <2> HIDE DEF pc
  <2>3. /\ saver' \in [Savers -> SaverStates] /\ Others(s)
        /\ saver'[s].pc = pc /\ saver'[s].replaced = survivors
        /\ saver'[s].round = saver[s].round /\ saver'[s].data = saver[s].data
        /\ saver'[s].name = saver[s].name
    BY <2>1, <2>2, RenameShape DEF IInv
  <2>4. /\ saver[s].name \in Names /\ temps[saver[s].name].file = OwnFile(s)
        /\ temps[saver[s].name].synced /\ saver[s].round # 3
    BY DEF Rename, IInv, NamesHeld, TempsReady, HasTemp, Ready
  <2>5. entry' = OwnFile(s) /\ survivors' = survivors \cup {entry'}
    BY <2>4 DEF Rename
  <2>6. /\ OwnFile(s) \in Files /\ OwnFile(s) \notin {None, Torn}
        /\ OwnFile(s).meta = saver[s].data
    BY DEF IInv, TypeOK, SaverStates, OwnFile, Files
  <2>7. /\ temps' \in [Names -> Temps \cup {None}]
        /\ \A n \in Names : n # saver[s].name => temps'[n] = temps[n]
    BY DEF Rename, IInv, TypeOK
  <2> QED BY <2>3, <2>4, <2>5, <2>6, <2>7 DEF Rename, pc
<1>2. TypeOK'
  BY <1>1 DEF IInv, TypeOK, MaybeFile, Disks
<1>3. NoTornFile'
  BY <1>1 DEF IInv, NoTornFile
<1>4. NamesOwned'
  BY <1>1 DEF IInv, NamesOwned, Others
<1>5. NamesHeld'
  BY <1>1 DEF IInv, NamesHeld, Reading, Ready, HasTemp, Others
<1>6. TempsReady'
  <2>1. ASSUME NEW u \in Savers, u # s
        PROVE  /\ HasTemp(u)' => temps'[saver'[u].name] # None
               /\ (At(u, "sync") \/ Ready(u))' => temps'[saver'[u].name].file = OwnFile(u)'
               /\ Ready(u)' => temps'[saver'[u].name].synced
    BY <1>1, OthersTemps DEF IInv, TempsReady, Reading, Ready, HasTemp, OwnFile, Others
  <2>2. /\ HasTemp(s)' => temps'[saver'[s].name] # None
        /\ (At(s, "sync") \/ Ready(s))' => temps'[saver'[s].name].file = OwnFile(s)'
        /\ Ready(s)' => temps'[saver'[s].name].synced
    BY <1>1 DEF Reading, Ready, HasTemp
  <2> QED BY <2>1, <2>2 DEF TempsReady
<1>7. NeverSeen'
  BY <1>1 DEF IInv, NeverSeen, Reading, Ready, HasTemp, Unplaced, Others
<1>8. FilesWritten'
  BY <1>1 DEF IInv, FilesWritten, NeverSeen, Others
<1>9. ReplacedIsGone'
  BY <1>1 DEF IInv, ReplacedIsGone, NeverSeen, Reading, Ready, HasTemp, Unplaced, Others
<1>10. CheckedMatches'
  BY <1>1 DEF IInv, CheckedMatches, Others
<1>11. Simulates
  BY <1>1, ContractStep DEF Status
<1> QED BY <1>2, <1>3, <1>4, <1>5, <1>6, <1>7, <1>8, <1>9, <1>10, <1>11 DEF IInv

\* Syncing the directory leaves one file for a power cut.
LEMMA SyncDirectoryStep ==
  ASSUME ConstantsAssumption, IInv, NEW s \in Savers, SyncDirectory(s)
  PROVE IInv' /\ Simulates
<1> USE DEF At
<1>1. /\ saver' \in [Savers -> SaverStates] /\ Others(s)
      /\ saver'[s].pc = "meta" /\ saver[s].pc = "syncdir" /\ saver'[s].round = 3
      /\ saver'[s].name = saver[s].name
      /\ saver'[s].data = saver[s].data /\ saver'[s].replaced = saver[s].replaced
      /\ survivors' = {entry} /\ entry \in survivors
      /\ entry' = entry /\ temps' = temps
      /\ nextName' = nextName /\ writes' = writes
  <2> DEFINE pc == "meta"
  <2>1. saver' = [saver EXCEPT ![s].pc = pc, ![s].round = 3]
    BY DEF SyncDirectory
  <2>2. pc \in Calls /\ 3 \in 1..3
    BY DEF Calls
  <2> HIDE DEF pc
  <2>3. /\ saver' \in [Savers -> SaverStates] /\ Others(s)
        /\ saver'[s].pc = pc /\ saver'[s].round = 3
        /\ saver'[s].name = saver[s].name /\ saver'[s].data = saver[s].data
        /\ saver'[s].replaced = saver[s].replaced
    BY <2>1, <2>2, RoundShape DEF IInv
  <2> QED BY <2>3 DEF SyncDirectory, IInv, FilesWritten, pc
<1>2. TypeOK'
  BY <1>1 DEF IInv, TypeOK
<1>3. NoTornFile'
  BY <1>1 DEF IInv, NoTornFile
<1>4. NamesOwned'
  BY <1>1 DEF IInv, NamesOwned, Others
<1>5. NamesHeld'
  BY <1>1 DEF IInv, NamesHeld, Reading, Ready, HasTemp, Others
<1>6. TempsReady'
  BY <1>1 DEF IInv, TempsReady, Reading, Ready, HasTemp, OwnFile, Others
<1>7. NeverSeen'
  BY <1>1 DEF IInv, NeverSeen, Reading, Ready, HasTemp, Unplaced, Others
<1>8. FilesWritten'
  BY <1>1 DEF IInv, FilesWritten, Others
<1>9. ReplacedIsGone'
  BY <1>1 DEF IInv, ReplacedIsGone, Reading, Others
<1>10. CheckedMatches'
  BY <1>1 DEF IInv, CheckedMatches, Others
<1>11. Simulates
  BY <1>1, ContractStep DEF Status
<1> QED BY <1>2, <1>3, <1>4, <1>5, <1>6, <1>7, <1>8, <1>9, <1>10, <1>11 DEF IInv

\* A failed call leaves the file as it is.
LEMMA CallFailsStep ==
  ASSUME ConstantsAssumption, IInv, NEW s \in Savers, CallFails(s)
  PROVE IInv' /\ Simulates
<1> USE DEF At
<1>1. /\ saver' \in [Savers -> SaverStates] /\ Others(s)
      /\ SameSave(s) /\ saver'[s].checked = saver[s].checked
      /\ saver[s].pc \notin {"idle", "ok", "failed", "cleanup"}
      /\ saver'[s].pc \in {"failed", "cleanup"}
      /\ entry' = entry /\ survivors' = survivors /\ temps' = temps
      /\ nextName' = nextName /\ writes' = writes
  <2>1. Abandoned(s) \in {"failed", "cleanup"}
    BY DEF Abandoned
  <2>2. Abandoned(s) \in Calls /\ Goes(s, Abandoned(s))
    BY <2>1 DEF Calls, CallFails
  <2> QED BY <2>1, <2>2, GoesShape DEF CallFails, Disk, IInv
<1>2. TypeOK'
  BY <1>1 DEF IInv, TypeOK
<1>3. NoTornFile'
  BY <1>1 DEF IInv, NoTornFile
<1>4. NamesOwned'
  BY <1>1 DEF IInv, NamesOwned, Others, SameSave
<1>5. NamesHeld'
  BY <1>1 DEF IInv, NamesHeld, Reading, Ready, HasTemp, Others
<1>6. TempsReady'
  BY <1>1 DEF IInv, TempsReady, Reading, Ready, HasTemp, OwnFile, Others
<1>7. NeverSeen'
  BY <1>1 DEF IInv, NeverSeen, Reading, Ready, HasTemp, Unplaced, Others, SameSave
<1>8. FilesWritten'
  BY <1>1 DEF IInv, FilesWritten, Others, SameSave
<1>9. ReplacedIsGone'
  BY <1>1 DEF IInv, ReplacedIsGone, Reading, Others
<1>10. CheckedMatches'
  BY <1>1 DEF IInv, CheckedMatches, Others
<1>11. Simulates
  BY <1>1, ContractStep DEF Status
<1> QED BY <1>2, <1>3, <1>4, <1>5, <1>6, <1>7, <1>8, <1>9, <1>10, <1>11 DEF IInv

\* Cleaning up removes no other save's temporary file.
LEMMA CleanupStep ==
  ASSUME ConstantsAssumption, IInv, NEW s \in Savers, Cleanup(s)
  PROVE IInv' /\ Simulates
<1> USE DEF At
<1>1. /\ saver' \in [Savers -> SaverStates] /\ Others(s)
      /\ SameSave(s) /\ saver'[s].checked = saver[s].checked
      /\ saver[s].pc = "cleanup" /\ saver'[s].pc = "failed"
      /\ temps' \in [Names -> Temps \cup {None}]
      /\ \A n \in Names : n # saver[s].name => temps'[n] = temps[n]
      /\ entry' = entry /\ survivors' = survivors
      /\ nextName' = nextName /\ writes' = writes
  <2>1. saver' \in [Savers -> SaverStates] /\ Others(s) /\ SameSave(s)
        /\ saver'[s].pc = "failed" /\ saver'[s].checked = saver[s].checked
    BY GoesShape DEF Cleanup, IInv, Calls
  <2>2. /\ temps' \in [Names -> Temps \cup {None}]
        /\ \A n \in Names : n # saver[s].name => temps'[n] = temps[n]
    BY DEF Cleanup, IInv, TypeOK
  <2> QED BY <2>1, <2>2 DEF Cleanup
<1>2. TypeOK'
  BY <1>1 DEF IInv, TypeOK
<1>3. NoTornFile'
  BY <1>1 DEF IInv, NoTornFile
<1>4. NamesOwned'
  BY <1>1 DEF IInv, NamesOwned, Others, SameSave
<1>5. NamesHeld'
  BY <1>1 DEF IInv, NamesHeld, Reading, Ready, HasTemp, Others
<1>6. TempsReady'
  <2>1. ASSUME NEW u \in Savers, u # s
        PROVE  /\ HasTemp(u)' => temps'[saver'[u].name] # None
               /\ (At(u, "sync") \/ Ready(u))' => temps'[saver'[u].name].file = OwnFile(u)'
               /\ Ready(u)' => temps'[saver'[u].name].synced
    BY <1>1, OthersTemps DEF IInv, TempsReady, Reading, Ready, HasTemp, OwnFile, Others
  <2>2. /\ HasTemp(s)' => temps'[saver'[s].name] # None
        /\ (At(s, "sync") \/ Ready(s))' => temps'[saver'[s].name].file = OwnFile(s)'
        /\ Ready(s)' => temps'[saver'[s].name].synced
    BY <1>1 DEF Reading, Ready, HasTemp
  <2> QED BY <2>1, <2>2 DEF TempsReady
<1>7. NeverSeen'
  BY <1>1 DEF IInv, NeverSeen, Reading, Ready, HasTemp, Unplaced, Others, SameSave
<1>8. FilesWritten'
  BY <1>1 DEF IInv, FilesWritten, Others, SameSave
<1>9. ReplacedIsGone'
  BY <1>1 DEF IInv, ReplacedIsGone, Reading, Others
<1>10. CheckedMatches'
  BY <1>1 DEF IInv, CheckedMatches, Others
<1>11. Simulates
  BY <1>1, ContractStep DEF Status
<1> QED BY <1>2, <1>3, <1>4, <1>5, <1>6, <1>7, <1>8, <1>9, <1>10, <1>11 DEF IInv

\* Another program's file has a number of its own.
LEMMA OutsideWriteStep ==
  ASSUME ConstantsAssumption, IInv, OutsideWrite
  PROVE IInv' /\ Simulates
<1> USE DEF At
<1>1. /\ saver' = saver /\ temps' = temps /\ nextName' = nextName
      /\ survivors' = survivors \cup {entry'} /\ writes' = writes + 1
      /\ entry' \in Files /\ entry' \notin {None, Torn} /\ entry'.meta = writes
  <2>1. PICK data \in 0..writes : entry' = [data |-> data, meta |-> writes]
    BY DEF OutsideWrite
  <2> QED BY <2>1, ConstantsAssumption DEF OutsideWrite, IInv, TypeOK, Files,
      ConstantsAssumption
<1>2. TypeOK'
  BY <1>1 DEF IInv, TypeOK, MaybeFile, Disks
<1>3. NoTornFile'
  BY <1>1 DEF IInv, NoTornFile
<1>4. NamesOwned'
  BY <1>1 DEF IInv, NamesOwned
<1>5. NamesHeld'
  BY <1>1 DEF IInv, NamesHeld, Reading, Ready, HasTemp
<1>6. TempsReady'
  BY <1>1 DEF IInv, TempsReady, Reading, Ready, HasTemp, OwnFile
<1>7. NeverSeen'
  BY <1>1, MetasAreNumbers DEF IInv, NeverSeen, Reading, Ready, HasTemp, Unplaced
<1>8. FilesWritten'
  BY <1>1, MetasAreNumbers DEF IInv, FilesWritten
<1>9. ReplacedIsGone'
  BY <1>1, MetasAreNumbers DEF IInv, ReplacedIsGone, FilesWritten, Reading
<1>10. CheckedMatches'
  BY <1>1 DEF IInv, CheckedMatches
<1>11. Simulates
  BY <1>1, ContractOutside
<1> QED BY <1>2, <1>3, <1>4, <1>5, <1>6, <1>7, <1>8, <1>9, <1>10, <1>11 DEF IInv

\* A deleted file leaves nothing at the path.
LEMMA OutsideDeleteStep ==
  ASSUME ConstantsAssumption, IInv, OutsideDelete
  PROVE IInv' /\ Simulates
<1> USE DEF At
<1>1. /\ saver' = saver /\ temps' = temps /\ nextName' = nextName
      /\ survivors' = survivors \cup {None} /\ entry' = None /\ entry # None /\ writes' = writes
  BY DEF OutsideDelete
<1>2. TypeOK'
  BY <1>1 DEF IInv, TypeOK, MaybeFile, Disks
<1>3. NoTornFile'
  BY <1>1 DEF IInv, NoTornFile
<1>4. NamesOwned'
  BY <1>1 DEF IInv, NamesOwned
<1>5. NamesHeld'
  BY <1>1 DEF IInv, NamesHeld, Reading, Ready, HasTemp
<1>6. TempsReady'
  BY <1>1 DEF IInv, TempsReady, Reading, Ready, HasTemp, OwnFile
<1>7. NeverSeen'
  BY <1>1 DEF IInv, NeverSeen, Reading, Ready, HasTemp, Unplaced
<1>8. FilesWritten'
  BY <1>1 DEF IInv, FilesWritten
<1>9. ReplacedIsGone'
  BY <1>1 DEF IInv, ReplacedIsGone, Reading
<1>10. CheckedMatches'
  BY <1>1 DEF IInv, CheckedMatches
<1>11. Simulates
  BY <1>1, ContractOutside
<1> QED BY <1>2, <1>3, <1>4, <1>5, <1>6, <1>7, <1>8, <1>9, <1>10, <1>11 DEF IInv

\* A killed process leaves the files as they are.
LEMMA KillStep == ASSUME ConstantsAssumption, IInv, Kill PROVE IInv' /\ Simulates
<1> USE DEF At
<1>1. /\ saver' \in [Savers -> SaverStates] /\ nextName' = 0 /\ writes' = writes
      /\ Savers # {} => writes > 0
      /\ \A s \in Savers : saver'[s].pc = "idle" /\ saver'[s].round = 1 /\ saver'[s].name = None
      /\ \A s \in Savers : saver'[s].data = 0 /\ saver'[s].replaced = {}
      /\ entry' = entry /\ survivors' = survivors /\ temps' = temps
  <2>1. saver' = [s \in Savers |-> Resting]
    BY DEF Kill, Restart
  <2>2. Savers # {} => writes > 0
    BY MetasAreNumbers DEF IInv, NeverSeen
  <2> QED BY <2>1, <2>2, RestingState DEF Kill, Restart, Disk
<1>2. TypeOK'
  BY <1>1 DEF IInv, TypeOK
<1>3. NoTornFile'
  BY <1>1 DEF IInv, NoTornFile
<1>4. NamesOwned'
  BY <1>1 DEF NamesOwned
<1>5. NamesHeld'
  BY <1>1 DEF NamesHeld, Ready, HasTemp
<1>6. TempsReady'
  BY <1>1 DEF TempsReady, Ready, HasTemp
<1>7. NeverSeen'
  BY <1>1 DEF NeverSeen, Reading, Ready, HasTemp, Unplaced
<1>8. FilesWritten'
  BY <1>1 DEF IInv, FilesWritten
<1>9. ReplacedIsGone'
  BY <1>1 DEF ReplacedIsGone
<1>10. CheckedMatches'
  BY <1>1 DEF CheckedMatches
<1>11. Simulates
  BY <1>1, ContractRestarts
<1> QED BY <1>2, <1>3, <1>4, <1>5, <1>6, <1>7, <1>8, <1>9, <1>10, <1>11 DEF IInv

\* A power cut leaves one of the files it may leave.
LEMMA PowerCutStep == ASSUME ConstantsAssumption, IInv, PowerCut PROVE IInv' /\ Simulates
<1> USE DEF At
<1>1. /\ saver' \in [Savers -> SaverStates] /\ nextName' = 0 /\ writes' = writes
      /\ Savers # {} => writes > 0
      /\ \A s \in Savers : saver'[s].pc = "idle" /\ saver'[s].round = 1 /\ saver'[s].name = None
      /\ \A s \in Savers : saver'[s].data = 0 /\ saver'[s].replaced = {}
      /\ entry' \in survivors /\ survivors' = {entry'}
      /\ temps' \in [Names -> Temps \cup {None}]
  <2>1. saver' = [s \in Savers |-> Resting]
    BY DEF PowerCut, Restart
  <2>2. Savers # {} => writes > 0
    BY MetasAreNumbers DEF IInv, NeverSeen
  <2> QED BY <2>1, <2>2, RestingState DEF PowerCut, Restart, IInv, TypeOK
<1>2. TypeOK'
  BY <1>1 DEF IInv, TypeOK, NoTornFile, Disks
<1>3. NoTornFile'
  BY <1>1 DEF IInv, NoTornFile
<1>4. NamesOwned'
  BY <1>1 DEF NamesOwned
<1>5. NamesHeld'
  BY <1>1 DEF NamesHeld, Ready, HasTemp
<1>6. TempsReady'
  BY <1>1 DEF TempsReady, Ready, HasTemp
<1>7. NeverSeen'
  BY <1>1 DEF NeverSeen, Reading, Ready, HasTemp, Unplaced
<1>8. FilesWritten'
  BY <1>1 DEF IInv, FilesWritten
<1>9. ReplacedIsGone'
  BY <1>1 DEF ReplacedIsGone
<1>10. CheckedMatches'
  BY <1>1 DEF CheckedMatches
<1>11. Simulates
  BY <1>1, ContractRestarts
<1> QED BY <1>2, <1>3, <1>4, <1>5, <1>6, <1>7, <1>8, <1>9, <1>10, <1>11 DEF IInv

\* The initial states satisfy the invariant.
LEMMA InitSatisfies == ASSUME ConstantsAssumption, Init PROVE IInv
<1>1. \A s \in Savers : saver[s] = Resting
  BY DEF Init
<1>2. /\ saver \in [Savers -> SaverStates]
      /\ \A s \in Savers : /\ saver[s].pc = "idle" /\ saver[s].round = 1 /\ saver[s].name = None
                            /\ saver[s].data = 0 /\ saver[s].replaced = {}
  BY <1>1, RestingState DEF Init
<1>3. entry \in MaybeFile /\ entry # Torn /\ (entry # None => entry.meta = 0)
  BY ConstantsAssumption DEF Init, MaybeFile, Files, ConstantsAssumption
<1>4. TypeOK /\ NoTornFile
  BY <1>2, <1>3 DEF Init, TypeOK, NoTornFile, Disks
<1>5. NamesOwned /\ NamesHeld /\ TempsReady /\ ReplacedIsGone /\ CheckedMatches
  BY <1>2 DEF NamesOwned, NamesHeld, TempsReady, ReplacedIsGone, CheckedMatches, HasTemp, Ready,
              Reading, At
<1>6. NeverSeen /\ FilesWritten
  BY <1>2, <1>3 DEF Init, NeverSeen, FilesWritten, Unplaced, HasTemp, Ready, Reading, At
<1> QED BY <1>4, <1>5, <1>6 DEF IInv

\* Every step keeps the invariant and is allowed by the contract.
LEMMA NextStep ==
    ASSUME ConstantsAssumption, IInv, [Next]_vars
    PROVE  IInv' /\ Simulates
<1>1. ASSUME NEW s \in Savers, Start(s) PROVE IInv' /\ Simulates
  BY <1>1, StartStep
<1>2. ASSUME NEW s \in Savers, Step(s) PROVE IInv' /\ Simulates
  <2>1. CASE ReadMeta(s) BY <2>1, ReadMetaStep
  <2>2. CASE ReadHash(s) BY <2>2, ReadHashStep
  <2>3. CASE CreateTemp(s) BY <2>3, CreateTempStep
  <2>4. CASE WriteTemp(s) BY <2>4, WriteTempStep
  <2>5. CASE SyncTemp(s) BY <2>5, SyncTempStep
  <2>6. CASE Rename(s) BY <2>6, RenameStep
  <2>7. CASE SyncDirectory(s) BY <2>7, SyncDirectoryStep
  <2>8. CASE CallFails(s) BY <2>8, CallFailsStep
  <2>9. CASE Cleanup(s) BY <2>9, CleanupStep
  <2> QED BY <1>2, <2>1, <2>2, <2>3, <2>4, <2>5, <2>6, <2>7, <2>8, <2>9 DEF Step
<1>3. CASE OutsideWrite BY <1>3, OutsideWriteStep
<1>4. CASE OutsideDelete BY <1>4, OutsideDeleteStep
<1>5. CASE Kill BY <1>5, KillStep
<1>6. CASE PowerCut BY <1>6, PowerCutStep
<1>7. CASE UNCHANGED vars
  <2>1. IInv'
    BY <1>7 DEF vars, IInv, TypeOK, NoTornFile, NamesOwned, NamesHeld, TempsReady, NeverSeen,
                FilesWritten, ReplacedIsGone, CheckedMatches, HasTemp, Ready, Reading, Unplaced,
                OwnFile, At
  <2>2. Simulates
    BY <1>7 DEF vars, Simulates, Contract!vars, Status, At
  <2> QED BY <2>1, <2>2
<1> QED BY <1>1, <1>2, <1>3, <1>4, <1>5, <1>6, <1>7 DEF Next

-----------------------------------------------------------------------------
(* Theorems *)

\* The parts of IInv hold in every reachable state of save_file_if_unchanged.
THEOREM InductiveInvariant == Spec => []IInv
<1>1. Init => IInv
  BY InitSatisfies, ConstantsAssumption
<1>2. IInv /\ [Next]_vars => IInv'
  BY NextStep, ConstantsAssumption
<1> QED BY <1>1, <1>2, PTL DEF Spec

\* Neither a reader nor the next process after a power cut finds half a file at the path:
\* the temporary file is complete and synced before it is renamed.
THEOREM ReadersSeeWholeFiles == Spec => []NoTornFile
<1>1. IInv => NoTornFile
  BY DEF IInv
<1> QED BY <1>1, InductiveInvariant, PTL

\* A save that returned Ok cannot be undone by a power cut: the directory is synced before.
THEOREM SuccessSurvivesPowerCuts == Spec => []SuccessIsDurable
<1>1. IInv => SuccessIsDurable
  BY DEF IInv, ReplacedIsGone, SuccessIsDurable
<1> QED BY <1>1, InductiveInvariant, PTL

\* A save overwrites an outside change only in the window after its second comparison.
THEOREM OnlyTheCheckedFileIsReplaced == Spec => ReplacesWhatItChecked
<1>1. IInv => \A s \in Savers :
        Rename(s) => entry # saver[s].checked \/ Matches(entry, saver[s].expected)
  BY DEF IInv, CheckedMatches, Rename
<1> QED BY <1>1, InductiveInvariant, PTL DEF ReplacesWhatItChecked

\* The sequence of calls in save_file_if_unchanged implements the contract of an atomic,
\* durable replacement, with any number of saves, other programs, kills and power cuts.
THEOREM ContractIsImplemented == Spec => ImplementsContract
<1>1. Init => Contract!Init
  <2> SUFFICES ASSUME Init PROVE Contract!Init
    OBVIOUS
  <2>1. \A s \in Savers : Status(s) = "idle"
    BY ConstantsAssumption, RestingState DEF Init, Status
  <2> QED BY <2>1 DEF Init, Contract!Init
<1>2. IInv /\ [Next]_vars => [Contract!Next]_(Contract!vars)
  BY NextStep, ConstantsAssumption DEF Simulates
<1> QED BY <1>1, <1>2, InductiveInvariant, PTL DEF Spec, ImplementsContract, Contract!Spec

=============================================================================
