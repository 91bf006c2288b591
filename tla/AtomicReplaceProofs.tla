------------------------- MODULE AtomicReplaceProofs -------------------------
(***************************************************************************)
(* Proofs about AtomicReplace, for every number of writers, payloads and    *)
(* failures.                                                                *)
(***************************************************************************)
EXTENDS AtomicReplace, TLAPS

\* Every file a name may lead to after a power loss is synchronised, and none is older
\* than what a writer that has synchronised the directory has put in place.
SurvivorsInv ==
    /\ \A f \in renamed \cup ({path, durable} \ {NoEntry}) : f.synced /\ f.version <= version
    /\ path \in renamed \cup {durable}
    /\ directory = "absent" => durable = NoEntry /\ renamed = {}
    /\ durable # NoEntry => \A f \in renamed : f.version >= durable.version
    /\ \A w \in Writer :
        /\ written[w] <= version
        /\ pc[w] = "syncDirectory" => path # NoEntry /\ path.version >= written[w]
        /\ pc[w] = "verify" => durable # NoEntry /\ durable.version >= written[w]
    /\ returned <= version

Inv == TypeOK /\ SurvivorsInv /\ NeverTorn /\ ReturnedIsDurable

\* Every step keeps the types.
LEMMA TypeInvariant == TypeOK /\ SurvivorsInv /\ [WriteNext]_writeVars => TypeOK'
<1> SUFFICES ASSUME TypeOK, SurvivorsInv, [WriteNext]_writeVars PROVE TypeOK'
  OBVIOUS
<1> USE DEF TypeOK, File, Go, Accident
<1>0. ASSUME NEW w \in Writer, MakeDirectory(w) PROVE TypeOK'
  BY <1>0 DEF MakeDirectory
<1>1. ASSUME NEW w \in Writer, CreateTemporary(w) PROVE TypeOK'
  BY <1>1 DEF CreateTemporary
<1>2. ASSUME NEW w \in Writer, WriteTemporary(w) PROVE TypeOK'
  BY <1>2 DEF WriteTemporary
<1>3. ASSUME NEW w \in Writer, SyncTemporary(w) PROVE TypeOK'
  BY <1>3 DEF SyncTemporary
<1>4. ASSUME NEW w \in Writer, Rename(w) PROVE TypeOK'
  <2>1. path' \in File
    BY <1>4 DEF Rename
  <2>2. renamed' \subseteq File
    BY <1>4, <2>1 DEF Rename
  <2> QED
    BY <1>4, <2>1, <2>2 DEF Rename
<1>5. ASSUME NEW w \in Writer, SyncDirectory(w) PROVE TypeOK'
  BY <1>5 DEF SyncDirectory
<1>6. ASSUME NEW w \in Writer, Verify(w) PROVE TypeOK'
  BY <1>6 DEF Verify
<1>7. ASSUME NEW w \in Writer, Raise(w) PROVE TypeOK'
  BY <1>7 DEF Raise
<1>8. ASSUME NEW w \in Writer, KillWriter(w) PROVE TypeOK'
  BY <1>8 DEF KillWriter
<1>9. CASE PowerLoss
  <2>1. CASE DirectorySurvives
    <3>1. PICK left \in renamed \cup {durable} :
            /\ path' = left
            /\ durable' = left
            /\ torn' \in IF left # NoEntry /\ ~left.synced THEN BOOLEAN ELSE {FALSE}
      BY <2>1 DEF DirectorySurvives
    <3>2. left \in File \cup {NoEntry} /\ torn' \in BOOLEAN
      BY <3>1
    <3>3. temp' \in [Writer -> {"none", "empty", "written", "synced"}]
      BY <2>1 DEF DirectorySurvives
    <3>4. directory = "absent" => left = NoEntry
      BY DEF SurvivorsInv
    <3>5. /\ directory' \in {"absent", "made", "durable"}
          /\ directory' = "absent" => directory = "absent"
          /\ path' = left /\ durable' = left /\ gone' = gone
      BY <2>1, <3>1 DEF DirectorySurvives
    <3>6. /\ pc' = [w \in Writer |-> "idle"] /\ renamed' = {} /\ accidents' = accidents + 1
          /\ UNCHANGED <<payload, version, written, returned>>
      BY <1>9 DEF PowerLoss
    <3>7. QED
      BY <3>2, <3>3, <3>4, <3>5, <3>6
  <2>2. CASE DirectoryGone
    <3>1. /\ directory' = "absent" /\ path' = NoEntry /\ durable' = NoEntry /\ torn' \in BOOLEAN
          /\ temp' = [w \in Writer |-> "none"] /\ gone' = version
      BY <2>2 DEF DirectoryGone
    <3>2. /\ pc' = [w \in Writer |-> "idle"] /\ renamed' = {} /\ accidents' = accidents + 1
          /\ UNCHANGED <<payload, version, written, returned>>
      BY <1>9 DEF PowerLoss
    <3>3. \A w \in Writer : pc'[w] = "idle"
      BY <3>2
    <3>4. /\ pc' \in [Writer -> {"idle", "create", "write", "sync", "rename",
                                 "syncDirectory", "verify"}]
          /\ temp' \in [Writer -> {"none", "empty", "written", "synced"}]
      BY <3>1, <3>2
    <3>5. QED
      BY <3>1, <3>2, <3>3, <3>4
  <2>3. QED
    BY <1>9, <2>1, <2>2 DEF PowerLoss
<1>10. CASE UNCHANGED writeVars
  BY <1>10 DEF writeVars
<1>11. QED
  BY <1>0, <1>1, <1>2, <1>3, <1>4, <1>5, <1>6, <1>7, <1>8, <1>9, <1>10 DEF WriteNext, WriterStep

-----------------------------------------------------------------------------
\* There is nothing to survive at first.
LEMMA InitialStates == WriteInit => Inv
<1> SUFFICES ASSUME WriteInit PROVE Inv
  OBVIOUS
<1>1. TypeOK
  BY DEF WriteInit, TypeOK
<1>2. renamed \cup ({path, durable} \ {NoEntry}) = {}
  BY DEF WriteInit
<1>3. SurvivorsInv
  BY <1>2 DEF WriteInit, SurvivorsInv
<1>4. NeverTorn /\ ReturnedIsDurable
  BY DEF WriteInit, NeverTorn, ReturnedIsDurable
<1> QED
  BY <1>1, <1>3, <1>4 DEF Inv

\* Every step keeps what a power loss may leave whole and recent enough.
LEMMA SurvivorsStep == Inv /\ [WriteNext]_writeVars => Inv'
<1> SUFFICES ASSUME Inv, [WriteNext]_writeVars PROVE Inv'
  OBVIOUS
<1>0. TypeOK' /\ TypeOK
  BY TypeInvariant DEF Inv
<1> SUFFICES (SurvivorsInv /\ NeverTorn /\ ReturnedIsDurable)'
  BY <1>0 DEF Inv
<1> USE <1>0 DEF Inv, SurvivorsInv, NeverTorn, ReturnedIsDurable, TypeOK, Go
<1>a. ASSUME NEW w \in Writer, MakeDirectory(w) PROVE (SurvivorsInv /\ NeverTorn /\ ReturnedIsDurable)'
  BY <1>a DEF MakeDirectory
<1>1. ASSUME NEW w \in Writer, CreateTemporary(w) PROVE (SurvivorsInv /\ NeverTorn /\ ReturnedIsDurable)'
  BY <1>1 DEF CreateTemporary
<1>2. ASSUME NEW w \in Writer, WriteTemporary(w) PROVE (SurvivorsInv /\ NeverTorn /\ ReturnedIsDurable)'
  BY <1>2 DEF WriteTemporary
<1>3. ASSUME NEW w \in Writer, SyncTemporary(w) PROVE (SurvivorsInv /\ NeverTorn /\ ReturnedIsDurable)'
  BY <1>3 DEF SyncTemporary
<1>4. ASSUME NEW w \in Writer, Rename(w) PROVE (SurvivorsInv /\ NeverTorn /\ ReturnedIsDurable)'
  <2>a. temp[w] = "synced"
    BY <1>4 DEF Rename
  <2>b. path' = [val |-> payload[w], version |-> version + 1, synced |-> temp[w] = "synced"]
    BY <1>4 DEF Rename
  <2>c. path'.version = version + 1 /\ path'.synced = (temp[w] = "synced")
    BY <2>b
  <2>d. path' \in File
    <3>1. payload[w] \in Value /\ version + 1 \in Nat
      OBVIOUS
    <3>2. path' = [val |-> payload[w], version |-> version + 1, synced |-> TRUE]
      BY <2>a, <2>b
    <3> QED
      BY ONLY <3>1, <3>2, SMT DEF File
  <2>1. path' \in File /\ path' # NoEntry
    BY ONLY <2>d, NoEntryAssumption DEF File
  <2>2. /\ path'.version = version + 1 /\ path'.synced
        /\ renamed' = renamed \cup {path'} /\ durable' = durable /\ version' = version + 1
    BY <1>4, <2>a, <2>c DEF Rename
  <2>3. \A f \in (renamed \cup ({path, durable} \ {NoEntry}))' : f.synced /\ f.version <= version'
    BY <2>1, <2>2 DEF File
  <2>4. durable' # NoEntry => \A f \in renamed' : f.version >= durable'.version
    BY <2>2 DEF File
  <2>5. \A v \in Writer :
          /\ written'[v] <= version'
          /\ pc'[v] = "syncDirectory" => path' # NoEntry /\ path'.version >= written'[v]
          /\ pc'[v] = "verify" => durable' # NoEntry /\ durable'.version >= written'[v]
    BY <1>4, <2>1, <2>2 DEF Rename
  <2> QED
    BY <1>4, <2>2, <2>3, <2>4, <2>5 DEF Rename
<1>5. ASSUME NEW w \in Writer, SyncDirectory(w) PROVE (SurvivorsInv /\ NeverTorn /\ ReturnedIsDurable)'
  <2>1. path # NoEntry /\ path \in File /\ path.version >= written[w]
    BY <1>5 DEF SyncDirectory
  <2>2. durable # NoEntry => path.version >= durable.version
    BY <2>1 DEF File
  <2>3. \A v \in Writer :
          /\ pc'[v] = "syncDirectory" => path.version >= written[v]
          /\ pc'[v] = "verify" => path.version >= written[v]
    BY <1>5, <2>1, <2>2 DEF SyncDirectory, File
  <2>4. returned > gone => path.version >= returned
    BY <2>1, <2>2 DEF File
  <2> QED
    BY <1>5, <2>1, <2>3, <2>4 DEF SyncDirectory, File
<1>6. ASSUME NEW w \in Writer, Verify(w) PROVE (SurvivorsInv /\ NeverTorn /\ ReturnedIsDurable)'
  BY <1>6 DEF Verify
<1>7. ASSUME NEW w \in Writer, Raise(w) PROVE (SurvivorsInv /\ NeverTorn /\ ReturnedIsDurable)'
  BY <1>7 DEF Raise
<1>8. ASSUME NEW w \in Writer, KillWriter(w) PROVE (SurvivorsInv /\ NeverTorn /\ ReturnedIsDurable)'
  BY <1>8 DEF KillWriter
<1>9. CASE PowerLoss
  <2>1. CASE DirectorySurvives
    <3>1. PICK left \in renamed \cup {durable} :
            /\ path' = left
            /\ durable' = left
            /\ torn' \in IF left # NoEntry /\ ~left.synced THEN BOOLEAN ELSE {FALSE}
      BY <2>1 DEF DirectorySurvives
    <3>2. left # NoEntry => left.synced /\ left.version <= version
      BY <3>1
    <3>3. returned > gone => left # NoEntry /\ left.version >= returned
      BY <3>1, NoEntryAssumption DEF File
    <3>4. directory' = "absent" => left = NoEntry
      BY <2>1, <3>1 DEF DirectorySurvives
    <3>5. QED
      BY <1>9, <2>1, <3>1, <3>2, <3>3, <3>4 DEF PowerLoss, DirectorySurvives
  <2>2. CASE DirectoryGone
    BY <1>9, <2>2 DEF PowerLoss, DirectoryGone
  <2>3. QED
    BY <1>9, <2>1, <2>2 DEF PowerLoss
<1>10. CASE UNCHANGED writeVars
  BY <1>10 DEF writeVars
<1>11. QED
  BY <1>a, <1>1, <1>2, <1>3, <1>4, <1>5, <1>6, <1>7, <1>8, <1>9, <1>10 DEF WriteNext, WriterStep

\* The invariant holds of every behaviour.
LEMMA Invariance == WriteSpec => []Inv
  BY InitialStates, SurvivorsStep, PTL DEF WriteSpec

\* Whatever the number of writers and the failures, a record is read whole or not at
\* all: what the other modules assume of every file they write.
THEOREM WholeOrNotAtAll == WriteSpec => []NeverTorn
<1>1. Inv => NeverTorn
  BY DEF Inv
<1>2. QED
  BY <1>1, Invariance, PTL

\* A write that has returned survives any later power loss, or a later write does, or
\* the directory is gone that was made for the file and never synchronised in its own.
THEOREM DurableOnReturn == WriteSpec => []ReturnedIsDurable
<1>1. Inv => ReturnedIsDurable
  BY DEF Inv
<1>2. QED
  BY <1>1, Invariance, PTL

\* Files, writers and counters keep their types, and only a synchronised file is renamed.
THEOREM TypesHold == WriteSpec => []TypeOK
<1>1. Inv => TypeOK
  BY DEF Inv
<1>2. QED
  BY <1>1, Invariance, PTL

=============================================================================
