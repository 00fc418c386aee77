------------------------------ MODULE RecordProofs ------------------------------
(* What holds, for every number of cases, officials, runs and workers, of what
   becomes of a case that is signed: that it is deleted only as it may be, that
   what its export says of it is so, and that what is encrypted stays readable.  *)
EXTENDS MCAfterSigning, DeliveryProofs

---------------------------------------------------------------------------------
(* Key rotation.  Which configuration can read which envelope. *)
LEMMA WhoReads ==
  ASSUME NEW config \in KeyConfig, NEW v \in {1, 2}
  PROVE  ReadableVersion(config, v) <=> IF v = 1 THEN config # "retired" ELSE config # "one"
  <1>0. 1 # 2
    OBVIOUS
  <1>1. CASE v = 1
    <2>1. CASE config \in {"one", "dual"}
      <3>1. ActiveVersion(config) = 1
        BY <2>1 DEF ActiveVersion
      <3>2. VersionState(config, v) = "active"
        BY <1>0, <1>1, <2>1, <3>1, Zenon DEF VersionState
      <3> QED BY <1>1, <2>1, <3>2 DEF ReadableVersion
    <2>2. CASE config = "switched"
      <3>1. ActiveVersion(config) = 2
        BY <2>2 DEF ActiveVersion
      <3>2. VersionState(config, v) = "decrypt_only"
        BY <1>0, <1>1, <2>2, <3>1, Zenon DEF VersionState
      <3> QED BY <1>1, <2>2, <3>2 DEF ReadableVersion
    <2>3. CASE config = "retired"
      <3>1. ActiveVersion(config) = 2
        BY <2>3 DEF ActiveVersion
      <3>2. VersionState(config, v) = "retired"
        BY <1>0, <1>1, <2>3, <3>1, Zenon DEF VersionState
      <3> QED BY <1>1, <2>3, <3>2 DEF ReadableVersion
    <2> QED BY <2>1, <2>2, <2>3 DEF KeyConfig
  <1>2. CASE v = 2
    <2>1. CASE config \in {"switched", "retired"}
      <3>1. ActiveVersion(config) = 2
        BY <2>1 DEF ActiveVersion
      <3>2. VersionState(config, v) = "active"
        BY <1>0, <1>2, <2>1, <3>1, Zenon DEF VersionState
      <3> QED BY <1>0, <1>2, <2>1, <3>2 DEF ReadableVersion
    <2>2. CASE config = "dual"
      <3>1. ActiveVersion(config) = 1
        BY <2>2 DEF ActiveVersion
      <3>2. VersionState(config, v) = "decrypt_only"
        BY <1>0, <1>2, <2>2, <3>1, Zenon DEF VersionState
      <3> QED BY <1>0, <1>2, <2>2, <3>2 DEF ReadableVersion
    <2>3. CASE config = "one"
      <3>1. ActiveVersion(config) = 1
        BY <2>3 DEF ActiveVersion
      <3>2. VersionState(config, v) = "unknown"
        BY <1>0, <1>2, <2>3, <3>1, Zenon DEF VersionState
      <3> QED BY <1>0, <1>2, <2>3, <3>2 DEF ReadableVersion
    <2> QED BY <2>1, <2>2, <2>3 DEF KeyConfig
  <1> QED BY <1>1, <1>2

(* A row has an envelope of a version there is, or there is no row. *)
LedgerState == {"none", "PLANNED", "DUAL_READ", "REENCRYPTING", "VERIFIED", "COMPLETED", "ROLLED_BACK"}

KeysAreTyped ==
  /\ configured \in KeyConfig /\ keyRing \in [KeyNode -> KeyConfig]
  /\ cipher \in [KeyRow -> {NoRow} \cup [envelope : {1, 2}, stamp : {1, 2}]]
  /\ ledger \in [state : LedgerState, total : Nat, done : Nat, recorded : BOOLEAN]
  /\ rotations \in 0..MaxRotations

CountersFit ==
  /\ ledger.done <= ledger.total /\ ledger.total <= Cardinality(KeyRow)
  /\ ~ledger.recorded => ledger.done = 0

(* Until the writes are pointed to the new key nobody has written with it; from
   then on everybody knows it.                                                   *)
NewKeyKnown ==
  \/ /\ configured \in {"one", "dual"} /\ \A n \in KeyNode : keyRing[n] \in {"one", "dual"}
     /\ \A r \in KeyRow : cipher[r].envelope # 2
     /\ ~ledger.recorded
  \/ configured # "one" /\ \A n \in KeyNode : keyRing[n] # "one"

(* From the counting of the rows on that the ledger of a rotation goes on, nobody
   writes with the old key, and after the verification no row has its stamp.     *)
Counted == ledger.recorded /\ ledger.state \in {"DUAL_READ", "REENCRYPTING", "VERIFIED", "COMPLETED"}

OldKeyLeft ==
  /\ ledger.state = "PLANNED" => ~ledger.recorded
  /\ ledger.state \in {"REENCRYPTING", "VERIFIED", "COMPLETED"} => ledger.recorded
  /\ Counted => /\ configured \in {"switched", "retired"}
                /\ \A n \in KeyNode : keyRing[n] \in {"switched", "retired"}
  /\ ledger.state \in {"VERIFIED", "COMPLETED"} => \A r \in KeyRow : cipher[r].stamp # 1
  /\ configured = "retired" \/ (\E n \in KeyNode : keyRing[n] = "retired") => ledger.state = "COMPLETED"

KeyInv == KeysAreTyped /\ CountersFit /\ NewKeyKnown /\ OldKeyLeft

LEMMA KeyInvInit == KeyInit => KeyInv
  <1> SUFFICES ASSUME KeyInit PROVE KeyInv
    OBVIOUS
  <1>1. FALSE \in BOOLEAN /\ Cardinality(KeyRow) \in Nat
    BY KeyAssumption, FS_CardinalityType
  <1>2. KeysAreTyped
    BY <1>1, KeyAssumption DEF KeyInit, KeysAreTyped, KeyConfig, NoRotation, LedgerState
  <1>3. CountersFit /\ OldKeyLeft
    BY <1>1 DEF KeyInit, CountersFit, OldKeyLeft, NoRotation, Counted
  <1>4. \A r \in KeyRow : cipher[r].envelope # 2
    BY DEF KeyInit, NoRow
  <1>5. NewKeyKnown
    BY <1>4 DEF KeyInit, NewKeyKnown, NoRotation
  <1> QED BY <1>2, <1>3, <1>5 DEF KeyInv

(* What the steps of the ledger leave alone, in one fact each. *)
LEMMA AdvanceEffect ==
  ASSUME KeysAreTyped, NEW to \in LedgerState, Advance(to)
  PROVE  /\ LedgerMay(ledger.state, to) /\ (to \in {"VERIFIED", "COMPLETED"} => LedgerComplete)
         /\ ledger' \in [state : LedgerState, total : Nat, done : Nat, recorded : BOOLEAN]
         /\ ledger'.state = to /\ ledger'.recorded = ledger.recorded
         /\ ledger'.total = ledger.total /\ ledger'.done = ledger.done
         /\ UNCHANGED <<configured, keyRing, cipher, rotations>>
  BY DEF Advance, KeysAreTyped

LEMMA AdvanceStep ==
  ASSUME KeyInv, NEW to \in LedgerState, Advance(to), to \in {"REENCRYPTING", "VERIFIED", "COMPLETED"} => ledger.recorded,
         to = "VERIFIED" => OnOldKey = {}, to # "ROLLED_BACK"
  PROVE  KeyInv'
  <1>t. KeysAreTyped /\ CountersFit /\ NewKeyKnown /\ OldKeyLeft
    BY DEF KeyInv
  <1>1. /\ LedgerMay(ledger.state, to)
        /\ ledger' \in [state : LedgerState, total : Nat, done : Nat, recorded : BOOLEAN]
        /\ ledger'.state = to /\ ledger'.recorded = ledger.recorded
        /\ ledger'.total = ledger.total /\ ledger'.done = ledger.done
        /\ UNCHANGED <<configured, keyRing, cipher, rotations>>
    BY <1>t, AdvanceEffect
  <1>2. to = "VERIFIED" => \A r \in KeyRow : cipher[r].stamp # 1
    BY <1>t DEF OnOldKey, Stored, KeysAreTyped, NoRow
  <1>3. KeysAreTyped' /\ CountersFit' /\ NewKeyKnown'
    BY <1>t, <1>1 DEF KeysAreTyped, CountersFit, NewKeyKnown
  <1>4. OldKeyLeft'
    BY <1>t, <1>1, <1>2 DEF OldKeyLeft, Counted, LedgerMay
  <1> QED BY <1>3, <1>4 DEF KeyInv

(* A configuration is set: of the rows and the ledger nothing changes. *)
LEMMA ConfigureStep ==
  ASSUME KeyInv, NEW config \in KeyConfig, Configure(config),
         \/ config = "dual" /\ configured = "one"
         \/ config = "switched" /\ ledger.state = "DUAL_READ" /\ \A n \in KeyNode : keyRing[n] = "dual"
         \/ config = "retired" /\ ledger.state = "COMPLETED" /\ configured = "switched"
  PROVE  KeyInv'
  <1>t. KeysAreTyped /\ CountersFit /\ NewKeyKnown /\ OldKeyLeft
    BY DEF KeyInv
  <1>1. configured' = config /\ UNCHANGED <<keyRing, cipher, ledger, rotations>>
    BY DEF Configure
  <1>2. KeysAreTyped' /\ CountersFit'
    BY <1>t, <1>1 DEF KeysAreTyped, CountersFit
  <1>3. NewKeyKnown'
    BY <1>t, <1>1 DEF NewKeyKnown
  <1>4. OldKeyLeft'
    BY <1>t, <1>1 DEF OldKeyLeft, Counted
  <1> QED BY <1>2, <1>3, <1>4 DEF KeyInv

(* A row is written with a version that its writer knows. *)
LEMMA CipherStep ==
  ASSUME KeyInv, NEW n \in KeyNode, NEW r \in KeyRow, NEW row \in [envelope : {1, 2}, stamp : {1, 2}],
         cipher' = [cipher EXCEPT ![r] = row], row.envelope = ActiveVersion(keyRing[n]),
         row.stamp \in {ActiveVersion(keyRing[n]), cipher[r].stamp},
         UNCHANGED <<configured, keyRing, ledger, rotations>>
  PROVE  KeyInv'
  <1>t. KeysAreTyped /\ CountersFit /\ NewKeyKnown /\ OldKeyLeft
    BY DEF KeyInv
  <1>1. cipher'[r] = row /\ \A q \in KeyRow : q # r => cipher'[q] = cipher[q]
    BY <1>t DEF KeysAreTyped
  <1>2. KeysAreTyped' /\ CountersFit'
    BY <1>t DEF KeysAreTyped, CountersFit
  <1>3. NewKeyKnown'
    <2>1. keyRing[n] \in {"one", "dual"} => row.envelope # 2
      BY DEF ActiveVersion
    <2> QED BY <1>t, <1>1, <2>1 DEF NewKeyKnown
  <1>4. OldKeyLeft'
    <2>1. keyRing[n] \in {"switched", "retired"} => ActiveVersion(keyRing[n]) # 1
      BY DEF ActiveVersion
    <2>2. ledger.state \in {"VERIFIED", "COMPLETED"} => Counted
      BY <1>t DEF OldKeyLeft, Counted
    <2>3. ledger.state \in {"VERIFIED", "COMPLETED"} => \A q \in KeyRow : cipher'[q].stamp # 1
      BY <1>t, <1>1, <2>1, <2>2 DEF OldKeyLeft
    <2> QED BY <1>t, <2>3 DEF OldKeyLeft, Counted
  <1> QED BY <1>2, <1>3, <1>4 DEF KeyInv

LEMMA KeyInvNext == KeyInv /\ [KeyNext]_keyVars => KeyInv'
  <1> SUFFICES ASSUME KeyInv, [KeyNext]_keyVars PROVE KeyInv'
    OBVIOUS
  <1> USE KeyAssumption
  <1>t. KeysAreTyped /\ CountersFit /\ NewKeyKnown /\ OldKeyLeft
    BY DEF KeyInv
  <1>1. ASSUME NEW n \in KeyNode, NodeRestarts(n) PROVE KeyInv'
    <2>1. /\ keyRing'[n] = configured /\ \A m \in KeyNode : m # n => keyRing'[m] = keyRing[m]
          /\ UNCHANGED <<configured, cipher, ledger, rotations>>
      BY <1>1, <1>t DEF NodeRestarts, KeysAreTyped
    <2>2. KeysAreTyped' /\ CountersFit'
      BY <1>1, <1>t DEF NodeRestarts, KeysAreTyped, CountersFit
    <2>3. NewKeyKnown' /\ OldKeyLeft'
      BY <1>t, <2>1 DEF NewKeyKnown, OldKeyLeft, Counted
    <2> QED BY <2>2, <2>3 DEF KeyInv
  <1>2. ASSUME NEW n \in KeyNode, NEW r \in KeyRow, InsertRow(n, r) PROVE KeyInv'
    <2> DEFINE v == ActiveVersion(keyRing[n])
    <2>1. v \in {1, 2}
      BY DEF ActiveVersion
    <2> DEFINE row == [envelope |-> v, stamp |-> v]
    <2>2. cipher' = [cipher EXCEPT ![r] = row] /\ UNCHANGED <<configured, keyRing, ledger, rotations>>
      BY <1>2 DEF InsertRow
    <2>3. row \in [envelope : {1, 2}, stamp : {1, 2}] /\ row.envelope = v /\ row.stamp = v
      BY <2>1
    <2> HIDE DEF row
    <2> QED BY <2>2, <2>3, CipherStep
  <1>3. ASSUME NEW n \in KeyNode, NEW r \in KeyRow, UpdateRow(n, r) PROVE KeyInv'
    <2>1. r \in KeyRow /\ cipher[r] \in [envelope : {1, 2}, stamp : {1, 2}]
      BY <1>3, <1>t DEF UpdateRow, Stored, KeysAreTyped
    <2>2. ActiveVersion(keyRing[n]) \in {1, 2}
      BY DEF ActiveVersion
    <2> DEFINE row == [cipher[r] EXCEPT !.envelope = ActiveVersion(keyRing[n])]
    <2>3. cipher' = [cipher EXCEPT ![r] = row] /\ UNCHANGED <<configured, keyRing, ledger, rotations>>
      BY <1>3 DEF UpdateRow
    <2>4. row \in [envelope : {1, 2}, stamp : {1, 2}] /\ row.envelope = ActiveVersion(keyRing[n])
          /\ row.stamp = cipher[r].stamp
      BY <2>1, <2>2
    <2> HIDE DEF row
    <2> QED BY <2>1, <2>3, <2>4, CipherStep
  <1>4. CASE PlanRotation
    <2>1. /\ ledger' = [NoRotation EXCEPT !.state = "PLANNED"] /\ ledger.state \in {"none", "ROLLED_BACK"}
          /\ rotations' = rotations + 1 /\ rotations < MaxRotations
          /\ UNCHANGED <<configured, keyRing, cipher>>
      BY <1>4 DEF PlanRotation
    <2>2. ledger' = [state |-> "PLANNED", total |-> 0, done |-> 0, recorded |-> FALSE]
      BY <2>1 DEF NoRotation
    <2>3. ledger'.state = "PLANNED" /\ ledger'.total = 0 /\ ledger'.done = 0 /\ ~ledger'.recorded
      BY <2>2
    <2>4. ledger' \in [state : LedgerState, total : Nat, done : Nat, recorded : BOOLEAN]
      BY <2>2 DEF LedgerState
    <2>5. KeysAreTyped'
      BY <1>t, <2>1, <2>4 DEF KeysAreTyped
    <2>6. CountersFit'
      BY <2>3, FS_CardinalityType DEF CountersFit
    <2>7. NewKeyKnown' /\ OldKeyLeft'
      BY <1>t, <2>1, <2>3 DEF NewKeyKnown, OldKeyLeft, Counted
    <2> QED BY <2>5, <2>6, <2>7 DEF KeyInv
  <1>5. CASE Advance("DUAL_READ")
    BY <1>5, AdvanceStep DEF LedgerState
  <1>6. CASE LoadNewKey \/ PointWrites \/ RetireOldKey
    <2>1. {"dual", "switched", "retired"} \subseteq KeyConfig
      BY DEF KeyConfig
    <2> QED BY <1>6, <2>1, ConfigureStep DEF LoadNewKey, PointWrites, RetireOldKey
  <1>7. CASE RecordColumns
    <2>1. /\ ledger' = [ledger EXCEPT !.total = Cardinality(OnOldKey), !.recorded = TRUE]
          /\ ledger.state = "DUAL_READ" /\ ~ledger.recorded
          /\ configured = "switched" /\ \A n \in KeyNode : keyRing[n] = "switched"
          /\ UNCHANGED <<configured, keyRing, cipher, rotations>>
      BY <1>7 DEF RecordColumns, EveryNodeSwitched
    <2>2. Cardinality(OnOldKey) \in Nat /\ Cardinality(OnOldKey) <= Cardinality(KeyRow)
      <3>1. OnOldKey \subseteq KeyRow
        BY DEF OnOldKey, Stored
      <3> QED BY <3>1, FS_Subset, FS_CardinalityType
    <2>3. /\ ledger' \in [state : LedgerState, total : Nat, done : Nat, recorded : BOOLEAN]
          /\ ledger'.state = "DUAL_READ" /\ ledger'.done = ledger.done
          /\ ledger'.total = Cardinality(OnOldKey) /\ ledger'.recorded
      BY <1>t, <2>1, <2>2 DEF KeysAreTyped
    <2>4. KeysAreTyped' /\ NewKeyKnown' /\ OldKeyLeft'
      BY <1>t, <2>1, <2>3 DEF KeysAreTyped, NewKeyKnown, OldKeyLeft, Counted
    <2>5. CountersFit'
      BY <1>t, <2>1, <2>2, <2>3 DEF CountersFit
    <2> QED BY <2>4, <2>5 DEF KeyInv
  <1>8. CASE BeginReencrypting
    BY <1>8, AdvanceStep DEF BeginReencrypting, LedgerState
  <1>9. CASE VerifyRotation \/ CompleteRotation
    <2>1. PICK to \in {"VERIFIED", "COMPLETED"} : Advance(to) /\ (to = "VERIFIED" => OnOldKey = {})
      BY <1>9 DEF VerifyRotation, CompleteRotation
    <2>2. LedgerComplete
      BY <2>1 DEF Advance
    <2> QED BY <2>1, <2>2, AdvanceStep DEF LedgerComplete, LedgerState
  <1>10. CASE RollBack
    <2>1. /\ ledger.state # "COMPLETED" /\ ledger' = [ledger EXCEPT !.state = "ROLLED_BACK"]
          /\ configured' = IF configured = "switched" THEN "dual" ELSE configured
          /\ UNCHANGED <<keyRing, cipher, rotations>>
      BY <1>10 DEF RollBack, LedgerMay
    <2>2. /\ ledger' \in [state : LedgerState, total : Nat, done : Nat, recorded : BOOLEAN]
          /\ ledger'.state = "ROLLED_BACK" /\ ledger'.recorded = ledger.recorded
          /\ ledger'.total = ledger.total /\ ledger'.done = ledger.done
      BY <1>t, <2>1 DEF KeysAreTyped, LedgerState
    <2>3. KeysAreTyped' /\ CountersFit'
      BY <1>t, <2>1, <2>2 DEF KeysAreTyped, CountersFit, KeyConfig
    <2>4. NewKeyKnown' /\ OldKeyLeft'
      BY <1>t, <2>1, <2>2 DEF NewKeyKnown, OldKeyLeft, Counted
    <2> QED BY <2>3, <2>4 DEF KeyInv
  <1>11. ASSUME NEW r \in KeyRow, Reencrypt(r) PROVE KeyInv'
    <2>1. /\ ledger.state = "REENCRYPTING" /\ ledger.done < ledger.total
          /\ cipher' = [cipher EXCEPT ![r] = [envelope |-> 2, stamp |-> 2]]
          /\ ledger' = [ledger EXCEPT !.done = @ + 1]
          /\ UNCHANGED <<configured, keyRing, rotations>>
      BY <1>11 DEF Reencrypt
    <2>2. /\ cipher' \in [KeyRow -> {NoRow} \cup [envelope : {1, 2}, stamp : {1, 2}]]
          /\ cipher'[r].stamp = 2 /\ \A q \in KeyRow : q # r => cipher'[q] = cipher[q]
      BY <1>t, <2>1 DEF KeysAreTyped
    <2>3. /\ ledger' \in [state : LedgerState, total : Nat, done : Nat, recorded : BOOLEAN]
          /\ ledger'.state = ledger.state /\ ledger'.recorded = ledger.recorded
          /\ ledger'.total = ledger.total /\ ledger'.done = ledger.done + 1
      BY <1>t, <2>1 DEF KeysAreTyped
    <2>4. ledger.recorded
      BY <1>t, <2>1 DEF OldKeyLeft
    <2>5. KeysAreTyped' /\ CountersFit'
      BY <1>t, <2>1, <2>2, <2>3, <2>4 DEF KeysAreTyped, CountersFit
    <2>6. NewKeyKnown' /\ OldKeyLeft'
      BY <1>t, <2>1, <2>2, <2>3, <2>4 DEF NewKeyKnown, OldKeyLeft, Counted
    <2> QED BY <2>5, <2>6 DEF KeyInv
  <1>12. CASE UNCHANGED keyVars
    BY <1>12, <1>t DEF keyVars, KeyInv, KeysAreTyped, CountersFit, NewKeyKnown, OldKeyLeft, Counted
  <1> QED BY <1>1, <1>2, <1>3, <1>4, <1>5, <1>6, <1>7, <1>8, <1>9, <1>10, <1>11, <1>12 DEF KeyNext

(* A row whose key_version does not claim a newer key than its envelope has is
   readable by every running process, throughout rotations, rollbacks, partial
   deployments and the retirement of the old key (KeyRing.decrypt, 0029): for any
   number of processes, rows and rotations.                                      *)
THEOREM TruthfulRowsReadableHolds == KeySpec => []TruthfulRowsReadable
  <1>1. KeyInv => TruthfulRowsReadable
    <2> SUFFICES ASSUME KeyInv, NEW r \in Stored, cipher[r].stamp <= cipher[r].envelope, NEW n \in KeyNode
                 PROVE  ReadableVersion(keyRing[n], cipher[r].envelope)
      BY DEF TruthfulRowsReadable, Readable
    <2>1. r \in KeyRow /\ cipher[r] \in [envelope : {1, 2}, stamp : {1, 2}] /\ keyRing[n] \in KeyConfig
      BY DEF KeyInv, KeysAreTyped, Stored
    <2>2. cipher[r].envelope = 1 => keyRing[n] # "retired"
      BY <2>1 DEF KeyInv, OldKeyLeft
    <2>3. cipher[r].envelope = 2 => keyRing[n] # "one"
      BY <2>1 DEF KeyInv, NewKeyKnown
    <2> QED BY <2>1, <2>2, <2>3, WhoReads
  <1> QED BY <1>1, KeyInvInit, KeyInvNext, PTL DEF KeySpec

(* The type invariant of the rotation: a column's counter of re-encrypted rows
   never exceeds the rows that were counted (0029's check on the columns).       *)
THEOREM KeyTypeCorrect == KeySpec => []KeyTypeOK
  <1>1. KeyInv => KeyTypeOK
    <2> SUFFICES ASSUME KeyInv PROVE KeyTypeOK
      OBVIOUS
    <2>1. cipher \in [KeyRow -> [envelope : 0..2, stamp : 0..2]]
      BY DEF KeyInv, KeysAreTyped, NoRow
    <2>2. ledger.total \in 0..Cardinality(KeyRow) /\ ledger.done \in 0..ledger.total
      BY KeyAssumption, FS_CardinalityType DEF KeyInv, KeysAreTyped, CountersFit
    <2> QED BY <2>1, <2>2 DEF KeyInv, KeysAreTyped, KeyTypeOK
  <1> QED BY <1>1, KeyInvInit, KeyInvNext, PTL DEF KeySpec

---------------------------------------------------------------------------------
(* Gallring.  The rows of the runs, and what the workers have in memory. *)
GallringRow == [state : Active \cup {"none", "REPORTED", "ABANDONED"}, cases : CaseLists \cup {<<>>},
                by : Official \cup {GNone}, approver : Official \cup {GNone}, executed : BOOLEAN]

GallringMemory == [run : GallringRun \cup {GNone}, left : Seq(GCase), resisted : BOOLEAN,
                   at : {"idle", "load", "begin", "abandon", "objects", "rows", "store", "commit"}]

RunsAreTyped ==
  /\ held \subseteq GCase /\ spared \subseteq held /\ rows \subseteq GCase
  /\ gallring \in [GallringRun -> GallringRow]
  /\ report \in [GallringRun -> {"none", "complete", "partial"}]
  /\ gworker \in [GWorker -> GallringMemory]

(* A run that was queued is about some case; one that was approved was approved
   by somebody; one that has a report is over.                                   *)
RunsAreSound ==
  \A g \in GallringRun :
    /\ gallring[g].state # "none" => gallring[g].cases # <<>>
    /\ gallring[g].state \in {"APPROVED", "EXECUTING", "REPORTED"} => gallring[g].approver # GNone
    /\ gallring[g].state = "EXECUTING" => gallring[g].executed
    /\ report[g] # "none" => gallring[g].state = "REPORTED"

(* A worker erases what its run was queued for, in a run that was begun, and what
   it has gone past has no rows.                                                 *)
AtErasure == {"objects", "rows", "store", "commit"}

MemoryIsDue(m) ==
  /\ m.at # "idle" => m.run \in GallringRun
  /\ m.at \in {"objects", "rows"} => m.left # <<>>
  /\ m.at \in {"store", "commit"} => m.left = <<>>
  /\ m.at \in AtErasure =>
       /\ gallring[m.run].executed /\ gallring[m.run].state # "none"
       /\ ToSet(m.left) \subseteq ToSet(gallring[m.run].cases)
       /\ \A c \in ToSet(gallring[m.run].cases) : c \in rows => c \in ToSet(m.left)

ErasureIsDue == \A w \in GWorker : MemoryIsDue(gworker[w])

(* Nobody erases what is to be spared, or is about to. *)
SparedIsSafe == HoldHonoured /\ \A c \in spared : c \notin UnderErasure

RetentionInv == RunsAreTyped /\ RunsAreSound /\ ErasureIsDue /\ SparedIsSafe

---------------------------------------------------------------------------------
LEMMA CaseListsAreLists ==
  /\ \A s \in CaseLists : s \in Seq(GCase) /\ s # <<>> /\ ToSet(s) \subseteq GCase /\ ToSet(s) # {}
  /\ ToSet(<<>>) = {}
  <1>1. ASSUME NEW s \in CaseLists PROVE s \in Seq(GCase) /\ s # <<>>
    <2>1. CASE \E c \in GCase : s = <<c>>
      BY <2>1
    <2>2. CASE \E c \in GCase, d \in GCase : s = <<c, d>>
      BY <2>2
    <2> QED BY <2>1, <2>2 DEF CaseLists
  <1>2. ASSUME NEW s \in CaseLists PROVE ToSet(s) \subseteq GCase /\ s[1] \in ToSet(s)
    BY <1>1 DEF ToSet
  <1>3. ToSet(<<>>) = {}
    BY DEF ToSet
  <1> QED BY <1>1, <1>2, <1>3

LEMMA HeadAndTail ==
  ASSUME NEW S, NEW s \in Seq(S), s # <<>>
  PROVE  /\ Head(s) \in ToSet(s) /\ Tail(s) \in Seq(S) /\ ToSet(Tail(s)) \subseteq ToSet(s)
         /\ \A x \in ToSet(s) : x = Head(s) \/ x \in ToSet(Tail(s))
         /\ Len(s) = 1 => Tail(s) = <<>>
         /\ Len(s) # 1 => Tail(s) # <<>>
  <1>1. Len(s) \in Nat /\ Len(s) >= 1 /\ DOMAIN s = 1..Len(s)
    OBVIOUS
  <1>2. Tail(s) \in Seq(S) /\ Len(Tail(s)) = Len(s) - 1 /\ \A i \in 1..Len(s) - 1 : Tail(s)[i] = s[i + 1]
    OBVIOUS
  <1>3. Head(s) = s[1] /\ Head(s) \in ToSet(s)
    BY <1>1 DEF ToSet
  <1>4. DOMAIN Tail(s) = 1..Len(s) - 1
    BY <1>1, <1>2
  <1>5. ToSet(Tail(s)) \subseteq ToSet(s)
    BY <1>1, <1>2, <1>4 DEF ToSet
  <1>6. \A x \in ToSet(s) : x = Head(s) \/ x \in ToSet(Tail(s))
    <2> SUFFICES ASSUME NEW i \in 1..Len(s), i # 1 PROVE s[i] \in ToSet(Tail(s))
      BY <1>1, <1>3 DEF ToSet
    <2>1. i - 1 \in 1..Len(s) - 1 /\ Tail(s)[i - 1] = s[i]
      BY <1>1, <1>2
    <2> QED BY <1>4, <2>1 DEF ToSet
  <1> QED BY <1>1, <1>2, <1>3, <1>5, <1>6

LEMMA ErasureIn ==
  ASSUME NEW c, NEW row, NEW memory
  PROVE  c \in (UNION {ToSet(row[g].cases) : g \in {h \in GallringRun : row[h].state = "EXECUTING"}})
               \cup (UNION {ToSet(memory[w].left) : w \in GWorker})
         <=> \/ \E g \in GallringRun : row[g].state = "EXECUTING" /\ c \in ToSet(row[g].cases)
             \/ \E w \in GWorker : c \in ToSet(memory[w].left)
  <1>s. PICK S : S = {ToSet(row[g].cases) : g \in {h \in GallringRun : row[h].state = "EXECUTING"}}
    OBVIOUS
  <1>t. PICK T : T = {ToSet(memory[w].left) : w \in GWorker}
    OBVIOUS
  <1>1. c \in UNION S <=> \E g \in GallringRun : row[g].state = "EXECUTING" /\ c \in ToSet(row[g].cases)
    <2>1. \A x : x \in S <=> \E g \in {h \in GallringRun : row[h].state = "EXECUTING"} : x = ToSet(row[g].cases)
      BY <1>s
    <2>2. c \in UNION S <=> \E x \in S : c \in x
      OBVIOUS
    <2> QED BY <2>1, <2>2, Zenon
  <1>2. c \in UNION T <=> \E w \in GWorker : c \in ToSet(memory[w].left)
    <2>1. \A x : x \in T <=> \E w \in GWorker : x = ToSet(memory[w].left)
      BY <1>t
    <2>2. c \in UNION T <=> \E x \in T : c \in x
      OBVIOUS
    <2> QED BY <2>1, <2>2, Zenon
  <1>3. c \in (UNION S) \cup (UNION T) <=> c \in UNION S \/ c \in UNION T
    OBVIOUS
  <1>4. c \in (UNION S) \cup (UNION T)
        <=> \/ \E g \in GallringRun : row[g].state = "EXECUTING" /\ c \in ToSet(row[g].cases)
            \/ \E w \in GWorker : c \in ToSet(memory[w].left)
    BY <1>1, <1>2, <1>3
  <1> QED BY <1>4, <1>s, <1>t, Zenon

LEMMA ErasureOf ==
  \A c : c \in UnderErasure <=>
    \/ \E g \in GallringRun : gallring[g].state = "EXECUTING" /\ c \in ToSet(gallring[g].cases)
    \/ \E w \in GWorker : c \in ToSet(gworker[w].left)
  BY ErasureIn DEF UnderErasure

LEMMA ErasureLater ==
  \A c : c \in UnderErasure' <=>
    \/ \E g \in GallringRun : gallring'[g].state = "EXECUTING" /\ c \in ToSet(gallring'[g].cases)
    \/ \E w \in GWorker : c \in ToSet(gworker'[w].left)
  <1> TAKE c
  <1>1. UnderErasure' = (UNION {ToSet(gallring'[g].cases) : g \in {h \in GallringRun : gallring'[h].state = "EXECUTING"}})
                        \cup (UNION {ToSet(gworker'[v].left) : v \in GWorker})
    BY Zenon DEF UnderErasure
  <1>2. PICK row, memory : row = gallring' /\ memory = gworker'
    OBVIOUS
  <1>3. UnderErasure' = (UNION {ToSet(row[g].cases) : g \in {h \in GallringRun : row[h].state = "EXECUTING"}})
                        \cup (UNION {ToSet(memory[v].left) : v \in GWorker})
    BY <1>1, <1>2
  <1>4. c \in UnderErasure'
        <=> \/ \E g \in GallringRun : row[g].state = "EXECUTING" /\ c \in ToSet(row[g].cases)
            \/ \E v \in GWorker : c \in ToSet(memory[v].left)
    BY <1>3, ErasureIn
  <1> QED BY <1>2, <1>4

LEMMA RetentionInvInit == RetentionInit => RetentionInv
  <1> SUFFICES ASSUME RetentionInit PROVE RetentionInv
    OBVIOUS
  <1> USE DEF RetentionInit
  <1>0. \A b \in {FALSE} : b \in BOOLEAN
    OBVIOUS
  <1>1. RunsAreTyped
    <2>1. Idle \in GallringMemory
      BY DEF Idle, GallringMemory
    <2>2. gallring \in [GallringRun -> GallringRow]
      BY DEF GallringRow
    <2> QED BY <2>1, <2>2 DEF RunsAreTyped
  <1>2. RunsAreSound /\ ErasureIsDue
    BY DEF RunsAreSound, ErasureIsDue, MemoryIsDue, Idle, AtErasure
  <1>3. SparedIsSafe
    BY DEF SparedIsSafe, HoldHonoured
  <1> QED BY <1>1, <1>2, <1>3 DEF RetentionInv

(* A step of a worker keeps the invariant when its memory stays due, when it goes
   on with nothing that is spared, and when what it does to the runs is sound.    *)
LEMMA WorkerGoesOn ==
  ASSUME RetentionInv, NEW w \in GWorker, NEW m \in GallringMemory, gworker' = [gworker EXCEPT ![w] = m],
         UNCHANGED <<held, spared>>, rows' \subseteq rows,
         \A c \in spared : (c \in objects => c \in objects') /\ (c \in rows => c \in rows'),
         gallring' \in [GallringRun -> GallringRow], report' \in [GallringRun -> {"none", "complete", "partial"}],
         RunsAreSound',
         \A g \in GallringRun :
           /\ gallring'[g].cases = gallring[g].cases
           /\ gallring[g].executed => gallring'[g].executed
           /\ gallring[g].state # "none" => gallring'[g].state # "none"
           /\ gallring'[g].state = "EXECUTING" => \A c \in ToSet(gallring[g].cases) : c \notin spared,
         MemoryIsDue(m)', \A c \in ToSet(m.left) : c \notin spared
  PROVE  RetentionInv'
  <1>t. RunsAreTyped /\ RunsAreSound /\ ErasureIsDue /\ SparedIsSafe
    BY DEF RetentionInv
  <1>1. RunsAreTyped'
    BY <1>t DEF RunsAreTyped
  <1>2. ASSUME NEW v \in GWorker PROVE MemoryIsDue(gworker[v])'
    <2>1. CASE v = w
      BY <1>t, <2>1 DEF RunsAreTyped, MemoryIsDue
    <2>2. CASE v # w
      <3>1. gworker'[v] = gworker[v] /\ MemoryIsDue(gworker[v])
        BY <1>t, <2>2 DEF RunsAreTyped, ErasureIsDue
      <3> DEFINE k == gworker[v]
      <3>2. MemoryIsDue(k) /\ k \in GallringMemory
        BY <1>t, <3>1 DEF RunsAreTyped
      <3>5. gworker'[v] = k
        BY <3>1
      <3> HIDE DEF k
      <3>3. CASE k.at \notin AtErasure
        BY <3>2, <3>3, <3>5 DEF MemoryIsDue, AtErasure
      <3>4. CASE k.at \in AtErasure
        <4>1. k.run \in GallringRun
          BY <3>2, <3>4 DEF MemoryIsDue, AtErasure
        <4>2. gallring'[k.run].cases = gallring[k.run].cases
          BY <4>1
        <4>3. gallring'[k.run].executed /\ gallring'[k.run].state # "none"
          BY <3>2, <3>4, <4>1, Zenon DEF MemoryIsDue
        <4>4. ToSet(k.left) \subseteq ToSet(gallring'[k.run].cases)
          BY <3>2, <3>4, <4>2 DEF MemoryIsDue
        <4>5. \A c \in ToSet(gallring'[k.run].cases) : c \in rows' => c \in ToSet(k.left)
          BY <3>2, <3>4, <4>2 DEF MemoryIsDue
        <4> QED BY <3>2, <3>5, <4>1, <4>3, <4>4, <4>5 DEF MemoryIsDue
      <3> QED BY <3>3, <3>4
    <2> QED BY <2>1, <2>2
  <1>3. ErasureIsDue'
    BY <1>2 DEF ErasureIsDue
  <1>4. ASSUME NEW c \in spared PROVE c \notin UnderErasure'
    <2>1. \A g \in GallringRun : gallring'[g].state = "EXECUTING" => c \notin ToSet(gallring'[g].cases)
      BY Zenon
    <2>2. c \notin UnderErasure
      BY <1>t DEF SparedIsSafe
    <2>3. ASSUME NEW v \in GWorker PROVE c \notin ToSet(gworker'[v].left)
      <3>1. CASE v = w
        BY <1>t, <3>1 DEF RunsAreTyped
      <3>2. CASE v # w
        <4>1. gworker'[v] = gworker[v]
          BY <1>t, <3>2 DEF RunsAreTyped
        <4> QED BY <2>2, <4>1, ErasureOf, Zenon
      <3> QED BY <3>1, <3>2
    <2> QED BY <2>1, <2>3, ErasureLater
  <1>5. SparedIsSafe'
    BY <1>t, <1>4 DEF SparedIsSafe, HoldHonoured
  <1> QED BY <1>1, <1>3, <1>5 DEF RetentionInv

(* What a worker has in memory it may hold on to, or forget. *)
LEMMA WorkerEnds ==
  ASSUME RetentionInv, NEW w \in GWorker, gworker' = [gworker EXCEPT ![w] = Idle],
         UNCHANGED <<held, spared, objects, rows, gallring, report>>
  PROVE  RetentionInv'
  <1>t. RunsAreTyped /\ RunsAreSound /\ ErasureIsDue /\ SparedIsSafe
    BY DEF RetentionInv
  <1>1. Idle \in GallringMemory /\ MemoryIsDue(Idle)' /\ ToSet(Idle.left) = {}
    BY CaseListsAreLists DEF Idle, GallringMemory, MemoryIsDue, AtErasure
  <1>2. RunsAreSound'
    BY <1>t DEF RunsAreSound
  <1>3. \A g \in GallringRun : gallring[g].state = "EXECUTING" => \A c \in ToSet(gallring[g].cases) : c \notin spared
    BY <1>t, ErasureOf, Zenon DEF SparedIsSafe
  <1> QED BY <1>t, <1>1, <1>2, <1>3, WorkerGoesOn DEF RunsAreTyped

(* The same when of its memory only the place changes. *)
LEMMA WorkerMoves ==
  ASSUME RetentionInv, NEW w \in GWorker, NEW m \in GallringMemory, gworker' = [gworker EXCEPT ![w] = m],
         MemoryIsDue(m), m.left = gworker[w].left, UNCHANGED <<held, spared, rows, gallring, report>>,
         \A c \in spared : c \in objects => c \in objects'
  PROVE  RetentionInv'
  <1>t. RunsAreTyped /\ RunsAreSound /\ ErasureIsDue /\ SparedIsSafe
    BY DEF RetentionInv
  <1>1. MemoryIsDue(m)' /\ RunsAreSound'
    BY <1>t DEF MemoryIsDue, RunsAreSound
  <1>2. \A g \in GallringRun : gallring[g].state = "EXECUTING" => \A c \in ToSet(gallring[g].cases) : c \notin spared
    BY <1>t, ErasureOf, Zenon DEF SparedIsSafe
  <1>3. \A c \in ToSet(m.left) : c \notin spared
    BY <1>t, ErasureOf, Zenon DEF SparedIsSafe
  <1> QED BY <1>t, <1>1, <1>2, <1>3, WorkerGoesOn DEF RunsAreTyped

(* What the officials do to a run that is not yet being executed. *)
LEMMA RunIsHandled ==
  ASSUME RetentionInv, NEW g \in GallringRun, NEW row \in GallringRow, gallring' = [gallring EXCEPT ![g] = row],
         UNCHANGED <<held, spared, objects, rows, report, gworker>>,
         gallring[g].state \in {"none", "PLANNED"}, row.state \in {"PLANNED", "APPROVED"}, row.cases # <<>>,
         row.state = "APPROVED" => row.approver # GNone,
         gallring[g].state # "none" => row.cases = gallring[g].cases /\ row.executed = gallring[g].executed
  PROVE  RetentionInv'
  <1>t. RunsAreTyped /\ RunsAreSound /\ ErasureIsDue /\ SparedIsSafe
    BY DEF RetentionInv
  <1>1. gallring'[g] = row /\ \A h \in GallringRun : h # g => gallring'[h] = gallring[h]
    BY <1>t DEF RunsAreTyped
  <1>2. RunsAreTyped'
    BY <1>t DEF RunsAreTyped
  <1>3. RunsAreSound'
    <2> SUFFICES ASSUME NEW h \in GallringRun
                 PROVE  /\ gallring'[h].state # "none" => gallring'[h].cases # <<>>
                        /\ gallring'[h].state \in {"APPROVED", "EXECUTING", "REPORTED"} => gallring'[h].approver # GNone
                        /\ gallring'[h].state = "EXECUTING" => gallring'[h].executed
                        /\ report[h] # "none" => gallring'[h].state = "REPORTED"
      BY DEF RunsAreSound
    <2>1. CASE h = g
      <3>1. report[g] = "none"
        BY <1>t DEF RunsAreSound
      <3> QED BY <1>1, <2>1, <3>1
    <2>2. CASE h # g
      BY <1>t, <1>1, <2>2, Zenon DEF RunsAreSound
    <2> QED BY <2>1, <2>2
  <1>4. ASSUME NEW w \in GWorker PROVE MemoryIsDue(gworker[w])'
    <2>1. MemoryIsDue(gworker[w]) /\ gworker' = gworker
      BY <1>t DEF ErasureIsDue
    <2>2. CASE gworker[w].at \notin AtErasure
      BY <2>1, <2>2 DEF MemoryIsDue, AtErasure
    <2>3. CASE gworker[w].at \in AtErasure
      <3>1. gworker[w].run \in GallringRun /\ gallring[gworker[w].run].state # "none"
        BY <2>1, <2>3 DEF MemoryIsDue, AtErasure
      <3>2. /\ gallring'[gworker[w].run].cases = gallring[gworker[w].run].cases
            /\ gallring'[gworker[w].run].executed = gallring[gworker[w].run].executed
            /\ gallring'[gworker[w].run].state # "none"
        BY <1>1, <3>1
      <3> QED BY <2>1, <3>2, <3>1 DEF MemoryIsDue
    <2> QED BY <2>2, <2>3
  <1>5. ErasureIsDue'
    BY <1>4 DEF ErasureIsDue
  <1>6. ASSUME NEW c \in spared PROVE c \notin UnderErasure'
    <2>1. \A h \in GallringRun : gallring'[h].state = "EXECUTING" => gallring'[h] = gallring[h]
      BY <1>1
    <2>2. c \notin UnderErasure
      BY <1>t DEF SparedIsSafe
    <2>3. \A h \in GallringRun : gallring'[h].state = "EXECUTING" => c \notin ToSet(gallring'[h].cases)
      BY <2>1, <2>2, ErasureOf
    <2>4. \A w \in GWorker : c \notin ToSet(gworker'[w].left)
      BY <2>2, ErasureOf
    <2> QED BY <2>3, <2>4, ErasureLater
  <1>7. SparedIsSafe'
    BY <1>t, <1>6 DEF SparedIsSafe, HoldHonoured
  <1> QED BY <1>2, <1>3, <1>5, <1>7 DEF RetentionInv

LEMMA QueueStep ==
  ASSUME RetentionInv, NEW g \in GallringRun, NEW who \in Official, NEW cases \in CaseLists,
         QueueGallring(g, who, cases)
  PROVE  RetentionInv'
  <1> DEFINE row == [state |-> "PLANNED", cases |-> cases, by |-> who, approver |-> GNone, executed |-> FALSE]
  <1>1. FALSE \in BOOLEAN /\ "PLANNED" \in Active
    BY DEF Active
  <1>2. row \in GallringRow
    BY <1>1 DEF GallringRow
  <1>3. /\ gallring[g].state = "none" /\ gallring' = [gallring EXCEPT ![g] = row]
        /\ UNCHANGED <<held, spared, objects, rows, report, gworker>>
    BY DEF QueueGallring
  <1> QED BY <1>2, <1>3, RunIsHandled, CaseListsAreLists

LEMMA ApproveStep ==
  ASSUME RetentionInv, NEW g \in GallringRun, NEW who \in Official, ApproveGallring(g, who)
  PROVE  RetentionInv'
  <1>t. RunsAreTyped /\ RunsAreSound
    BY DEF RetentionInv
  <1> DEFINE row == [gallring[g] EXCEPT !.state = "APPROVED", !.approver = who]
  <1>1. row \in GallringRow /\ row.state = "APPROVED" /\ row.approver = who /\ row.cases = gallring[g].cases
        /\ row.executed = gallring[g].executed
    BY <1>t DEF GallringRow, RunsAreTyped, Active
  <1>2. /\ gallring[g].state = "PLANNED"
        /\ gallring' = [gallring EXCEPT ![g].state = "APPROVED", ![g].approver = who]
        /\ UNCHANGED <<held, spared, objects, rows, report, gworker>>
    BY DEF ApproveGallring
  <1>3. gallring' = [gallring EXCEPT ![g] = row]
    BY <1>t, <1>2 DEF RunsAreTyped
  <1>4. gallring[g].cases # <<>> /\ who # GNone
    BY <1>t, <1>2, ErasableAssumption DEF RunsAreSound
  <1> HIDE DEF row
  <1> QED BY <1>1, <1>2, <1>3, <1>4, RunIsHandled

(* What nobody who erases takes part in. *)
LEMMA HoldStep ==
  ASSUME RetentionInv, NEW c \in GCase, CaseCloses(c) \/ PeriodElapses(c) \/ PlaceHold(c) \/ ReleaseHold(c)
  PROVE  RetentionInv'
  <1>t. RunsAreTyped /\ RunsAreSound /\ ErasureIsDue /\ SparedIsSafe
    BY DEF RetentionInv
  <1>1. UNCHANGED <<objects, rows, gallring, report, gworker>>
    BY DEF CaseCloses, PeriodElapses, PlaceHold, ReleaseHold
  <1>2. /\ held' \subseteq GCase /\ spared' \subseteq held'
        /\ \A d \in spared' : d \in spared \/ (d \in objects \cap rows /\ d \notin UnderErasure)
    <2>1. CASE CaseCloses(c) \/ PeriodElapses(c)
      BY <1>t, <2>1 DEF CaseCloses, PeriodElapses, RunsAreTyped
    <2>2. CASE PlaceHold(c)
      <3>1. held' = held \cup {c} /\ (spared' = spared \/ (spared' = spared \cup {c} /\ c \in objects \cap rows /\ c \notin UnderErasure))
        BY <2>2 DEF PlaceHold
      <3> QED BY <1>t, <3>1 DEF RunsAreTyped
    <2>3. CASE ReleaseHold(c)
      BY <1>t, <2>3 DEF ReleaseHold, RunsAreTyped
    <2> QED BY <2>1, <2>2, <2>3
  <1>3. RunsAreTyped' /\ RunsAreSound'
    BY <1>t, <1>1, <1>2 DEF RunsAreTyped, RunsAreSound
  <1>4. ErasureIsDue' /\ UnderErasure' = UnderErasure
    BY <1>t, <1>1 DEF ErasureIsDue, MemoryIsDue, UnderErasure
  <1>5. SparedIsSafe'
    BY <1>t, <1>1, <1>2, <1>4 DEF SparedIsSafe, HoldHonoured
  <1> QED BY <1>3, <1>4, <1>5 DEF RetentionInv

(* A worker claims a run, reads it, and begins with it. *)
LEMMA ClaimGallringStep ==
  ASSUME RetentionInv, NEW w \in GWorker, NEW g \in GallringRun, ClaimGallring(w, g)
  PROVE  RetentionInv'
  <1> DEFINE m == [Idle EXCEPT !.run = g, !.at = "load"]
  <1>3. FALSE \in BOOLEAN /\ <<>> \in Seq(GCase)
    OBVIOUS
  <1>4. Idle \in GallringMemory
    BY <1>3 DEF Idle, GallringMemory
  <1>1. m \in GallringMemory /\ m.run = g /\ m.at = "load" /\ m.left = Idle.left
    BY <1>4 DEF GallringMemory
  <1>5. MemoryIsDue(m)
    BY <1>1 DEF MemoryIsDue, AtErasure
  <1>2. /\ gworker[w] = Idle /\ gworker' = [gworker EXCEPT ![w] = m]
        /\ UNCHANGED <<held, spared, objects, rows, gallring, report>>
    BY DEF ClaimGallring
  <1> HIDE DEF m
  <1> QED BY <1>1, <1>2, <1>5, WorkerMoves

LEMMA LoadGallringStep ==
  ASSUME RetentionInv, NEW w \in GWorker, LoadGallring(w)
  PROVE  RetentionInv'
  <1>t. RunsAreTyped /\ ErasureIsDue
    BY DEF RetentionInv
  <1>1. gworker[w].at = "load" /\ UNCHANGED <<held, spared, objects, rows, gallring, report>>
    BY DEF LoadGallring
  <1>2. CASE gworker' = [gworker EXCEPT ![w] = Idle]
    BY <1>1, <1>2, WorkerEnds
  <1>3. CASE gworker' = [gworker EXCEPT ![w].at = "begin"]
    <2> DEFINE m == [gworker[w] EXCEPT !.at = "begin"]
    <2>1. m \in GallringMemory /\ m.left = gworker[w].left /\ m.run = gworker[w].run /\ m.at = "begin"
      BY <1>t DEF GallringMemory, RunsAreTyped
    <2>2. gworker' = [gworker EXCEPT ![w] = m]
      BY <1>t, <1>3 DEF RunsAreTyped
    <2>3. gworker[w].run \in GallringRun
      BY <1>t, <1>1 DEF ErasureIsDue, MemoryIsDue
    <2> HIDE DEF m
    <2>4. MemoryIsDue(m)
      BY <2>1, <2>3 DEF MemoryIsDue, AtErasure
    <2> QED BY <1>1, <2>1, <2>2, <2>4, WorkerMoves
  <1>4. gworker' = [gworker EXCEPT ![w] = Idle] \/ gworker' = [gworker EXCEPT ![w].at = "begin"]
    BY DEF LoadGallring, EndHandler
  <1> QED BY <1>2, <1>3, <1>4

LEMMA BeginStep ==
  ASSUME RetentionInv, NEW w \in GWorker, BeginExecution(w)
  PROVE  RetentionInv'
  <1>t. RunsAreTyped /\ RunsAreSound /\ ErasureIsDue /\ SparedIsSafe
    BY DEF RetentionInv
  <1> DEFINE g == gworker[w].run
  <1>1. gworker[w].at = "begin" /\ UNCHANGED <<held, spared, objects, rows, report>>
    BY DEF BeginExecution
  <1>2. g \in GallringRun
    BY <1>t, <1>1 DEF ErasureIsDue, MemoryIsDue
  <1> HIDE DEF g
  <1>3. CASE /\ GallringMay(g, "EXECUTING") /\ Execute(g)
             /\ gworker' = [gworker EXCEPT ![w].at = "objects", ![w].left = gallring[g].cases]
    <2> DEFINE row == [gallring[g] EXCEPT !.state = "EXECUTING", !.executed = TRUE]
    <2>1. /\ gallring[g].state \in {"APPROVED", "EXECUTING"}
          /\ gallring[g].state = "APPROVED" => held \cap ToSet(gallring[g].cases) = {}
      BY <1>3 DEF GallringMay
    <2>2. \A c \in ToSet(gallring[g].cases) : c \notin spared
      <3>1. CASE gallring[g].state = "APPROVED"
        BY <1>t, <2>1, <3>1 DEF RunsAreTyped
      <3>2. CASE gallring[g].state = "EXECUTING"
        BY <1>t, <1>2, <3>2, ErasureOf, Zenon DEF SparedIsSafe
      <3> QED BY <2>1, <3>1, <3>2
    <2>3. gallring[g] \in GallringRow /\ gallring[g].cases # <<>> /\ gallring[g].cases \in Seq(GCase)
      <3>1. gallring[g] \in GallringRow /\ gallring[g].cases # <<>>
        BY <1>t, <1>2, <2>1 DEF RunsAreTyped, RunsAreSound
      <3> QED BY <3>1, CaseListsAreLists DEF GallringRow
    <2>4. TRUE \in BOOLEAN /\ "EXECUTING" \in Active
      BY DEF Active
    <2>5. row \in GallringRow /\ row.state = "EXECUTING" /\ row.executed = TRUE /\ row.cases = gallring[g].cases
          /\ row.approver = gallring[g].approver
      BY <2>3, <2>4 DEF GallringRow
    <2>6. gallring' = [gallring EXCEPT ![g] = row]
      BY <1>t, <1>2, <1>3 DEF Execute, RunsAreTyped
    <2>m. PICK m : m = [gworker[w] EXCEPT !.at = "objects", !.left = gallring[g].cases]
      OBVIOUS
    <2>7. m \in GallringMemory /\ m.run = g /\ m.at = "objects" /\ m.left = gallring[g].cases
      BY <1>t, <2>3, <2>m DEF GallringMemory, RunsAreTyped, g
    <2>8. gworker' = [gworker EXCEPT ![w] = m]
      BY <1>t, <1>3, <2>m DEF RunsAreTyped
    <2> HIDE DEF row
    <2>9. gallring' \in [GallringRun -> GallringRow] /\ report' \in [GallringRun -> {"none", "complete", "partial"}]
      BY <1>t, <1>1, <1>2, <2>5, <2>6 DEF RunsAreTyped
    <2>10. gallring'[g] = row /\ \A h \in GallringRun : h # g => gallring'[h] = gallring[h]
      BY <1>t, <1>2, <2>6 DEF RunsAreTyped
    <2>11. RunsAreSound'
      <3> SUFFICES ASSUME NEW h \in GallringRun
                   PROVE  /\ gallring'[h].state # "none" => gallring'[h].cases # <<>>
                          /\ gallring'[h].state \in {"APPROVED", "EXECUTING", "REPORTED"} => gallring'[h].approver # GNone
                          /\ gallring'[h].state = "EXECUTING" => gallring'[h].executed
                          /\ report'[h] # "none" => gallring'[h].state = "REPORTED"
        BY DEF RunsAreSound
      <3>1. CASE h = g
        <4>1. gallring[g].approver # GNone /\ report[g] = "none"
          BY <1>t, <1>2, <2>1 DEF RunsAreSound
        <4> QED BY <1>1, <2>3, <2>5, <2>10, <3>1, <4>1
      <3>2. CASE h # g
        BY <1>t, <1>1, <2>10, <3>2, Zenon DEF RunsAreSound
      <3> QED BY <3>1, <3>2
    <2>12. \A h \in GallringRun :
             /\ gallring'[h].cases = gallring[h].cases
             /\ gallring[h].executed => gallring'[h].executed
             /\ gallring[h].state # "none" => gallring'[h].state # "none"
             /\ gallring'[h].state = "EXECUTING" => \A c \in ToSet(gallring[h].cases) : c \notin spared
      <3> SUFFICES ASSUME NEW h \in GallringRun
                   PROVE  /\ gallring'[h].cases = gallring[h].cases
                          /\ gallring[h].executed => gallring'[h].executed
                          /\ gallring[h].state # "none" => gallring'[h].state # "none"
                          /\ gallring'[h].state = "EXECUTING" => \A c \in ToSet(gallring[h].cases) : c \notin spared
        OBVIOUS
      <3>1. CASE h = g
        BY <2>2, <2>5, <2>10, <3>1
      <3>2. CASE h # g
        <4>1. gallring'[h] = gallring[h]
          BY <2>10, <3>2
        <4>2. gallring[h].state = "EXECUTING" => \A c \in ToSet(gallring[h].cases) : c \notin spared
          BY <1>t, ErasureOf, Zenon DEF SparedIsSafe
        <4> QED BY <4>1, <4>2
      <3> QED BY <3>1, <3>2
    <2>13. MemoryIsDue(m)'
      <3>1. gallring'[g].executed /\ gallring'[g].state # "none" /\ gallring'[g].cases = m.left
        BY <2>5, <2>7, <2>10, Zenon
      <3> QED BY <1>2, <2>3, <2>7, <3>1 DEF MemoryIsDue, AtErasure
    <2>14. \A c \in ToSet(m.left) : c \notin spared
      BY <2>2, <2>7
    <2> QED BY <1>1, <2>7, <2>8, <2>9, <2>11, <2>12, <2>13, <2>14, WorkerGoesOn
  <1>4. CASE /\ UNCHANGED gallring
             /\ gworker' = [gworker EXCEPT ![w].at = "abandon"]
    <2> DEFINE m == [gworker[w] EXCEPT !.at = "abandon"]
    <2>1. m \in GallringMemory /\ m.left = gworker[w].left /\ m.run = g /\ m.at = "abandon"
      BY <1>t DEF GallringMemory, RunsAreTyped, g
    <2>2. gworker' = [gworker EXCEPT ![w] = m]
      BY <1>t, <1>4 DEF RunsAreTyped
    <2> HIDE DEF m
    <2>3. MemoryIsDue(m)
      BY <1>2, <2>1 DEF MemoryIsDue, AtErasure
    <2> QED BY <1>1, <1>4, <2>1, <2>2, <2>3, WorkerMoves
  <1>5. CASE /\ UNCHANGED gallring
             /\ gworker' = [gworker EXCEPT ![w] = Idle]
    BY <1>1, <1>5, WorkerEnds
  <1> QED BY <1>3, <1>4, <1>5 DEF BeginExecution, EndHandler, g

(* A run is over: abandoned, or reported by one that was executing it. *)
LEMMA RunIsOver ==
  ASSUME RetentionInv, NEW w \in GWorker, NEW g \in GallringRun, NEW to \in {"ABANDONED", "REPORTED"}, SetState(g, to),
         gworker' = [gworker EXCEPT ![w] = Idle], UNCHANGED <<held, spared, objects, rows>>,
         gallring[g].state \notin {"none", "REPORTED"}, to = "REPORTED" => gallring[g].state = "EXECUTING",
         report' \in [GallringRun -> {"none", "complete", "partial"}],
         \A h \in GallringRun : report'[h] # "none" => report[h] # "none" \/ (h = g /\ to = "REPORTED")
  PROVE  RetentionInv'
  <1>t. RunsAreTyped /\ RunsAreSound /\ ErasureIsDue /\ SparedIsSafe
    BY DEF RetentionInv
  <1> DEFINE row == [gallring[g] EXCEPT !.state = to]
  <1>1. row \in GallringRow /\ row.state = to /\ row.executed = gallring[g].executed
        /\ row.cases = gallring[g].cases /\ row.approver = gallring[g].approver
    BY <1>t DEF GallringRow, RunsAreTyped
  <1>2. gallring' = [gallring EXCEPT ![g] = row]
    BY <1>t DEF SetState, RunsAreTyped
  <1> HIDE DEF row
  <1>3. gallring'[g] = row /\ \A h \in GallringRun : h # g => gallring'[h] = gallring[h]
    BY <1>t, <1>2 DEF RunsAreTyped
  <1>4. gallring' \in [GallringRun -> GallringRow]
    BY <1>t, <1>1, <1>2 DEF RunsAreTyped
  <1>5. RunsAreSound'
    <2> SUFFICES ASSUME NEW h \in GallringRun
                 PROVE  /\ gallring'[h].state # "none" => gallring'[h].cases # <<>>
                        /\ gallring'[h].state \in {"APPROVED", "EXECUTING", "REPORTED"} => gallring'[h].approver # GNone
                        /\ gallring'[h].state = "EXECUTING" => gallring'[h].executed
                        /\ report'[h] # "none" => gallring'[h].state = "REPORTED"
      BY DEF RunsAreSound
    <2>1. CASE h = g
      <3>1. gallring[g].cases # <<>> /\ (to = "REPORTED" => gallring[g].approver # GNone) /\ report[g] = "none"
        BY <1>t DEF RunsAreSound
      <3>2. to # "REPORTED" => report'[g] = "none"
        BY <3>1
      <3> QED BY <1>1, <1>3, <2>1, <3>1, <3>2
    <2>2. CASE h # g
      <3>1. report'[h] # "none" => report[h] # "none"
        BY <2>2
      <3> QED BY <1>t, <1>3, <2>2, <3>1, Zenon DEF RunsAreSound
    <2> QED BY <2>1, <2>2
  <1>6. \A h \in GallringRun : gallring[h].state = "EXECUTING" => \A c \in ToSet(gallring[h].cases) : c \notin spared
    BY <1>t, ErasureOf, Zenon DEF SparedIsSafe
  <1>7. \A h \in GallringRun :
          /\ gallring'[h].cases = gallring[h].cases
          /\ gallring[h].executed => gallring'[h].executed
          /\ gallring[h].state # "none" => gallring'[h].state # "none"
          /\ gallring'[h].state = "EXECUTING" => gallring[h].state = "EXECUTING"
    <2> SUFFICES ASSUME NEW h \in GallringRun
                 PROVE  /\ gallring'[h].cases = gallring[h].cases
                        /\ gallring[h].executed => gallring'[h].executed
                        /\ gallring[h].state # "none" => gallring'[h].state # "none"
                        /\ gallring'[h].state = "EXECUTING" => gallring[h].state = "EXECUTING"
      OBVIOUS
    <2> QED BY <1>1, <1>3
  <1>8. Idle \in GallringMemory /\ MemoryIsDue(Idle)' /\ ToSet(Idle.left) = {}
    BY CaseListsAreLists DEF Idle, GallringMemory, MemoryIsDue, AtErasure
  <1> QED BY <1>4, <1>5, <1>6, <1>7, <1>8, WorkerGoesOn

LEMMA AbandonStep ==
  ASSUME RetentionInv, NEW w \in GWorker, AbandonGallring(w)
  PROVE  RetentionInv'
  <1>t. RunsAreTyped /\ ErasureIsDue
    BY DEF RetentionInv
  <1>1. /\ gworker[w].at = "abandon" /\ gworker' = [gworker EXCEPT ![w] = Idle]
        /\ UNCHANGED <<held, spared, objects, rows, report>>
    BY DEF AbandonGallring, EndHandler
  <1>2. gworker[w].run \in GallringRun
    BY <1>t, <1>1 DEF ErasureIsDue, MemoryIsDue
  <1>3. CASE gallring' = gallring
    BY <1>1, <1>3, WorkerEnds
  <1>4. CASE GallringMay(gworker[w].run, "ABANDONED") /\ SetState(gworker[w].run, "ABANDONED")
    <2>1. gallring[gworker[w].run].state \notin {"none", "REPORTED"}
      BY <1>4 DEF GallringMay, Active
    <2> QED BY <1>t, <1>1, <1>2, <1>4, <2>1, RunIsOver DEF RunsAreTyped
  <1> QED BY <1>3, <1>4 DEF AbandonGallring

LEMMA CommitStep ==
  ASSUME RetentionInv, NEW w \in GWorker, CommitReport(w)
  PROVE  RetentionInv'
  <1>t. RunsAreTyped /\ ErasureIsDue
    BY DEF RetentionInv
  <1>1. /\ gworker[w].at = "commit" /\ gworker' = [gworker EXCEPT ![w] = Idle]
        /\ UNCHANGED <<held, spared, objects, rows>>
    BY DEF CommitReport, EndHandler
  <1>2. gworker[w].run \in GallringRun
    BY <1>t, <1>1 DEF ErasureIsDue, MemoryIsDue
  <1>3. CASE gallring' = gallring /\ report' = report
    BY <1>1, <1>3, WorkerEnds
  <1>4. CASE /\ GallringMay(gworker[w].run, "VERIFIED") /\ SetState(gworker[w].run, "REPORTED")
             /\ report' = [report EXCEPT ![gworker[w].run] = IF @ = "none" THEN ReportOf(w) ELSE @]
    <2>1. gallring[gworker[w].run].state = "EXECUTING"
      BY <1>t, <1>2, <1>4 DEF GallringMay, RunsAreTyped, GallringRow, Active
    <2>2. ReportOf(w) \in {"complete", "partial"}
      BY DEF ReportOf
    <2>3. report' \in [GallringRun -> {"none", "complete", "partial"}]
      BY <1>t, <1>4, <2>2 DEF RunsAreTyped
    <2>4. \A h \in GallringRun : report'[h] # "none" => report[h] # "none" \/ h = gworker[w].run
      BY <1>t, <1>4 DEF RunsAreTyped
    <2> QED BY <1>1, <1>2, <1>4, <2>1, <2>3, <2>4, RunIsOver
  <1> QED BY <1>3, <1>4 DEF CommitReport

(* A worker erases one case after the other, and stores what it did. *)
LEMMA ObjectsStep ==
  ASSUME RetentionInv, NEW w \in GWorker, EraseObjects(w)
  PROVE  RetentionInv'
  <1>t. RunsAreTyped /\ ErasureIsDue /\ SparedIsSafe
    BY DEF RetentionInv
  <1>1. gworker[w].at = "objects" /\ UNCHANGED <<held, spared, rows, gallring, report>>
    BY DEF EraseObjects
  <1>2. gworker[w] \in GallringMemory /\ MemoryIsDue(gworker[w])
    BY <1>t DEF RunsAreTyped, ErasureIsDue
  <1>3. Head(gworker[w].left) \in ToSet(gworker[w].left)
    BY <1>1, <1>2, HeadAndTail DEF MemoryIsDue, GallringMemory
  <1>4. Head(gworker[w].left) \notin spared
    BY <1>t, <1>3, ErasureOf DEF SparedIsSafe
  <1>5. \A c \in spared : c \in objects => c \in objects'
    BY <1>4 DEF EraseObjects
  <1>6. PICK m : /\ gworker' = [gworker EXCEPT ![w] = m] /\ m \in GallringMemory
                 /\ m.at = "rows" /\ m.left = gworker[w].left /\ m.run = gworker[w].run
    <2>1. CASE gworker' = [gworker EXCEPT ![w].at = "rows"]
      <3> DEFINE n == [gworker[w] EXCEPT !.at = "rows"]
      <3>1. n \in GallringMemory /\ n.at = "rows" /\ n.left = gworker[w].left /\ n.run = gworker[w].run
        BY <1>2 DEF GallringMemory
      <3>2. gworker' = [gworker EXCEPT ![w] = n]
        BY <1>t, <2>1 DEF RunsAreTyped
      <3> HIDE DEF n
      <3> QED BY <3>1, <3>2
    <2>2. CASE gworker' = [gworker EXCEPT ![w].at = "rows", ![w].resisted = TRUE]
      <3> DEFINE n == [gworker[w] EXCEPT !.at = "rows", !.resisted = TRUE]
      <3>0. TRUE \in BOOLEAN
        OBVIOUS
      <3>1. n \in GallringMemory /\ n.at = "rows" /\ n.left = gworker[w].left /\ n.run = gworker[w].run
        BY <1>2, <3>0 DEF GallringMemory
      <3>2. gworker' = [gworker EXCEPT ![w] = n]
        BY <1>t, <2>2 DEF RunsAreTyped
      <3> HIDE DEF n
      <3> QED BY <3>1, <3>2
    <2> QED BY <2>1, <2>2 DEF EraseObjects
  <1>7. MemoryIsDue(m)
    BY <1>1, <1>2, <1>6 DEF MemoryIsDue, AtErasure
  <1> QED BY <1>1, <1>5, <1>6, <1>7, WorkerMoves

LEMMA StoreReportStep ==
  ASSUME RetentionInv, NEW w \in GWorker, StoreReport(w)
  PROVE  RetentionInv'
  <1>t. RunsAreTyped /\ ErasureIsDue
    BY DEF RetentionInv
  <1>1. gworker[w].at = "store" /\ UNCHANGED <<held, spared, objects, rows, gallring, report>>
    BY DEF StoreReport
  <1>2. CASE gworker' = [gworker EXCEPT ![w] = Idle]
    BY <1>1, <1>2, WorkerEnds
  <1>3. CASE gworker' = [gworker EXCEPT ![w].at = "commit"]
    <2> DEFINE m == [gworker[w] EXCEPT !.at = "commit"]
    <2>1. gworker[w] \in GallringMemory /\ MemoryIsDue(gworker[w])
      BY <1>t DEF RunsAreTyped, ErasureIsDue
    <2>2. m \in GallringMemory /\ m.left = gworker[w].left /\ m.run = gworker[w].run /\ m.at = "commit"
      BY <2>1 DEF GallringMemory
    <2>3. gworker' = [gworker EXCEPT ![w] = m]
      BY <1>t, <1>3 DEF RunsAreTyped
    <2> HIDE DEF m
    <2>4. MemoryIsDue(m)
      BY <1>1, <2>1, <2>2 DEF MemoryIsDue, AtErasure
    <2> QED BY <1>1, <2>2, <2>3, <2>4, WorkerMoves
  <1> QED BY <1>2, <1>3 DEF StoreReport, EndHandler

(* Of the jobs and their leases the invariant says nothing. *)
LEMMA RetentionRests ==
  ASSUME RetentionInv, UNCHANGED <<held, spared, objects, rows, gallring, report, gworker>>
  PROVE  RetentionInv'
  <1>1. RunsAreTyped' /\ RunsAreSound'
    BY DEF RetentionInv, RunsAreTyped, RunsAreSound
  <1>2. ErasureIsDue' /\ UnderErasure' = UnderErasure
    BY DEF RetentionInv, ErasureIsDue, MemoryIsDue, UnderErasure
  <1>3. SparedIsSafe'
    BY <1>2 DEF RetentionInv, SparedIsSafe, HoldHonoured
  <1> QED BY <1>1, <1>2, <1>3 DEF RetentionInv

(* The rows of the first case go, and the case is out of the worker's hands. *)
LEMMA RowsGo ==
  ASSUME RetentionInv, NEW w \in GWorker, gworker[w].at = "rows", UNCHANGED <<held, spared, objects, gallring, report>>,
         rows' = rows \ {Head(gworker[w].left)},
         gworker' = [gworker EXCEPT ![w].left = Tail(@),
                       ![w].at = IF Len(gworker[w].left) = 1 THEN "store" ELSE "objects"]
  PROVE  RetentionInv'
  <1>t. RunsAreTyped /\ RunsAreSound /\ ErasureIsDue /\ SparedIsSafe
    BY DEF RetentionInv
  <1>1. PICK k : k = gworker[w]
    OBVIOUS
  <1>2. /\ k \in GallringMemory /\ MemoryIsDue(k) /\ k.at = "rows"
        /\ k.left \in Seq(GCase) /\ k.left # <<>> /\ k.run \in GallringRun
        /\ gallring[k.run].executed /\ gallring[k.run].state # "none"
        /\ ToSet(k.left) \subseteq ToSet(gallring[k.run].cases)
        /\ \A c \in ToSet(gallring[k.run].cases) : c \in rows => c \in ToSet(k.left)
    <2>1. k \in GallringMemory /\ MemoryIsDue(k) /\ k.at = "rows"
      BY <1>t, <1>1 DEF RunsAreTyped, ErasureIsDue
    <2> QED BY <2>1 DEF MemoryIsDue, AtErasure, GallringMemory
  <1>3. /\ Head(k.left) \in ToSet(k.left) /\ Tail(k.left) \in Seq(GCase)
        /\ ToSet(Tail(k.left)) \subseteq ToSet(k.left)
        /\ \A x \in ToSet(k.left) : x = Head(k.left) \/ x \in ToSet(Tail(k.left))
        /\ Len(k.left) = 1 => Tail(k.left) = <<>>
        /\ Len(k.left) # 1 => Tail(k.left) # <<>>
    BY <1>2, HeadAndTail
  <1>4. \A c \in ToSet(k.left) : c \notin spared
    BY <1>t, <1>1, ErasureOf, Zenon DEF SparedIsSafe
  <1>5. PICK m : m = [k EXCEPT !.left = Tail(k.left), !.at = IF Len(k.left) = 1 THEN "store" ELSE "objects"]
    OBVIOUS
  <1>6. /\ m \in GallringMemory /\ m.left = Tail(k.left) /\ m.run = k.run
        /\ m.at \in {"store", "objects"} /\ (m.at = "store" <=> Len(k.left) = 1)
    BY <1>2, <1>3, <1>5 DEF GallringMemory
  <1>7. gworker' = [gworker EXCEPT ![w] = m]
    BY <1>t, <1>1, <1>5 DEF RunsAreTyped
  <1>8. MemoryIsDue(m)'
    <2>1. gallring'[m.run].executed /\ gallring'[m.run].state # "none"
      BY <1>2, <1>6, Zenon
    <2>2. \A c \in ToSet(gallring'[m.run].cases) : c \in rows' => c \in ToSet(m.left)
      BY <1>1, <1>2, <1>3, <1>6
    <2>3. ToSet(m.left) \subseteq ToSet(gallring'[m.run].cases)
      BY <1>2, <1>3, <1>6
    <2> QED BY <1>2, <1>3, <1>6, <2>1, <2>2, <2>3 DEF MemoryIsDue, AtErasure
  <1>9. /\ \A c \in ToSet(m.left) : c \notin spared
        /\ \A c \in spared : (c \in objects => c \in objects') /\ (c \in rows => c \in rows')
        /\ rows' \subseteq rows
    BY <1>1, <1>3, <1>4, <1>6
  <1>10. RunsAreSound' /\ gallring' \in [GallringRun -> GallringRow]
         /\ report' \in [GallringRun -> {"none", "complete", "partial"}]
    BY <1>t DEF RunsAreSound, RunsAreTyped
  <1>11. \A g \in GallringRun : gallring[g].state = "EXECUTING" => \A c \in ToSet(gallring[g].cases) : c \notin spared
    BY <1>t, ErasureOf, Zenon DEF SparedIsSafe
  <1> QED BY <1>6, <1>7, <1>8, <1>9, <1>10, <1>11, WorkerGoesOn

LEMMA RowsStep ==
  ASSUME RetentionInv, NEW w \in GWorker, EraseRows(w)
  PROVE  RetentionInv'
  <1>1. gworker[w].at = "rows" /\ UNCHANGED <<held, spared, objects, gallring, report>>
    BY DEF EraseRows
  <1>2. CASE rows' = rows /\ gworker' = [gworker EXCEPT ![w] = Idle]
    BY <1>1, <1>2, WorkerEnds
  <1>3. CASE /\ rows' = rows \ {Head(gworker[w].left)}
             /\ gworker' = [gworker EXCEPT ![w].left = Tail(@),
                              ![w].at = IF Len(gworker[w].left) = 1 THEN "store" ELSE "objects"]
    BY <1>1, <1>3, RowsGo
  <1> QED BY <1>2, <1>3 DEF EraseRows, EndHandler

LEMMA RetentionInvNext == RetentionInv /\ [RetentionNext]_retentionVars => RetentionInv'
  <1> SUFFICES ASSUME RetentionInv, [RetentionNext]_retentionVars PROVE RetentionInv'
    OBVIOUS
  <1>1. ASSUME NEW c \in GCase, CaseCloses(c) \/ PeriodElapses(c) \/ PlaceHold(c) \/ ReleaseHold(c) PROVE RetentionInv'
    BY <1>1, HoldStep
  <1>2. ASSUME NEW g \in GallringRun, NEW who \in Official, NEW cases \in CaseLists, QueueGallring(g, who, cases)
        PROVE RetentionInv'
    BY <1>2, QueueStep
  <1>3. ASSUME NEW g \in GallringRun, NEW who \in Official, ApproveGallring(g, who) PROVE RetentionInv'
    BY <1>3, ApproveStep
  <1>4. ASSUME NEW w \in GWorker, GWorkerStep(w) PROVE RetentionInv'
    BY <1>4, LoadGallringStep, BeginStep, AbandonStep, ObjectsStep, RowsStep, StoreReportStep, CommitStep,
       ClaimGallringStep DEF GWorkerStep
  <1>5. ASSUME NEW w \in GWorker, GWorkerLost(w) PROVE RetentionInv'
    BY <1>5, WorkerEnds DEF GWorkerLost
  <1>6. ASSUME NEW g \in GallringRun, GLeaseExpires(g) PROVE RetentionInv'
    <2>1. UNCHANGED <<held, spared, objects, rows, gallring, report, gworker>>
      BY <1>6 DEF GLeaseExpires
    <2> QED BY <2>1, RetentionRests
  <1>7. CASE UNCHANGED retentionVars
    BY <1>7, RetentionRests DEF retentionVars
  <1> QED BY <1>1, <1>2, <1>3, <1>4, <1>5, <1>6, <1>7 DEF RetentionNext

(* An intact case that has been under legal hold since before any run was erasing
   it is never touched, whatever workers are lost or go on without their lease:
   the cases of a run that is begun and what its workers have in memory have no
   spared case in them, because beginning asks for the holds.                     *)
THEOREM HoldHonouredHolds == RetentionSpec => []HoldHonoured
  <1>1. RetentionInv => HoldHonoured
    BY DEF RetentionInv, SparedIsSafe
  <1> QED BY <1>1, RetentionInvInit, RetentionInvNext, PTL DEF RetentionSpec

(* The durable jobs of the runs: a job that waits has an attempt left, and before
   its run is approved there is none.                                            *)
GallringJob == [status : {"none", "pending", "running", "completed", "dead"},
                attempts : 0..GallringMaxAttempts, owner : GWorker \cup {GNone}]

JobHasAttemptLeft(g) ==
  /\ gjob[g].status = "pending" => gjob[g].attempts < GallringMaxAttempts
  /\ gjob[g].status = "none" => gjob[g].attempts = 0
  /\ gallring[g].state \in {"none", "PLANNED"} => gjob[g].status = "none"

GallringJobsInv ==
  /\ policyMode \in RetentionMode /\ clock \in [GCase -> {"open", "closed", "due"}]
  /\ holds \in 0..MaxHolds /\ objects \subseteq GCase /\ reportObject \subseteq GallringRun
  /\ gjob \in [GallringRun -> GallringJob]
  /\ \A g \in GallringRun : JobHasAttemptLeft(g)

LEMMA GallringJobsInit == RetentionInit => GallringJobsInv
  <1> SUFFICES ASSUME RetentionInit PROVE GallringJobsInv
    OBVIOUS
  <1>1. gjob \in [GallringRun -> GallringJob]
    BY DEF RetentionInit, GallringJob, GallringMaxAttempts
  <1>2. \A g \in GallringRun : JobHasAttemptLeft(g)
    BY DEF RetentionInit, JobHasAttemptLeft, GallringMaxAttempts
  <1>3. /\ policyMode \in RetentionMode /\ clock \in [GCase -> {"open", "closed", "due"}]
        /\ holds \in 0..MaxHolds /\ objects \subseteq GCase /\ reportObject \subseteq GallringRun
    BY HoldsAssumption DEF RetentionInit
  <1> QED BY <1>1, <1>2, <1>3 DEF GallringJobsInv

(* One job changes, and its run does not go back to where it had none. *)
LEMMA OneJobChanges ==
  ASSUME GallringJobsInv, RetentionInv, NEW g \in GallringRun, NEW task \in GallringJob,
         gjob' = [gjob EXCEPT ![g] = task], task.status # "none",
         task.status = "pending" => task.attempts < GallringMaxAttempts,
         \A h \in GallringRun : \/ gallring'[h] = gallring[h] /\ (h = g => gallring[g].state \notin {"none", "PLANNED"})
                                \/ gallring'[h].state \notin {"none", "PLANNED"},
         policyMode' = policyMode, clock' = clock, holds' = holds,
         objects' \subseteq GCase, reportObject' \subseteq GallringRun
  PROVE  GallringJobsInv'
  <1>1. gjob' \in [GallringRun -> GallringJob]
    BY DEF GallringJobsInv
  <1>2. ASSUME NEW h \in GallringRun PROVE JobHasAttemptLeft(h)'
    <2>1. CASE h = g
      <3>1. gjob'[h] = task
        BY <2>1 DEF GallringJobsInv
      <3> QED BY <2>1, <3>1 DEF JobHasAttemptLeft
    <2>2. CASE h # g
      <3>1. gjob'[h] = gjob[h]
        BY <2>2 DEF GallringJobsInv
      <3>2. JobHasAttemptLeft(h)
        BY DEF GallringJobsInv
      <3> QED BY <3>1, <3>2 DEF JobHasAttemptLeft
    <2> QED BY <2>1, <2>2
  <1> QED BY <1>1, <1>2 DEF GallringJobsInv

(* What settles a job leaves it one, with an attempt left if it is to be tried again. *)
LEMMA SettledJobIsOne ==
  ASSUME GallringJobsInv, NEW g \in GallringRun, NEW w \in GWorker, NEW ending
  PROVE  /\ SettledJob(g, w, ending) \in GallringJob
         /\ SettledJob(g, w, ending).status = "pending" => SettledJob(g, w, ending).attempts < GallringMaxAttempts
         /\ SettledJob(g, w, ending).status = "none" => gjob[g] = SettledJob(g, w, ending)
  <1>1. gjob[g] \in GallringJob /\ JobHasAttemptLeft(g)
    BY DEF GallringJobsInv
  <1>2. CASE gjob[g].status # "running" \/ gjob[g].owner # w
    BY <1>1, <1>2 DEF SettledJob, JobHasAttemptLeft
  <1>3. CASE gjob[g].status = "running" /\ gjob[g].owner = w
    BY <1>1, <1>3 DEF SettledJob, GallringJob, GallringMaxAttempts
  <1> QED BY <1>2, <1>3

(* A worker that is done with its run, whatever it did to it, keeps the jobs sound;
   so does one that goes on.                                                       *)
LEMMA JobsOfWorker ==
  ASSUME GallringJobsInv, RetentionInv, NEW w \in GWorker, NEW ending, gworker[w].at # "idle",
         \/ UNCHANGED gjob
         \/ EndHandler(w, ending),
         \/ UNCHANGED gallring
         \/ \E to \in {"EXECUTING", "ABANDONED", "REPORTED"}, executed \in BOOLEAN :
               gallring' = [gallring EXCEPT ![gworker[w].run] =
                              [@ EXCEPT !.state = to, !.executed = executed]],
         policyMode' = policyMode, clock' = clock, holds' = holds,
         objects' \subseteq GCase, reportObject' \subseteq GallringRun
  PROVE  GallringJobsInv'
  <1>1. PICK g \in GallringRun : g = gworker[w].run
    BY DEF RetentionInv, ErasureIsDue, MemoryIsDue
  <1>2. \A h \in GallringRun : gallring'[h] = gallring[h] \/ gallring'[h].state \notin {"none", "PLANNED"}
    BY <1>1 DEF RetentionInv, RunsAreTyped, GallringRow
  <1>3. CASE gjob' = gjob
    <2>1. ASSUME NEW h \in GallringRun PROVE JobHasAttemptLeft(h)'
      BY <1>2, <1>3 DEF GallringJobsInv, JobHasAttemptLeft
    <2> QED BY <1>3, <2>1 DEF GallringJobsInv
  <1>4. CASE gjob' = [gjob EXCEPT ![g] = SettledJob(g, w, ending)]
    <2>1. PICK task : task = SettledJob(g, w, ending)
      OBVIOUS
    <2>2. /\ task \in GallringJob
          /\ task.status = "pending" => task.attempts < GallringMaxAttempts
          /\ task.status = "none" => gjob[g] = task
      BY <2>1, SettledJobIsOne
    <2>3. ASSUME NEW h \in GallringRun PROVE JobHasAttemptLeft(h)'
      <3>1. gjob'[h] = IF h = g THEN task ELSE gjob[h]
        BY <1>4, <2>1 DEF GallringJobsInv
      <3>2. JobHasAttemptLeft(h)
        BY DEF GallringJobsInv
      <3>3. gjob[g].status = "none" => task = gjob[g]
        BY <2>1 DEF SettledJob
      <3>4. CASE h # g
        BY <1>2, <3>1, <3>2, <3>4 DEF JobHasAttemptLeft
      <3>5. CASE h = g
        BY <1>2, <2>2, <3>1, <3>2, <3>3, <3>5 DEF JobHasAttemptLeft
      <3> QED BY <3>4, <3>5
    <2>4. gjob' \in [GallringRun -> GallringJob]
      BY <1>4, <2>1, <2>2 DEF GallringJobsInv
    <2> QED BY <2>3, <2>4 DEF GallringJobsInv
  <1> QED BY <1>1, <1>3, <1>4 DEF EndHandler

LEMMA GallringJobsNext == GallringJobsInv /\ RetentionInv /\ [RetentionNext]_retentionVars => GallringJobsInv'
  <1> SUFFICES ASSUME GallringJobsInv, RetentionInv, [RetentionNext]_retentionVars PROVE GallringJobsInv'
    OBVIOUS
  <1>1. ASSUME NEW c \in GCase, CaseCloses(c) \/ PeriodElapses(c) \/ PlaceHold(c) \/ ReleaseHold(c)
        PROVE  GallringJobsInv'
    <2>1. UNCHANGED <<policyMode, objects, gallring, reportObject, gjob>>
      BY <1>1 DEF CaseCloses, PeriodElapses, PlaceHold, ReleaseHold
    <2>2. clock' \in [GCase -> {"open", "closed", "due"}]
      BY <1>1 DEF GallringJobsInv, CaseCloses, PeriodElapses, PlaceHold, ReleaseHold
    <2>3. holds' \in 0..MaxHolds
      BY <1>1, HoldsAssumption DEF GallringJobsInv, CaseCloses, PeriodElapses, PlaceHold, ReleaseHold
    <2> QED BY <2>1, <2>2, <2>3 DEF GallringJobsInv, JobHasAttemptLeft
  <1>2. ASSUME NEW g \in GallringRun, NEW who \in Official, NEW cases \in CaseLists, QueueGallring(g, who, cases)
        PROVE  GallringJobsInv'
    <2>1. /\ UNCHANGED <<policyMode, clock, holds, objects, reportObject, gjob>>
          /\ \A h \in GallringRun : gallring'[h] = gallring[h] \/ gallring[h].state = "none"
      BY <1>2 DEF QueueGallring, RetentionInv, RunsAreTyped
    <2>2. \A h \in GallringRun : JobHasAttemptLeft(h)'
      BY <2>1 DEF GallringJobsInv, JobHasAttemptLeft
    <2> QED BY <2>1, <2>2 DEF GallringJobsInv
  <1>3. ASSUME NEW g \in GallringRun, NEW who \in Official, ApproveGallring(g, who) PROVE GallringJobsInv'
    <2>1. PICK task : task = [gjob[g] EXCEPT !.status = "pending"]
      OBVIOUS
    <2>2. gjob[g] \in GallringJob /\ gjob[g].attempts = 0
      BY <1>3 DEF ApproveGallring, GallringJobsInv, JobHasAttemptLeft
    <2>3. task \in GallringJob /\ task.status = "pending" /\ task.attempts < GallringMaxAttempts
      BY <2>1, <2>2 DEF GallringJob, GallringMaxAttempts
    <2>4. gjob' = [gjob EXCEPT ![g] = task]
      BY <1>3, <2>1 DEF ApproveGallring
    <2>5. \A h \in GallringRun : IF h = g THEN gallring'[h].state = "APPROVED" ELSE gallring'[h] = gallring[h]
      BY <1>3 DEF ApproveGallring, RetentionInv, RunsAreTyped, GallringRow
    <2>6. UNCHANGED <<policyMode, clock, holds, objects, reportObject>>
      BY <1>3 DEF ApproveGallring
    <2> QED BY <2>3, <2>4, <2>5, <2>6, OneJobChanges DEF GallringJobsInv
  <1>4. ASSUME NEW w \in GWorker, NEW g \in GallringRun, ClaimGallring(w, g) PROVE GallringJobsInv'
    <2>1. PICK task : task = [status |-> "running", attempts |-> gjob[g].attempts + 1, owner |-> w]
      OBVIOUS
    <2>2. gjob[g] \in GallringJob /\ gjob[g].attempts < GallringMaxAttempts /\ gallring[g].state \notin {"none", "PLANNED"}
      BY <1>4 DEF ClaimGallring, GallringJobsInv, JobHasAttemptLeft
    <2>3. task \in GallringJob /\ task.status = "running"
      BY <2>1, <2>2 DEF GallringJob, GallringMaxAttempts
    <2>4. gjob' = [gjob EXCEPT ![g] = task] /\ UNCHANGED <<policyMode, clock, holds, objects, reportObject, gallring>>
      BY <1>4, <2>1 DEF ClaimGallring
    <2> QED BY <2>2, <2>3, <2>4, OneJobChanges DEF GallringJobsInv
  <1>5. ASSUME NEW w \in GWorker, GWorkerStep(w), ~\E g \in GallringRun : ClaimGallring(w, g) PROVE GallringJobsInv'
    <2>1. gworker[w].at # "idle"
      BY <1>5 DEF GWorkerStep, LoadGallring, BeginExecution, AbandonGallring, EraseObjects, EraseRows, StoreReport, CommitReport
    <2>2. \/ UNCHANGED gjob
          \/ \E ending \in {"completed", "refused", "failed"} : EndHandler(w, ending)
      BY <1>5 DEF GWorkerStep, LoadGallring, BeginExecution, AbandonGallring, EraseObjects, EraseRows, StoreReport, CommitReport
    <2>3. \/ UNCHANGED gallring
          \/ \E to \in {"EXECUTING", "ABANDONED", "REPORTED"}, executed \in BOOLEAN :
               gallring' = [gallring EXCEPT ![gworker[w].run] = [@ EXCEPT !.state = to, !.executed = executed]]
      <3>1. gworker[w].run \in GallringRun
        BY <2>1 DEF RetentionInv, ErasureIsDue, MemoryIsDue
      <3>2. \/ UNCHANGED gallring
            \/ Execute(gworker[w].run)
            \/ SetState(gworker[w].run, "ABANDONED") \/ SetState(gworker[w].run, "REPORTED")
        BY <1>5 DEF GWorkerStep, LoadGallring, BeginExecution, AbandonGallring, EraseObjects, EraseRows, StoreReport, CommitReport
      <3>3. gallring \in [GallringRun -> GallringRow]
        BY DEF RetentionInv, RunsAreTyped
      <3>4. PICK row \in GallringRow, g \in GallringRun : g = gworker[w].run /\ row = gallring[g]
        BY <3>1, <3>3
      <3>5. row.executed \in BOOLEAN /\ DOMAIN gallring = GallringRun
        BY <3>3 DEF GallringRow
      <3>6. CASE Execute(g)
        <4>1. gallring' = [gallring EXCEPT ![g] = [row EXCEPT !.state = "EXECUTING", !.executed = TRUE]]
          BY <3>3, <3>4, <3>6 DEF Execute
        <4> QED BY <3>4, <4>1
      <3>7. ASSUME NEW to \in {"ABANDONED", "REPORTED"}, SetState(g, to)
            PROVE  gallring' = [gallring EXCEPT ![g] = [@ EXCEPT !.state = to, !.executed = row.executed]]
        BY <3>3, <3>4, <3>5, <3>7 DEF SetState, GallringRow
      <3> QED BY <3>2, <3>4, <3>5, <3>6, <3>7
    <2>4. UNCHANGED <<policyMode, clock, holds>>
      BY <1>5 DEF GWorkerStep, LoadGallring, BeginExecution, AbandonGallring, EraseObjects, EraseRows, StoreReport, CommitReport
    <2>5. objects' \subseteq GCase
      BY <1>5 DEF GallringJobsInv, GWorkerStep, LoadGallring, BeginExecution, AbandonGallring, EraseObjects, EraseRows, StoreReport, CommitReport
    <2>6. reportObject' \subseteq GallringRun
      <3>1. gworker[w].run \in GallringRun
        BY <2>1 DEF RetentionInv, ErasureIsDue, MemoryIsDue
      <3> QED BY <1>5, <3>1 DEF GallringJobsInv, GWorkerStep, LoadGallring, BeginExecution, AbandonGallring, EraseObjects,
                 EraseRows, StoreReport, CommitReport
    <2>7. CASE UNCHANGED gjob
      BY <2>1, <2>3, <2>4, <2>5, <2>6, <2>7, JobsOfWorker
    <2>8. ASSUME NEW ending, EndHandler(w, ending) PROVE GallringJobsInv'
      BY <2>1, <2>3, <2>4, <2>5, <2>6, <2>8, JobsOfWorker
    <2> QED BY <2>2, <2>7, <2>8
  <1>6. ASSUME NEW w \in GWorker, GWorkerLost(w) PROVE GallringJobsInv'
    BY <1>6 DEF GWorkerLost, GallringJobsInv, JobHasAttemptLeft
  <1>7. ASSUME NEW g \in GallringRun, GLeaseExpires(g) PROVE GallringJobsInv'
    <2>1. PICK task : task = [gjob[g] EXCEPT !.owner = GNone,
                              !.status = IF gjob[g].attempts < GallringMaxAttempts THEN "pending" ELSE "dead"]
      OBVIOUS
    <2>2. gjob[g] \in GallringJob /\ gallring[g].state \notin {"none", "PLANNED"}
      BY <1>7 DEF GLeaseExpires, GallringJobsInv, JobHasAttemptLeft
    <2>3. task \in GallringJob /\ task.status # "none" /\ (task.status = "pending" => task.attempts < GallringMaxAttempts)
      BY <2>1, <2>2 DEF GallringJob, GallringMaxAttempts
    <2>4. gjob' = [gjob EXCEPT ![g] = task]
      BY <1>7, <2>1 DEF GLeaseExpires
    <2>5. UNCHANGED <<policyMode, clock, holds, objects, reportObject, gallring>>
      BY <1>7 DEF GLeaseExpires
    <2> QED BY <2>2, <2>3, <2>4, <2>5, OneJobChanges DEF GallringJobsInv
  <1>8. CASE UNCHANGED retentionVars
    BY <1>8 DEF retentionVars, GallringJobsInv, JobHasAttemptLeft
  <1> QED BY <1>1, <1>2, <1>3, <1>4, <1>5, <1>6, <1>7, <1>8 DEF RetentionNext

(* The rows of gallring, its jobs and its workers keep their types; no run is tried
   more often than its job may be, though a job comes back from every lost lease.  *)
THEOREM RetentionTypeCorrect == RetentionSpec => []RetentionTypeOK
  <1>1. RetentionInv /\ GallringJobsInv => RetentionTypeOK
    <2> SUFFICES ASSUME RetentionInv, GallringJobsInv PROVE RetentionTypeOK
      OBVIOUS
    <2>1. ASSUME NEW g \in GallringRun
          PROVE  /\ gallring[g].state \in Active \cup {"none", "REPORTED", "ABANDONED"}
                 /\ gallring[g].cases \in CaseLists \cup {<<>>}
                 /\ {gallring[g].by, gallring[g].approver} \subseteq Official \cup {GNone}
                 /\ gallring[g].executed \in BOOLEAN
                 /\ report[g] \in {"none", "complete", "partial"}
                 /\ gjob[g].status \in {"none", "pending", "running", "completed", "dead"}
                 /\ gjob[g].attempts \in 0..GallringMaxAttempts
                 /\ gjob[g].owner \in GWorker \cup {GNone}
      <3>1. gallring[g] \in GallringRow /\ report[g] \in {"none", "complete", "partial"} /\ gjob[g] \in GallringJob
        BY DEF RetentionInv, RunsAreTyped, GallringJobsInv
      <3> QED BY <3>1 DEF GallringRow, GallringJob
    <2>2. \A w \in GWorker : gworker[w].run \in GallringRun \cup {GNone}
      BY DEF RetentionInv, RunsAreTyped, GallringMemory
    <2>3. /\ policyMode \in RetentionMode /\ clock \in [GCase -> {"open", "closed", "due"}]
          /\ held \subseteq GCase /\ holds \in 0..MaxHolds /\ spared \subseteq held
          /\ objects \subseteq GCase /\ rows \subseteq GCase /\ reportObject \subseteq GallringRun
      BY DEF RetentionInv, RunsAreTyped, GallringJobsInv
    <2> QED BY <2>1, <2>2, <2>3 DEF RetentionTypeOK
  <1> QED BY <1>1, RetentionInvInit, RetentionInvNext, GallringJobsInit, GallringJobsNext, PTL DEF RetentionSpec

---------------------------------------------------------------------------------
(* The runs as the decision layer sees them. *)
ShownRuns == [g \in GallringRun |-> PromisedOf(g)]
ShownDecision == <<ShownRuns, held, GCase \ rows>>

(* What stays of a run when neither its row nor its report changes. *)
LEMMA RunsStayShown ==
  UNCHANGED <<gallring, report>> => UNCHANGED ShownRuns
  BY DEF ShownRuns, PromisedOf

LEMMA RunMovesShown ==
  ASSUME RunsAreTyped, NEW g \in GallringRun, NEW row, gallring' = [gallring EXCEPT ![g] = row],
         \A h \in GallringRun : h # g => report'[h] = report[h],
         NEW noticed, PromisedOf(g)' = noticed
  PROVE  ShownRuns' = [ShownRuns EXCEPT ![g] = noticed]
  <1>1. \A h \in GallringRun : h # g => gallring'[h] = gallring[h]
    BY DEF RunsAreTyped
  <1>2. \A h \in GallringRun : h # g => PromisedOf(h)' = PromisedOf(h)
    BY <1>1 DEF PromisedOf
  <1> QED BY <1>2 DEF ShownRuns

(* A run without a report is seen as its row says. *)
Seen(state, cases, by, approver, executed) ==
  [state |-> state, cases |-> cases, by |-> by, approver |-> approver, executed |-> executed]

LEMMA SeenParts ==
  ASSUME NEW a, NEW b, NEW c, NEW d, NEW e
  PROVE  /\ Seen(a, b, c, d, e).state = a /\ Seen(a, b, c, d, e).cases = b /\ Seen(a, b, c, d, e).by = c
         /\ Seen(a, b, c, d, e).approver = d /\ Seen(a, b, c, d, e).executed = e
  BY DEF Seen

WithState(r, x) == [r EXCEPT !.state = x]
WithApprover(r, x, y) == [r EXCEPT !.state = x, !.approver = y]
WithExecuted(r, x, y) == [r EXCEPT !.state = x, !.executed = y]
WithCases(r, x, y, z) == [r EXCEPT !.state = x, !.cases = y, !.by = z]

LEMMA SeenMoves ==
  ASSUME NEW a, NEW b, NEW c, NEW d, NEW e, NEW x, NEW y, NEW z
  PROVE  /\ WithState(Seen(a, b, c, d, e), x) = Seen(x, b, c, d, e)
         /\ WithApprover(Seen(a, b, c, d, e), x, y) = Seen(x, b, c, y, e)
         /\ WithExecuted(Seen(a, b, c, d, e), x, y) = Seen(x, b, c, d, y)
         /\ WithCases(Seen(a, b, c, d, e), x, y, z) = Seen(x, y, z, d, e)
  <1>1. [Seen(a, b, c, d, e) EXCEPT !.state = x] = Seen(x, b, c, d, e)
    BY DEF Seen
  <1>2. [Seen(a, b, c, d, e) EXCEPT !.state = x, !.approver = y] = Seen(x, b, c, y, e)
    <2>1. [Seen(a, b, c, d, e) EXCEPT !.state = x, !.approver = y] = [[Seen(a, b, c, d, e) EXCEPT !.state = x] EXCEPT !.approver = y]
      BY Zenon
    <2>2. [Seen(x, b, c, d, e) EXCEPT !.approver = y] = Seen(x, b, c, y, e)
      BY DEF Seen
    <2> QED BY <1>1, <2>1, <2>2
  <1>3. [Seen(a, b, c, d, e) EXCEPT !.state = x, !.executed = y] = Seen(x, b, c, d, y)
    <2>1. [Seen(a, b, c, d, e) EXCEPT !.state = x, !.executed = y] = [[Seen(a, b, c, d, e) EXCEPT !.state = x] EXCEPT !.executed = y]
      BY Zenon
    <2>2. [Seen(x, b, c, d, e) EXCEPT !.executed = y] = Seen(x, b, c, d, y)
      BY DEF Seen
    <2> QED BY <1>1, <2>1, <2>2
  <1>4. [Seen(a, b, c, d, e) EXCEPT !.state = x, !.cases = y, !.by = z] = Seen(x, y, z, d, e)
    <2>1. [Seen(a, b, c, d, e) EXCEPT !.state = x, !.cases = y, !.by = z]
          = [[[Seen(a, b, c, d, e) EXCEPT !.state = x] EXCEPT !.cases = y] EXCEPT !.by = z]
      BY Zenon
    <2>2. [Seen(x, b, c, d, e) EXCEPT !.cases = y] = Seen(x, y, c, d, e)
      BY DEF Seen
    <2>3. [Seen(x, y, c, d, e) EXCEPT !.by = z] = Seen(x, y, z, d, e)
      BY DEF Seen
    <2> QED BY <1>1, <2>1, <2>2, <2>3
  <1> QED BY <1>1, <1>2, <1>3, <1>4 DEF WithState, WithApprover, WithExecuted, WithCases

LEMMA RunIsSeen ==
  ASSUME RunsAreTyped, NEW g \in GallringRun, report[g] # "partial"
  PROVE  PromisedOf(g) = Seen(gallring[g].state, ToSet(gallring[g].cases), gallring[g].by, gallring[g].approver,
                              gallring[g].executed)
  BY Zenon DEF PromisedOf, Seen

LEMMA ShownIsSeen ==
  \A g \in GallringRun : ShownRuns[g] = PromisedOf(g)
  BY DEF ShownRuns

LEMMA RunIsSeenLater ==
  ASSUME RunsAreTyped, NEW g \in GallringRun, NEW to, SetState(g, to), report'[g] # "partial"
  PROVE  PromisedOf(g)' = Seen(to, ToSet(gallring[g].cases), gallring[g].by, gallring[g].approver,
                               gallring[g].executed)
  <1>1. gallring'[g] = [gallring[g] EXCEPT !.state = to] /\ gallring[g] \in GallringRow
    BY DEF SetState, RunsAreTyped
  <1>2. /\ gallring'[g].state = to /\ gallring'[g].cases = gallring[g].cases /\ gallring'[g].by = gallring[g].by
        /\ gallring'[g].approver = gallring[g].approver
    BY <1>1 DEF GallringRow
  <1>3. gallring'[g].executed = gallring[g].executed
    BY <1>1 DEF GallringRow
  <1> QED BY <1>2, <1>3, Zenon DEF PromisedOf, Seen

LEMMA StateMovesShown ==
  ASSUME RunsAreTyped, NEW g \in GallringRun, NEW row, gallring' = [gallring EXCEPT ![g] = row],
         \A h \in GallringRun : h # g => report'[h] = report[h],
         NEW to, PromisedOf(g)' = WithState(ShownRuns[g], to)
  PROVE  ShownRuns' = [ShownRuns EXCEPT ![g].state = to]
  <1>1. PICK noticed : noticed = WithState(ShownRuns[g], to)
    OBVIOUS
  <1>2. ShownRuns' = [ShownRuns EXCEPT ![g] = noticed]
    BY <1>1, RunMovesShown
  <1> QED BY <1>1, <1>2 DEF WithState, ShownRuns

LEMMA PromiseInit == RetentionInit => Promised!GallringPromiseInit
  <1> SUFFICES ASSUME RetentionInit PROVE Promised!GallringPromiseInit
    OBVIOUS
  <1>1. ASSUME NEW g \in GallringRun PROVE PromisedOf(g) = Promised!NotQueued
    <2>1. gallring[g] = [state |-> "none", cases |-> <<>>, by |-> GNone, approver |-> GNone, executed |-> FALSE]
          /\ report[g] = "none"
      BY DEF RetentionInit
    <2>2. gallring[g].state = "none" /\ gallring[g].cases = <<>> /\ gallring[g].by = GNone
          /\ gallring[g].approver = GNone /\ gallring[g].executed = FALSE
      BY <2>1
    <2> QED BY <2>1, <2>2, CaseListsAreLists, Zenon DEF PromisedOf, Promised!NotQueued
  <1>2. held = {} /\ GCase \ rows = {}
    BY DEF RetentionInit
  <1> QED BY <1>1, <1>2 DEF Promised!GallringPromiseInit

(* The steps of the officials. *)
LEMMA QueueIsPromised ==
  ASSUME RetentionInv, NEW g \in GallringRun, NEW who \in Official, NEW cases \in CaseLists,
         QueueGallring(g, who, cases)
  PROVE  Promised!PlanGallring(g)
  <1>n. PICK no : no = FALSE
    OBVIOUS
  <1>t. RunsAreTyped /\ RunsAreSound
    BY DEF RetentionInv
  <1>1. /\ gallring[g].state = "none" /\ ToSet(cases) \subseteq Eligible /\ UNCHANGED <<held, rows, report>>
        /\ gallring' = [gallring EXCEPT ![g] = Seen("PLANNED", cases, who, GNone, no)]
    BY <1>n, Zenon DEF QueueGallring, Seen
  <1>2. report[g] = "none" /\ report'[g] = "none"
    BY <1>t, <1>1 DEF RunsAreSound
  <1>3. ShownRuns[g].state = "none"
    BY <1>t, <1>1, <1>2, RunIsSeen, ShownIsSeen, SeenParts
  <1>4. ToSet(cases) \in (SUBSET (GCase \ held)) \ {{}}
    BY <1>1, CaseListsAreLists DEF Eligible, DecideRetention
  <1>5. gallring'[g] = Seen("PLANNED", cases, who, GNone, no)
    BY <1>t, <1>1 DEF RunsAreTyped
  <1>6. PromisedOf(g)' = Seen("PLANNED", ToSet(cases), who, GNone, no)
    <2>1. /\ gallring'[g].state = "PLANNED" /\ gallring'[g].cases = cases /\ gallring'[g].by = who
          /\ gallring'[g].approver = GNone /\ gallring'[g].executed = no
      BY <1>5, SeenParts
    <2> QED BY <1>2, <2>1, Zenon DEF PromisedOf, Seen
  <1>7. Seen("PLANNED", ToSet(cases), who, GNone, no)
        = [Promised!NotQueued EXCEPT !.state = "PLANNED", !.cases = ToSet(cases), !.by = who]
    <2>1. Promised!NotQueued = Seen("none", {}, GNone, GNone, no)
      BY <1>n, Zenon DEF Promised!NotQueued, Seen
    <2>2. WithCases(Seen("none", {}, GNone, GNone, no), "PLANNED", ToSet(cases), who)
          = Seen("PLANNED", ToSet(cases), who, GNone, no)
      BY SeenMoves
    <2> QED BY <2>1, <2>2, Zenon DEF WithCases
  <1>8. ShownRuns' = [ShownRuns EXCEPT ![g] = Seen("PLANNED", ToSet(cases), who, GNone, no)]
    BY <1>t, <1>1, <1>6, RunMovesShown
  <1>9. UNCHANGED <<held, GCase \ rows>>
    BY <1>1
  <1>10. ShownRuns' = [ShownRuns EXCEPT ![g] =
                        [Promised!NotQueued EXCEPT !.state = "PLANNED", !.cases = ToSet(cases), !.by = who]]
    BY <1>7, <1>8
  <1> QED BY <1>3, <1>4, <1>9, <1>10, Zenon DEF Promised!PlanGallring, ShownRuns

LEMMA ApprovalIsPromised ==
  ASSUME RetentionInv, NEW g \in GallringRun, NEW who \in Official, ApproveGallring(g, who)
  PROVE  Promised!ApproveGallring(g)
  <1>t. RunsAreTyped /\ RunsAreSound
    BY DEF RetentionInv
  <1>1. /\ gallring[g].state = "PLANNED" /\ who # gallring[g].by /\ UNCHANGED <<held, rows, report>>
        /\ gallring' = [gallring EXCEPT ![g].state = "APPROVED", ![g].approver = who]
    BY DEF ApproveGallring
  <1>2. report[g] = "none" /\ report'[g] = "none"
    BY <1>t, <1>1 DEF RunsAreSound
  <1>3. ShownRuns[g] = Seen("PLANNED", ToSet(gallring[g].cases), gallring[g].by, gallring[g].approver,
                            gallring[g].executed)
    BY <1>t, <1>1, <1>2, RunIsSeen, ShownIsSeen
  <1> DEFINE row == [gallring[g] EXCEPT !.state = "APPROVED", !.approver = who]
             noticed == Seen("APPROVED", ToSet(gallring[g].cases), gallring[g].by, who, gallring[g].executed)
  <1>4. gallring' = [gallring EXCEPT ![g] = row] /\ gallring'[g] = row
    BY <1>t, <1>1 DEF RunsAreTyped
  <1>5. row.state = "APPROVED" /\ row.approver = who /\ row.cases = gallring[g].cases /\ row.by = gallring[g].by
        /\ row.executed = gallring[g].executed
    BY <1>t DEF RunsAreTyped, GallringRow
  <1>6. PICK to : to = noticed
    OBVIOUS
  <1> HIDE DEF row
  <1>7. PromisedOf(g)' = to
    BY <1>2, <1>4, <1>5, <1>6, Zenon DEF PromisedOf, Seen
  <1>8. ShownRuns' = [ShownRuns EXCEPT ![g] = to]
    BY <1>t, <1>1, <1>4, <1>7, RunMovesShown
  <1>9. to = [ShownRuns[g] EXCEPT !.state = "APPROVED", !.approver = who]
    <2>1. WithApprover(ShownRuns[g], "APPROVED", who) = noticed
      BY <1>3, SeenMoves, SMTT(30)
    <2> QED BY <1>6, <2>1, Zenon DEF WithApprover
  <1>10. ShownRuns' = [ShownRuns EXCEPT ![g].state = "APPROVED", ![g].approver = who]
    BY <1>8, <1>9 DEF ShownRuns
  <1>11. UNCHANGED <<held, GCase \ rows>>
    BY <1>1
  <1>12. ShownRuns[g].state = "PLANNED" /\ who \in Official \ {ShownRuns[g].by}
    BY <1>1, <1>3, SeenParts
  <1> QED BY <1>10, <1>11, <1>12, Zenon DEF Promised!ApproveGallring, ShownRuns


(* The steps of a worker.  When a run begins its holds are asked for once more. *)
LEMMA BeginIsPromised ==
  ASSUME RetentionInv, NEW w \in GWorker, BeginExecution(w)
  PROVE  UNCHANGED ShownDecision \/ Promised!BeginGallringExecution(gworker[w].run)
  <1>t. RunsAreTyped /\ RunsAreSound /\ ErasureIsDue
    BY DEF RetentionInv
  <1>g. PICK g : g = gworker[w].run
    OBVIOUS
  <1>1. gworker[w].at = "begin" /\ UNCHANGED <<held, rows, report>>
    BY DEF BeginExecution
  <1>2. g \in GallringRun
    BY <1>g, <1>t, <1>1 DEF ErasureIsDue, MemoryIsDue
  <1>3. UNCHANGED <<held, GCase \ rows>>
    BY <1>1
  <1>4. CASE UNCHANGED gallring
    BY <1>1, <1>3, <1>4, RunsStayShown DEF ShownDecision
  <1>5. CASE GallringMay(g, "EXECUTING") /\ Execute(g)
    <2> DEFINE row == [gallring[g] EXCEPT !.state = "EXECUTING", !.executed = TRUE]
    <2>1. /\ gallring[g].state \in {"APPROVED", "EXECUTING"}
          /\ gallring[g].state = "APPROVED" => held \cap ToSet(gallring[g].cases) = {}
      BY <1>5 DEF GallringMay
    <2>2. report[g] = "none" /\ report'[g] = "none"
      BY <1>t, <1>1, <1>2, <2>1 DEF RunsAreSound
    <2>3. gallring' = [gallring EXCEPT ![g] = row] /\ gallring'[g] = row
      BY <1>t, <1>2, <1>5 DEF Execute, RunsAreTyped
    <2>4. /\ row.state = "EXECUTING" /\ row.approver = gallring[g].approver /\ row.cases = gallring[g].cases
          /\ row.by = gallring[g].by
      BY <1>t, <1>2 DEF RunsAreTyped, GallringRow
    <2>5. row.executed = TRUE
      BY <1>t, <1>2 DEF RunsAreTyped, GallringRow
    <2>y. PICK yes : yes = TRUE
      OBVIOUS
    <2>6. PICK to : to = Seen("EXECUTING", ToSet(gallring[g].cases), gallring[g].by, gallring[g].approver, yes)
      OBVIOUS
    <2> HIDE DEF row
    <2>7. PromisedOf(g)' = to
      BY <2>2, <2>3, <2>4, <2>5, <2>6, <2>y, Zenon DEF PromisedOf, Seen
    <2>8. ShownRuns' = [ShownRuns EXCEPT ![g] = to]
      BY <1>t, <1>1, <1>2, <2>3, <2>7, RunMovesShown
    <2>9. ShownRuns[g] = Seen(gallring[g].state, ToSet(gallring[g].cases), gallring[g].by, gallring[g].approver,
                              gallring[g].executed)
      BY <1>t, <1>2, <2>2, RunIsSeen, ShownIsSeen
    <2>10. CASE gallring[g].state = "APPROVED"
      <3>1. ShownRuns[g].state = "APPROVED" /\ ShownRuns[g].cases \cap held = {}
        BY <2>1, <2>9, <2>10, SeenParts
      <3>2. to = WithExecuted(ShownRuns[g], "EXECUTING", yes)
        <4>1. WithExecuted(Seen(gallring[g].state, ToSet(gallring[g].cases), gallring[g].by, gallring[g].approver,
                                gallring[g].executed), "EXECUTING", yes)
              = Seen("EXECUTING", ToSet(gallring[g].cases), gallring[g].by, gallring[g].approver, yes)
          BY SeenMoves
        <4> QED BY <2>6, <2>9, <4>1, Zenon
      <3>3. ShownRuns' = [ShownRuns EXCEPT ![g] = [ShownRuns[g] EXCEPT !.state = "EXECUTING", !.executed = yes]]
        BY <2>8, <3>2 DEF WithExecuted
      <3>4. ShownRuns' = [ShownRuns EXCEPT ![g].state = "EXECUTING", ![g].executed = yes]
        BY <3>3 DEF ShownRuns
      <3>5. Promised!BeginGallringExecution(g)
        BY <1>3, <2>y, <3>1, <3>4, Zenon DEF Promised!BeginGallringExecution, ShownRuns
      <3> QED BY <1>g, <3>5
    <2>11. CASE gallring[g].state = "EXECUTING"
      <3>1. gallring[g].executed = yes
        <4>1. gallring[g].executed /\ gallring[g].executed \in BOOLEAN
          BY <1>t, <1>2, <2>11 DEF RunsAreSound, RunsAreTyped, GallringRow
        <4> QED BY <4>1, <2>y
      <3>2. to = ShownRuns[g]
        BY <2>6, <2>9, <2>11, <3>1
      <3>3. ShownRuns' = ShownRuns
        BY <1>2, <2>8, <3>2 DEF ShownRuns
      <3> QED BY <1>3, <3>3 DEF ShownDecision
    <2> QED BY <2>1, <2>10, <2>11
  <1> QED BY <1>g, <1>4, <1>5 DEF BeginExecution

LEMMA ErasureIsPromised ==
  ASSUME RetentionInv, NEW w \in GWorker, EraseRows(w)
  PROVE  UNCHANGED ShownDecision \/ \E c \in GCase, g \in GallringRun : Promised!Erase(g, c)
  <1>t. RunsAreTyped /\ RunsAreSound /\ ErasureIsDue
    BY DEF RetentionInv
  <1>1. gworker[w].at = "rows" /\ UNCHANGED <<held, gallring, report>>
    BY DEF EraseRows
  <1>2. ShownRuns' = ShownRuns
    BY <1>1, RunsStayShown
  <1>3. CASE rows' = rows
    BY <1>1, <1>2, <1>3 DEF ShownDecision
  <1>4. CASE rows' = rows \ {Head(gworker[w].left)}
    <2>1. PICK c, g : c = Head(gworker[w].left) /\ g = gworker[w].run
      OBVIOUS
    <2>2. gworker[w] \in GallringMemory /\ MemoryIsDue(gworker[w])
      BY <1>t DEF RunsAreTyped, ErasureIsDue
    <2>3. /\ g \in GallringRun /\ gallring[g].executed /\ gworker[w].left # <<>> /\ gworker[w].left \in Seq(GCase)
          /\ ToSet(gworker[w].left) \subseteq ToSet(gallring[g].cases)
      BY <1>1, <2>1, <2>2 DEF MemoryIsDue, AtErasure, GallringMemory
    <2>4. c \in ToSet(gallring[g].cases) /\ c \in GCase
      BY <2>1, <2>3, HeadAndTail
    <2>5. (GCase \ rows)' = (GCase \ rows) \cup {c}
      BY <1>4, <2>1, <2>4
    <2>6. ShownRuns[g].executed = gallring[g].executed /\ ShownRuns[g].cases = ToSet(gallring[g].cases)
      <3>1. PromisedOf(g).executed = gallring[g].executed /\ PromisedOf(g).cases = ToSet(gallring[g].cases)
        BY Zenon DEF PromisedOf
      <3> QED BY <2>3, <3>1, ShownIsSeen, Zenon
    <2>7. ShownRuns[g].executed /\ c \in ShownRuns[g].cases
      BY <2>3, <2>4, <2>6, Zenon
    <2>8. Promised!Erase(g, c)
      BY <1>1, <1>2, <2>5, <2>7, Zenon DEF Promised!Erase, ShownRuns
    <2> QED BY <2>3, <2>4, <2>8
  <1> QED BY <1>3, <1>4 DEF EraseRows

LEMMA AbandonIsPromised ==
  ASSUME RetentionInv, NEW w \in GWorker, AbandonGallring(w)
  PROVE  UNCHANGED ShownDecision \/ Promised!AbandonGallring(gworker[w].run)
  <1>t. RunsAreTyped /\ RunsAreSound /\ ErasureIsDue
    BY DEF RetentionInv
  <1>g. PICK g : g = gworker[w].run
    OBVIOUS
  <1>1. gworker[w].at = "abandon" /\ UNCHANGED <<held, rows, report>>
    BY DEF AbandonGallring
  <1>2. g \in GallringRun
    BY <1>g, <1>t, <1>1 DEF ErasureIsDue, MemoryIsDue
  <1>3. UNCHANGED <<held, GCase \ rows>>
    BY <1>1
  <1>4. CASE UNCHANGED gallring
    BY <1>1, <1>3, <1>4, RunsStayShown DEF ShownDecision
  <1>5. CASE GallringMay(g, "ABANDONED") /\ SetState(g, "ABANDONED")
    <2>1. gallring[g].state \notin {"none", "REPORTED"}
      BY <1>5 DEF GallringMay, Active
    <2>2. report[g] = "none" /\ report'[g] = "none"
      BY <1>t, <1>1, <1>2, <2>1 DEF RunsAreSound
    <2>3. /\ \A h \in GallringRun : h # g => report'[h] = report[h]
          /\ gallring' = [gallring EXCEPT ![g] = [gallring[g] EXCEPT !.state = "ABANDONED"]]
      BY <1>1, <1>5 DEF SetState
    <2>4. PromisedOf(g)' = Seen("ABANDONED", ToSet(gallring[g].cases), gallring[g].by, gallring[g].approver,
                                gallring[g].executed)
      BY <1>t, <1>2, <1>5, <2>2, RunIsSeenLater
    <2>5. ShownRuns[g] = Seen(gallring[g].state, ToSet(gallring[g].cases), gallring[g].by, gallring[g].approver,
                              gallring[g].executed)
      BY <1>t, <1>2, <2>2, RunIsSeen, ShownIsSeen
    <2>6. PromisedOf(g)' = WithState(ShownRuns[g], "ABANDONED")
      BY <2>4, <2>5, SeenMoves
    <2>7. ShownRuns' = [ShownRuns EXCEPT ![g].state = "ABANDONED"]
      BY <1>t, <1>2, <2>3, <2>6, StateMovesShown
    <2>8. ShownRuns[g].state \notin {"none", "REPORTED"}
      BY <2>1, <2>5, SeenParts
    <2>9. Promised!AbandonGallring(g)
      BY <1>3, <2>7, <2>8, Zenon DEF Promised!AbandonGallring, Promised!Becomes, ShownRuns
    <2> QED BY <1>g, <2>9
  <1> QED BY <1>g, <1>4, <1>5 DEF AbandonGallring

(* A report says that the run is complete only when nothing it was queued for has
   rows any more; the worker that commits it has gone through every case.         *)
LEMMA ReportIsPromised ==
  ASSUME RetentionInv, NEW w \in GWorker, CommitReport(w)
  PROVE  UNCHANGED ShownDecision \/ Promised!CompleteGallring(gworker[w].run)
  <1>t. RunsAreTyped /\ RunsAreSound /\ ErasureIsDue
    BY DEF RetentionInv
  <1>g. PICK g : g = gworker[w].run
    OBVIOUS
  <1>1. gworker[w].at = "commit" /\ UNCHANGED <<held, rows>>
    BY DEF CommitReport
  <1>2. MemoryIsDue(gworker[w]) /\ g \in GallringRun
    BY <1>g, <1>t, <1>1 DEF ErasureIsDue, MemoryIsDue
  <1>3. UNCHANGED <<held, GCase \ rows>>
    BY <1>1
  <1>4. CASE UNCHANGED <<gallring, report>>
    BY <1>3, <1>4, RunsStayShown DEF ShownDecision
  <1>5. CASE /\ GallringMay(g, "VERIFIED") /\ SetState(g, "REPORTED")
             /\ report' = [report EXCEPT ![g] = IF @ = "none" THEN ReportOf(w) ELSE @]
    <2>1. gallring[g].state = "EXECUTING" /\ gallring[g] \in GallringRow
      BY <1>t, <1>2, <1>5 DEF GallringMay, RunsAreTyped, GallringRow, Active
    <2>2. report[g] = "none" /\ gallring[g].approver # GNone
      BY <1>t, <1>2, <2>1 DEF RunsAreSound
    <2>3. /\ report'[g] = ReportOf(w) /\ report'[g] \in {"complete", "partial"}
          /\ \A h \in GallringRun : h # g => report'[h] = report[h]
      BY <1>t, <1>2, <1>5, <2>2 DEF RunsAreTyped, ReportOf
    <2>4. gallring' = [gallring EXCEPT ![g] = [gallring[g] EXCEPT !.state = "REPORTED"]]
      BY <1>5 DEF SetState
    <2>5. ShownRuns[g] = Seen("EXECUTING", ToSet(gallring[g].cases), gallring[g].by, gallring[g].approver,
                              gallring[g].executed)
      BY <1>t, <1>2, <2>1, <2>2, RunIsSeen, ShownIsSeen
    <2>6. CASE report'[g] = "complete"
      <3>1. PromisedOf(g)' = Seen("REPORTED", ToSet(gallring[g].cases), gallring[g].by, gallring[g].approver,
                                  gallring[g].executed)
        BY <1>t, <1>2, <1>5, <2>6, RunIsSeenLater
      <3>2. PromisedOf(g)' = WithState(ShownRuns[g], "REPORTED")
        BY <2>5, <3>1, SeenMoves
      <3>3. ShownRuns' = [ShownRuns EXCEPT ![g].state = "REPORTED"]
        BY <1>t, <1>2, <2>3, <2>4, <3>2, StateMovesShown
      <3>4. ToSet(gallring[g].cases) \subseteq GCase \ rows
        <4>1. \A c \in ToSet(gallring[g].cases) : c \in rows => c \in ToSet(gworker[w].left)
          BY <1>g, <1>1, <1>2 DEF MemoryIsDue, AtErasure
        <4>2. ToSet(gworker[w].left) = {}
          BY <1>1, <1>2, CaseListsAreLists DEF MemoryIsDue
        <4>3. ToSet(gallring[g].cases) \subseteq GCase
          BY <2>1, CaseListsAreLists DEF GallringRow
        <4> QED BY <4>1, <4>2, <4>3
      <3>5. /\ ShownRuns[g].state = "EXECUTING" /\ ShownRuns[g].cases \subseteq GCase \ rows
            /\ ShownRuns[g].approver # GNone
        BY <2>2, <2>5, <3>4, SeenParts
      <3>6. Promised!CompleteGallring(g)
        BY <1>3, <3>3, <3>5, Zenon
           DEF Promised!CompleteGallring, Promised!VerifyGallringExecution, Promised!Becomes, ShownRuns
      <3> QED BY <1>g, <3>6
    <2>7. CASE report'[g] = "partial"
      <3>1. gallring'[g] = [gallring[g] EXCEPT !.state = "REPORTED"]
        BY <1>t, <1>2, <2>4 DEF RunsAreTyped
      <3>2. /\ gallring'[g].cases = gallring[g].cases /\ gallring'[g].by = gallring[g].by
            /\ gallring'[g].approver = gallring[g].approver
        BY <2>1, <3>1 DEF GallringRow
      <3>3. gallring'[g].executed = gallring[g].executed
        BY <2>1, <3>1 DEF GallringRow
      <3>4. PromisedOf(g)' = ShownRuns[g]
        BY <2>5, <2>7, <3>2, <3>3, Zenon DEF PromisedOf, Seen
      <3>5. PICK to : to = ShownRuns[g]
        OBVIOUS
      <3>6. ShownRuns' = [ShownRuns EXCEPT ![g] = to]
        BY <1>t, <1>2, <2>3, <2>4, <3>4, <3>5, RunMovesShown
      <3>7. ShownRuns' = ShownRuns
        BY <1>2, <3>5, <3>6 DEF ShownRuns
      <3> QED BY <1>3, <3>7 DEF ShownDecision
    <2> QED BY <2>3, <2>6, <2>7
  <1> QED BY <1>g, <1>4, <1>5 DEF CommitReport

(* A hold is placed or released; everything else the decision layer does not see. *)
LEMMA HoldIsPromised ==
  ASSUME NEW c \in GCase, CaseCloses(c) \/ PeriodElapses(c) \/ PlaceHold(c) \/ ReleaseHold(c)
  PROVE  UNCHANGED ShownDecision \/ Promised!Demand(c)
  <1>1. UNCHANGED <<rows, gallring, report>>
    BY DEF CaseCloses, PeriodElapses, PlaceHold, ReleaseHold
  <1>2. UNCHANGED <<ShownRuns, GCase \ rows>>
    BY <1>1, RunsStayShown
  <1>3. CASE held' = held
    BY <1>2, <1>3 DEF ShownDecision
  <1>4. CASE held' = IF c \in held THEN held \ {c} ELSE held \cup {c}
    BY <1>2, <1>4, Zenon DEF Promised!Demand, ShownRuns
  <1> QED BY <1>3, <1>4 DEF CaseCloses, PeriodElapses, PlaceHold, ReleaseHold

LEMMA UnseenStep ==
  ASSUME UNCHANGED <<held, rows, gallring, report>>
  PROVE  UNCHANGED ShownDecision
  BY RunsStayShown DEF ShownDecision

LEMMA RetentionStepIsPromised ==
  RetentionInv /\ [RetentionNext]_retentionVars => UNCHANGED ShownDecision \/ Promised!GallringPromiseNext
  <1> SUFFICES ASSUME RetentionInv, [RetentionNext]_retentionVars
               PROVE  UNCHANGED ShownDecision \/ Promised!GallringPromiseNext
    OBVIOUS
  <1>0. \A w \in GWorker : MemoryIsDue(gworker[w])
    BY DEF RetentionInv, ErasureIsDue
  <1>1. ASSUME NEW c \in GCase, CaseCloses(c) \/ PeriodElapses(c) \/ PlaceHold(c) \/ ReleaseHold(c)
        PROVE  UNCHANGED ShownDecision \/ Promised!GallringPromiseNext
    BY <1>1, HoldIsPromised, Zenon DEF Promised!GallringPromiseNext
  <1>2. ASSUME NEW g \in GallringRun, NEW who \in Official, NEW cases \in CaseLists, QueueGallring(g, who, cases)
        PROVE  Promised!GallringPromiseNext
    BY <1>2, QueueIsPromised, Zenon DEF Promised!GallringPromiseNext
  <1>3. ASSUME NEW g \in GallringRun, NEW who \in Official, ApproveGallring(g, who)
        PROVE  Promised!GallringPromiseNext
    BY <1>3, ApprovalIsPromised, Zenon DEF Promised!GallringPromiseNext
  <1>4. ASSUME NEW w \in GWorker, BeginExecution(w)
        PROVE  UNCHANGED ShownDecision \/ Promised!GallringPromiseNext
    <2>1. gworker[w].run \in GallringRun
      BY <1>0, <1>4 DEF BeginExecution, MemoryIsDue
    <2> QED BY <1>4, <2>1, BeginIsPromised, Zenon DEF Promised!GallringPromiseNext
  <1>5. ASSUME NEW w \in GWorker, EraseRows(w)
        PROVE  UNCHANGED ShownDecision \/ Promised!GallringPromiseNext
    BY <1>5, ErasureIsPromised, Zenon DEF Promised!GallringPromiseNext
  <1>6. ASSUME NEW w \in GWorker, AbandonGallring(w)
        PROVE  UNCHANGED ShownDecision \/ Promised!GallringPromiseNext
    <2>1. gworker[w].run \in GallringRun
      BY <1>0, <1>6 DEF AbandonGallring, MemoryIsDue
    <2> QED BY <1>6, <2>1, AbandonIsPromised, Zenon DEF Promised!GallringPromiseNext
  <1>7. ASSUME NEW w \in GWorker, CommitReport(w)
        PROVE  UNCHANGED ShownDecision \/ Promised!GallringPromiseNext
    <2>1. gworker[w].run \in GallringRun
      BY <1>0, <1>7 DEF CommitReport, MemoryIsDue
    <2> QED BY <1>7, <2>1, ReportIsPromised, Zenon DEF Promised!GallringPromiseNext
  <1>8. ASSUME NEW w \in GWorker,
               \/ LoadGallring(w) \/ EraseObjects(w) \/ StoreReport(w) \/ GWorkerLost(w)
               \/ \E g \in GallringRun : ClaimGallring(w, g)
        PROVE  UNCHANGED ShownDecision
    <2>1. UNCHANGED <<held, rows, gallring, report>>
      BY <1>8 DEF LoadGallring, EraseObjects, StoreReport, GWorkerLost, ClaimGallring
    <2> QED BY <2>1, UnseenStep
  <1>9. ASSUME NEW g \in GallringRun, GLeaseExpires(g)
        PROVE  UNCHANGED ShownDecision
    <2>1. UNCHANGED <<held, rows, gallring, report>>
      BY <1>9 DEF GLeaseExpires
    <2> QED BY <2>1, UnseenStep
  <1>10. CASE UNCHANGED retentionVars
    BY <1>10, UnseenStep DEF retentionVars
  <1> QED BY <1>1, <1>2, <1>3, <1>4, <1>5, <1>6, <1>7, <1>8, <1>9, <1>10 DEF RetentionNext, GWorkerStep

(* Gallring keeps what the decision layer promises: no run is queued over a held
   case or approved by who asked for it, the holds are asked for again when it
   begins, only what was queued loses its rows, and no run is reported complete
   before everything it was queued for has lost them.                             *)
THEOREM GallringPromiseKept == RetentionSpec => KeepsGallringPromise
  <1>1. RetentionInv /\ [RetentionNext]_retentionVars => [Promised!GallringPromiseNext]_(Promised!promiseVars)
    BY RetentionStepIsPromised DEF Promised!promiseVars, ShownDecision, ShownRuns
  <1> QED BY <1>1, PromiseInit, RetentionInvInit, RetentionInvNext, PTL
          DEF RetentionSpec, KeepsGallringPromise, Promised!GallringPromiseSpec

---------------------------------------------------------------------------------
(* The export.  What the package of a case proves, whoever builds it and when, and
   which cases it may be built of: of what is read only the date of closing is not
   there from the start.                                                           *)
AgentsKnown == \A role \in DOMAIN AgentsFor(Archivist, Null, "tenant") : AgentsFor(Archivist, Null, "tenant")[role] # Null

Preservable(c) ==
  /\ Dossier[c].documents # {} /\ Null \notin VerifiedProfiles(Dossier[c].documents)
  /\ ~SignatureEvidenceMissing(Dossier[c])
  /\ \A s \in Dossier[c].signatures : s.signer \in Dossier[c].identities
  /\ PathsValid(PackageFiles[c]) /\ \E e \in Entries(PackageFiles[c]) : e.category = "content"
  /\ AgentsKnown

Exportable(c) == acase[c].closedAt /\ Preservable(c)

Proves(c, package) ==
  /\ \E e \in package.entries : e.category = "content"
  /\ \A d \in Dossier[c].documents : d.profile # Null
  /\ \A s \in Dossier[c].signatures : \E i \in package.identities : i.signer = s.signer
  /\ LevelOf[c] \in {"SKYDDAD_FOLKBOKFORING", "FINGERADE_PERSONUPPGIFTER"} =>
        \A i \in package.identities : i.identifier = "placeholder"

(* Neither of the two strictest levels discloses a personal number to the archive,
   with an assessment or without.                                                  *)
LEMMA StrictestIsMasked ==
  ASSUME NEW level \in {"SKYDDAD_FOLKBOKFORING", "FINGERADE_PERSONUPPGIFTER"}, NEW fields, NEW assessment \in BOOLEAN
  PROVE  Disclosed(NormaliseProtectionLevel(level), "ARCHIVE_EXPORT", fields, assessment) = {}
  <1>1. NormaliseProtectionLevel(level) = level
    BY DEF NormaliseProtectionLevel, ProtectionLevel
  <1>2. "ARCHIVE_EXPORT" \notin NeverIdentifying /\ "ARCHIVE_EXPORT" \notin {"EVIDENCE_PACKAGE", "AUDIT_LOG"} /\ level # "NONE"
    BY DEF NeverIdentifying
  <1>3. Allowed(level, "ARCHIVE_EXPORT") = {}
    BY <1>2, Zenon DEF Allowed
  <1>4. level # "SEKRETESSMARKERING" /\ "ARCHIVE_EXPORT" # "SCREEN_AUTHORISED"
    OBVIOUS
  <1>5. RequiresAssessment(level, "ARCHIVE_EXPORT") = {}
    BY <1>4, Zenon DEF RequiresAssessment
  <1> QED BY <1>1, <1>3, <1>5 DEF Disclosed

LEMMA ArchivableCases ==
  ASSUME NEW case, case.closed \in BOOLEAN, case.trail # 0
  PROVE  AssertArchivable(case) = Null <=>
           /\ case.closed /\ case.documents # {} /\ Null \notin VerifiedProfiles(case.documents)
           /\ ~SignatureEvidenceMissing(case)
           /\ \A s \in case.signatures : s.signer \in case.identities
  BY NullAssumption DEF AssertArchivable, RefusalCode

LEMMA PackagesOf ==
  ASSUME NEW case, NEW files, NEW level, NEW assessment
  PROVE  LET package == BuildArchivePackage(case, files, level, assessment) IN
         /\ package.refused = Null <=> /\ AssertArchivable(case) = Null
                                       /\ PathsValid(files) /\ \E e \in Entries(files) : e.category = "content"
         /\ package.refused = Null => /\ package.entries = Entries(files)
                                      /\ package.identities = MaskedIdentifiers(case, level, assessment)
  <1> DEFINE package == BuildArchivePackage(case, files, level, assessment)
  <1>0. Null \notin {"ARCHIVE_PATH_INVALID", "ARCHIVE_DOCUMENT_MISSING"}
    BY NullAssumption DEF RefusalCode
  <1>1. CASE AssertArchivable(case) # Null
    <2>1. package = [refused |-> AssertArchivable(case)]
      BY <1>1, Zenon DEF BuildArchivePackage
    <2> QED BY <1>1, <2>1
  <1>2. CASE AssertArchivable(case) = Null /\ ~PathsValid(files)
    <2>1. package = [refused |-> "ARCHIVE_PATH_INVALID"]
      BY <1>2, Zenon DEF BuildArchivePackage
    <2> QED BY <1>0, <1>2, <2>1
  <1>3. CASE AssertArchivable(case) = Null /\ PathsValid(files) /\ \A e \in Entries(files) : e.category # "content"
    <2>1. package = [refused |-> "ARCHIVE_DOCUMENT_MISSING"]
      BY <1>3, Zenon DEF BuildArchivePackage
    <2> QED BY <1>0, <1>3, <2>1
  <1>4. CASE AssertArchivable(case) = Null /\ PathsValid(files) /\ \E e \in Entries(files) : e.category = "content"
    <2>1. package = [refused |-> Null, entries |-> Entries(files), mode |-> case.mode,
                     signatures |-> case.signatures, trail |-> case.trail,
                     identities |-> MaskedIdentifiers(case, level, assessment)]
      BY <1>4, Zenon DEF BuildArchivePackage
    <2>2. package.refused = Null /\ package.entries = Entries(files)
          /\ package.identities = MaskedIdentifiers(case, level, assessment)
      BY <2>1
    <2> QED BY <1>4, <2>2
  <1> HIDE DEF package
  <1> QED BY <1>1, <1>2, <1>3, <1>4 DEF package

LEMMA DescriptorsOf ==
  \A package : /\ Described(package).refused = Null <=> AgentsKnown
               /\ AgentsKnown => Described(package).manifest = package
  <1> SUFFICES ASSUME NEW package
               PROVE  /\ Described(package).refused = Null <=> AgentsKnown
                      /\ AgentsKnown => Described(package).manifest = package
    OBVIOUS
  <1> DEFINE agents == AgentsFor(Archivist, Null, "tenant")
  <1>1. CASE ~AgentsKnown
    <2>1. \E role \in DOMAIN agents : agents[role] = Null
      BY <1>1 DEF AgentsKnown
    <2>2. Described(package) = [refused |-> "ARCHIVE_PROFILE_NOT_VERIFIED"]
      BY <2>1, Zenon DEF Described, BuildFgsPackage
    <2> QED BY <1>1, <2>2, NullAssumption DEF RefusalCode
  <1>2. CASE AgentsKnown
    <2>1. ~\E role \in DOMAIN agents : agents[role] = Null
      BY <1>2 DEF AgentsKnown
    <2>2. PICK files : Described(package) = [refused |-> Null, agents |-> agents, manifest |-> package, files |-> files]
      BY <2>1, Zenon DEF Described, BuildFgsPackage
    <2> HIDE DEF agents
    <2> QED BY <1>2, <2>2
  <1> QED BY <1>1, <1>2

(* What is built of a case depends on its trail and on an assessment, whether it is
   built does not.                                                                  *)
LEMMA WhatIsBuilt ==
  ASSUME NEW c \in ACase, acase[c].closedAt \in BOOLEAN, trail[c] # 0
  PROVE  /\ (Built(c).refused = Null /\ Described(Built(c)).refused = Null) <=> Exportable(c)
         /\ Exportable(c) => Proves(c, Built(c))
  <1> DEFINE case == CaseFrom(c)
  <1>1. /\ case.closed = acase[c].closedAt /\ case.trail = trail[c] /\ case.mode = Dossier[c].mode
        /\ case.documents = Dossier[c].documents /\ case.signatures = Dossier[c].signatures
        /\ case.identities = Dossier[c].identities
    BY DEF CaseFrom
  <1> HIDE DEF case
  <1>2. SignatureEvidenceMissing(case) <=> SignatureEvidenceMissing(Dossier[c])
    BY <1>1 DEF SignatureEvidenceMissing
  <1>3. AssertArchivable(case) = Null <=>
           /\ acase[c].closedAt /\ Dossier[c].documents # {} /\ Null \notin VerifiedProfiles(Dossier[c].documents)
           /\ ~SignatureEvidenceMissing(Dossier[c])
           /\ \A s \in Dossier[c].signatures : s.signer \in Dossier[c].identities
    BY <1>1, <1>2, ArchivableCases
  <1>4. PICK assessment \in BOOLEAN : Built(c) = BuildArchivePackage(case, PackageFiles[c], LevelOf[c], assessment)
    <2>1. Built(c) = BuildArchivePackage(case, PackageFiles[c], LevelOf[c], c \in assessed)
      BY DEF Built, case
    <2>2. PICK yes : yes = (c \in assessed)
      OBVIOUS
    <2>3. yes \in BOOLEAN
      BY <2>2
    <2> QED BY <2>1, <2>2, <2>3, Zenon
  <1>5. /\ Built(c).refused = Null <=> /\ AssertArchivable(case) = Null /\ PathsValid(PackageFiles[c])
                                       /\ \E e \in Entries(PackageFiles[c]) : e.category = "content"
        /\ Built(c).refused = Null => /\ Built(c).entries = Entries(PackageFiles[c])
                                      /\ Built(c).identities = MaskedIdentifiers(case, LevelOf[c], assessment)
    BY <1>4, PackagesOf
  <1>6. (Built(c).refused = Null /\ Described(Built(c)).refused = Null) <=> Exportable(c)
    BY <1>3, <1>5, DescriptorsOf DEF Exportable, Preservable
  <1>7. ASSUME Exportable(c) PROVE Proves(c, Built(c))
    <2>1. /\ Built(c).entries = Entries(PackageFiles[c])
          /\ Built(c).identities = MaskedIdentifiers(case, LevelOf[c], assessment) /\ Preservable(c)
      BY <1>5, <1>6, <1>7 DEF Exportable
    <2>2. \A d \in Dossier[c].documents : d.profile # Null
      BY <2>1 DEF Preservable, VerifiedProfiles
    <2>3. \A s \in Dossier[c].signatures : \E i \in Built(c).identities : i.signer = s.signer
      <3> SUFFICES ASSUME NEW s \in Dossier[c].signatures PROVE \E i \in Built(c).identities : i.signer = s.signer
        OBVIOUS
      <3>1. s.signer \in case.identities
        BY <1>1, <2>1 DEF Preservable
      <3>2. PICK shown : [signer |-> s.signer, identifier |-> shown] \in MaskedIdentifiers(case, LevelOf[c], assessment)
        BY <3>1, Zenon DEF MaskedIdentifiers
      <3> QED BY <2>1, <3>2
    <2>4. ASSUME LevelOf[c] \in {"SKYDDAD_FOLKBOKFORING", "FINGERADE_PERSONUPPGIFTER"}, NEW i \in Built(c).identities
          PROVE  i.identifier = "placeholder"
      <3>1. Disclosed(NormaliseProtectionLevel(LevelOf[c]), "ARCHIVE_EXPORT", {"personalNumber"}, assessment) = {}
        BY <2>4, StrictestIsMasked
      <3>2. \E s \in case.identities : i = [signer |-> s, identifier |-> "placeholder"]
        BY <2>1, <2>4, <3>1 DEF MaskedIdentifiers
      <3> QED BY <3>2
    <2> QED BY <2>1, <2>2, <2>3, <2>4 DEF Proves, Preservable
  <1> QED BY <1>6, <1>7

(* The invariant of an export: what a worker has stored is still there when it goes
   on, what it carries was built of a case that may be exported, and a completed row
   tells of just that.  A refused case could not be exported before either, for only
   the trail and the assessments have changed: so no refusal meets a completed row. *)
ExportShape ==
  /\ acase \in [ACase -> [status : {"completed", "cancelled", "archiving", "archived"}, closedAt : BOOLEAN]]
  /\ trail \in [ACase -> Nat \ {0}]
  /\ sip = [c \in ACase |-> sip[c]]
  /\ descriptor = [c \in ACase |-> descriptor[c]]
  /\ exportRow = [c \in ACase |-> [status |-> exportRow[c].status, package |-> exportRow[c].package,
                                   descriptor |-> exportRow[c].descriptor]]
  /\ archiver = [w \in AWorker |-> [case |-> archiver[w].case, at |-> archiver[w].at, built |-> archiver[w].built]]

ExporterIsDue(w) ==
  LET c == archiver[w].case  package == archiver[w].built IN
  /\ archiver[w].at # "idle" => c \in ACase
  /\ archiver[w].at \in {"package", "descriptor", "commit"} => Exportable(c) /\ Proves(c, package)
  /\ archiver[w].at \in {"descriptor", "commit"} => sip[c] = {package}
  /\ archiver[w].at = "commit" => descriptor[c] = {Described(package)}
  /\ archiver[w].at = "refuse" => ~Exportable(c)

RowIsTrue(c) ==
  LET row == exportRow[c] IN
  row.status = "completed" =>
    /\ Exportable(c) /\ Proves(c, row.package)
    /\ sip[c] = {row.package} /\ descriptor[c] = {row.descriptor}
    /\ row.descriptor = Described(row.package)

ArchivedIsExported(c) == acase[c].status = "archived" => exportRow[c].status = "completed"

ArchiveInv ==
  /\ ExportShape
  /\ \A w \in AWorker : ExporterIsDue(w)
  /\ \A c \in ACase : RowIsTrue(c) /\ ArchivedIsExported(c)

(* What is stored under a key stays, and a case is not closed or opened here. *)
StoredStays ==
  \A c \in ACase : /\ acase'[c].closedAt = acase[c].closedAt
                   /\ \A x : sip[c] = {x} => sip'[c] = {x}
                   /\ \A x : descriptor[c] = {x} => descriptor'[c] = {x}

(* While what is stored stays, a worker and a row that do not change need no second look. *)
LEMMA ExportGoesOn ==
  ASSUME ArchiveInv, ExportShape', StoredStays,
         \A w \in AWorker : archiver'[w] = archiver[w] \/ ExporterIsDue(w)',
         \A c \in ACase : exportRow'[c] = exportRow[c] \/ RowIsTrue(c)',
         \A c \in ACase : ArchivedIsExported(c)'
  PROVE  ArchiveInv'
  <1>1. ASSUME NEW c \in ACase PROVE Exportable(c)' <=> Exportable(c)
    BY <1>1 DEF StoredStays, Exportable, Preservable
  <1>2. ASSUME NEW w \in AWorker, archiver'[w] = archiver[w] PROVE ExporterIsDue(w)'
    <2>1. ExporterIsDue(w)
      BY DEF ArchiveInv
    <2>2. PICK c, package, stage : c = archiver[w].case /\ package = archiver[w].built /\ stage = archiver[w].at
      OBVIOUS
    <2>3. archiver'[w].case = c /\ archiver'[w].built = package /\ archiver'[w].at = stage
      BY <1>2, <2>2
    <2>4. CASE c \notin ACase
      <3>1. stage \notin {"package", "descriptor", "commit", "refuse"}  /\ stage = "idle"
        BY <2>1, <2>2, <2>4 DEF ExporterIsDue
      <3> QED BY <2>3, <3>1 DEF ExporterIsDue
    <2>5. CASE c \in ACase
      <3>1. Exportable(c)' <=> Exportable(c)
        BY <1>1, <2>5
      <3>2. (sip[c] = {package} => sip'[c] = {package}) /\ (descriptor[c] = {Described(package)} => descriptor'[c] = {Described(package)})
        BY <2>5 DEF StoredStays
      <3>3. /\ stage \in {"package", "descriptor", "commit"} => Exportable(c) /\ Proves(c, package)
            /\ stage \in {"descriptor", "commit"} => sip[c] = {package}
            /\ stage = "commit" => descriptor[c] = {Described(package)}
            /\ stage = "refuse" => ~Exportable(c)
        BY <2>1, <2>2 DEF ExporterIsDue
      <3> QED BY <2>3, <2>5, <3>1, <3>2, <3>3 DEF ExporterIsDue
    <2> QED BY <2>4, <2>5
  <1>3. ASSUME NEW c \in ACase, exportRow'[c] = exportRow[c] PROVE RowIsTrue(c)'
    <2>1. RowIsTrue(c)
      BY DEF ArchiveInv
    <2>2. PICK row : row = exportRow[c]
      OBVIOUS
    <2>3. Exportable(c)' <=> Exportable(c)
      BY <1>1
    <2>4. (sip[c] = {row.package} => sip'[c] = {row.package}) /\ (descriptor[c] = {row.descriptor} => descriptor'[c] = {row.descriptor})
      BY DEF StoredStays
    <2> QED BY <1>3, <2>1, <2>2, <2>3, <2>4 DEF RowIsTrue
  <1> QED BY <1>2, <1>3 DEF ArchiveInv

LEMMA ArchiveInvInit == ArchiveInit => ArchiveInv
  <1> SUFFICES ASSUME ArchiveInit PROVE ArchiveInv
    OBVIOUS
  <1> USE DEF ArchiveInit
  <1>1. acase \in [ACase -> [status : {"completed", "cancelled", "archiving", "archived"}, closedAt : BOOLEAN]]
    <2>1. PICK yes, no : yes = TRUE /\ no = FALSE
      OBVIOUS
    <2>2. yes \in BOOLEAN /\ no \in BOOLEAN
      BY <2>1
    <2>3. acase \in [ACase -> {[status |-> "completed", closedAt |-> yes], [status |-> "cancelled", closedAt |-> no]}]
      BY <2>1, Zenon
    <2> QED BY <2>2, <2>3
  <1>2. \A c \in ACase : acase[c].status # "archived"
    OBVIOUS
  <1>3. /\ trail \in [ACase -> Nat \ {0}] /\ sip = [c \in ACase |-> sip[c]] /\ descriptor = [c \in ACase |-> descriptor[c]]
    OBVIOUS
  <1>4. \A c \in ACase : exportRow[c].status = "none"
    BY DEF NoExport
  <1>5. exportRow = [c \in ACase |-> [status |-> exportRow[c].status, package |-> exportRow[c].package,
                                      descriptor |-> exportRow[c].descriptor]]
    BY DEF NoExport
  <1>6. \A w \in AWorker : archiver[w].at = "idle"
    BY DEF Unemployed
  <1>7. archiver = [w \in AWorker |-> [case |-> archiver[w].case, at |-> archiver[w].at, built |-> archiver[w].built]]
    BY DEF Unemployed
  <1>8. ExportShape
    BY <1>1, <1>3, <1>5, <1>7 DEF ExportShape
  <1>9. \A w \in AWorker : ExporterIsDue(w)
    BY <1>6 DEF ExporterIsDue
  <1>10. \A c \in ACase : RowIsTrue(c) /\ ArchivedIsExported(c)
    BY <1>2, <1>4 DEF RowIsTrue, ArchivedIsExported
  <1> QED BY <1>8, <1>9, <1>10 DEF ArchiveInv

(* A worker takes a step, or is done with its case, and the others do nothing. *)
LEMMA WorkerAtStep ==
  ASSUME ExportShape, NEW w \in AWorker, NEW stage, archiver' = [archiver EXCEPT ![w].at = stage]
  PROVE  /\ archiver' = [v \in AWorker |-> [case |-> archiver'[v].case, at |-> archiver'[v].at, built |-> archiver'[v].built]]
         /\ archiver'[w].case = archiver[w].case /\ archiver'[w].at = stage /\ archiver'[w].built = archiver[w].built
         /\ \A v \in AWorker \ {w} : archiver'[v] = archiver[v]
  <1>1. \A v \in AWorker : archiver[v] = [case |-> archiver[v].case, at |-> archiver[v].at, built |-> archiver[v].built]
    BY DEF ExportShape
  <1>2. DOMAIN archiver = AWorker /\ archiver' = [v \in AWorker |-> IF v = w THEN [archiver[w] EXCEPT !.at = stage] ELSE archiver[v]]
    BY DEF ExportShape
  <1>3. [archiver[w] EXCEPT !.at = stage] = [case |-> archiver[w].case, at |-> stage, built |-> archiver[w].built]
    <2>1. PICK m : m = archiver[w]
      OBVIOUS
    <2>2. PICK c, a, b : m = [case |-> c, at |-> a, built |-> b]
      BY <1>1, <2>1
    <2>3. [m EXCEPT !.at = stage] = [case |-> c, at |-> stage, built |-> b]
      BY <2>2
    <2> QED BY <2>1, <2>2, <2>3
  <1> QED BY <1>1, <1>2, <1>3

LEMMA WorkerIsFree ==
  ASSUME ExportShape, NEW w, archiver' = [archiver EXCEPT ![w] = Unemployed]
  PROVE  /\ archiver' = [v \in AWorker |-> [case |-> archiver'[v].case, at |-> archiver'[v].at, built |-> archiver'[v].built]]
         /\ \A v \in AWorker : archiver'[v] = archiver[v] \/ ExporterIsDue(v)'
  <1>1. \A v \in AWorker : archiver[v] = [case |-> archiver[v].case, at |-> archiver[v].at, built |-> archiver[v].built]
    BY DEF ExportShape
  <1>2. archiver' = [v \in AWorker |-> IF v = w THEN Unemployed ELSE archiver[v]]
    BY DEF ExportShape
  <1>3. \A v \in AWorker : archiver'[v] = archiver[v] \/ archiver'[v] = Unemployed
    BY <1>2
  <1>4. archiver' = [v \in AWorker |-> [case |-> archiver'[v].case, at |-> archiver'[v].at, built |-> archiver'[v].built]]
    BY <1>1, <1>2, <1>3 DEF Unemployed
  <1>5. ASSUME NEW v \in AWorker, archiver'[v] = Unemployed PROVE ExporterIsDue(v)'
    BY <1>5 DEF ExporterIsDue, Unemployed
  <1> QED BY <1>3, <1>4, <1>5

(* Whatever leaves the case, the stored objects and the rows alone. *)
LEMMA OnlyWorkersMove ==
  ASSUME ArchiveInv, UNCHANGED <<acase, exportRow, sip, descriptor>>, trail' \in [ACase -> Nat \ {0}],
         archiver' = [v \in AWorker |-> [case |-> archiver'[v].case, at |-> archiver'[v].at, built |-> archiver'[v].built]],
         \A w \in AWorker : archiver'[w] = archiver[w] \/ ExporterIsDue(w)'
  PROVE  ArchiveInv'
  <1>1. ExportShape'
    BY DEF ArchiveInv, ExportShape
  <1>2. StoredStays
    BY DEF StoredStays
  <1>3. \A c \in ACase : exportRow'[c] = exportRow[c] /\ ArchivedIsExported(c)'
    BY DEF ArchiveInv, ArchivedIsExported
  <1> QED BY <1>1, <1>2, <1>3, ExportGoesOn

LEMMA ExportStepsOfWorkers ==
  ASSUME ArchiveInv, NEW w \in AWorker,
         LoadCase(w) \/ BuildPackage(w) \/ ExportFails(w) \/ \E c \in ACase : ClaimExport(w, c)
  PROVE  ArchiveInv'
  <1>0. ExportShape /\ ExporterIsDue(w)
    BY DEF ArchiveInv
  <1>1. UNCHANGED <<acase, exportRow, sip, descriptor, trail>> /\ trail' \in [ACase -> Nat \ {0}]
    BY <1>0 DEF LoadCase, BuildPackage, ExportFails, ClaimExport, ExportShape
  <1>2. CASE archiver' = [archiver EXCEPT ![w] = Unemployed]
    BY <1>0, <1>1, <1>2, WorkerIsFree, OnlyWorkersMove
  <1>3. ASSUME archiver[w].at = "load", archiver' = [archiver EXCEPT ![w].at = "row"] PROVE ArchiveInv'
    <2>1. archiver'[w].case = archiver[w].case /\ archiver'[w].at = "row"
      BY <1>0, <1>3, WorkerAtStep
    <2>2. ExporterIsDue(w)'
      BY <1>0, <1>3, <2>1 DEF ExporterIsDue
    <2> QED BY <1>0, <1>1, <1>3, <2>2, WorkerAtStep, OnlyWorkersMove
  <1>4. ASSUME BuildPackage(w) PROVE ArchiveInv'
    <2>0. PICK c : c = archiver[w].case
      OBVIOUS
    <2>1. c \in ACase /\ archiver[w].at = "build"
      BY <1>0, <1>4, <2>0 DEF BuildPackage, ExporterIsDue
    <2>2. acase[c].closedAt \in BOOLEAN /\ trail[c] # 0
      BY <1>0, <2>1 DEF ExportShape
    <2>3. /\ (Built(c).refused = Null /\ Described(Built(c)).refused = Null) <=> Exportable(c)
          /\ Exportable(c) => Proves(c, Built(c))
      BY <2>1, <2>2, WhatIsBuilt
    <2>4. Exportable(c)' <=> Exportable(c)
      BY <1>1 DEF Exportable, Preservable
    <2>5. CASE ~Exportable(c)
      <3>1. archiver' = [archiver EXCEPT ![w].at = "refuse"]
        BY <1>4, <2>0, <2>3, <2>5 DEF BuildPackage
      <3>2. archiver'[w].case = c /\ archiver'[w].at = "refuse"
        BY <1>0, <2>0, <3>1, WorkerAtStep
      <3>3. ExporterIsDue(w)'
        BY <2>1, <2>4, <2>5, <3>2 DEF ExporterIsDue
      <3> QED BY <1>0, <1>1, <3>1, <3>3, WorkerAtStep, OnlyWorkersMove
    <2>6. CASE Exportable(c)
      <3>1. archiver' = [archiver EXCEPT ![w].at = "package", ![w].built = Built(c)]
        BY <1>4, <2>0, <2>3, <2>6 DEF BuildPackage
      <3>2. \A v \in AWorker : archiver[v] = [case |-> archiver[v].case, at |-> archiver[v].at, built |-> archiver[v].built]
        BY <1>0 DEF ExportShape
      <3>3. PICK m : m = [archiver[w] EXCEPT !.at = "package", !.built = Built(c)]
        OBVIOUS
      <3>4. m = [case |-> c, at |-> "package", built |-> Built(c)]
        <4>1. PICK a, b : archiver[w] = [case |-> c, at |-> a, built |-> b]
          BY <2>0, <3>2
        <4>2. PICK n : n = [archiver[w] EXCEPT !.at = "package"]
          OBVIOUS
        <4>3. n = [case |-> c, at |-> "package", built |-> b]
          BY <4>1, <4>2
        <4>4. m = [n EXCEPT !.built = Built(c)]
          BY <3>3, <4>2
        <4> QED BY <4>3, <4>4
      <3>5. DOMAIN archiver = AWorker
        BY <1>0 DEF ExportShape
      <3>6. archiver' = [archiver EXCEPT ![w] = m]
        BY <3>1, <3>2, <3>3, <3>4, <3>5
      <3>7. PICK package : package = Built(c)
        OBVIOUS
      <3>8. archiver'[w].case = c /\ archiver'[w].at = "package" /\ archiver'[w].built = package
            /\ \A v \in AWorker \ {w} : archiver'[v] = archiver[v]
        BY <3>4, <3>5, <3>6, <3>7
      <3>9. archiver' = [v \in AWorker |-> [case |-> archiver'[v].case, at |-> archiver'[v].at, built |-> archiver'[v].built]]
        BY <3>2, <3>4, <3>5, <3>6
      <3>10. Proves(c, package)
        BY <2>3, <2>6, <3>7
      <3>11. ExporterIsDue(w)'
        BY <2>1, <2>4, <2>6, <3>8, <3>10 DEF ExporterIsDue, Exportable, Preservable, Proves
      <3> QED BY <1>1, <3>8, <3>9, <3>11, OnlyWorkersMove
    <2> QED BY <2>5, <2>6
  <1>5. ASSUME NEW c \in ACase, ClaimExport(w, c) PROVE ArchiveInv'
    <2>1. archiver' = [archiver EXCEPT ![w] = [case |-> c, at |-> "load", built |-> ANone]]
      BY <1>5 DEF ClaimExport
    <2>2. archiver'[w].case = c /\ archiver'[w].at = "load" /\ \A v \in AWorker \ {w} : archiver'[v] = archiver[v]
      BY <1>0, <2>1 DEF ExportShape
    <2>3. archiver' = [v \in AWorker |-> [case |-> archiver'[v].case, at |-> archiver'[v].at, built |-> archiver'[v].built]]
      BY <1>0, <2>1 DEF ExportShape
    <2>4. ExporterIsDue(w)'
      BY <2>2 DEF ExporterIsDue
    <2> QED BY <1>1, <2>2, <2>3, <2>4, OnlyWorkersMove
  <1> QED BY <1>2, <1>3, <1>4, <1>5 DEF LoadCase, ExportFails, AEnd

LEMMA ExportEventsAround ==
  ASSUME ArchiveInv, NEW c \in ACase,
         SubmitForArchiving(c) \/ EventLogged(c) \/ AssessmentChanges(c) \/ ExportLeaseExpires(c)
  PROVE  ArchiveInv'
  <1>0. ExportShape
    BY DEF ArchiveInv
  <1>1. trail' \in [ACase -> Nat \ {0}] /\ UNCHANGED <<exportRow, sip, descriptor>>
    <2>1. CASE EventLogged(c)
      <3>1. trail' = [trail EXCEPT ![c] = @ + 1] /\ UNCHANGED <<exportRow, sip, descriptor>>
        BY <2>1 DEF EventLogged
      <3>2. trail[c] + 1 \in Nat \ {0}
        BY <1>0 DEF ExportShape
      <3> QED BY <1>0, <3>1, <3>2 DEF ExportShape
    <2> QED BY <1>0, <2>1 DEF SubmitForArchiving, AssessmentChanges, ExportLeaseExpires, ExportShape
  <1>2. CASE SubmitForArchiving(c)
    <2>1. acase' = [acase EXCEPT ![c].status = "archiving"] /\ UNCHANGED archiver
      BY <1>2 DEF SubmitForArchiving
    <2>2. acase' \in [ACase -> [status : {"completed", "cancelled", "archiving", "archived"}, closedAt : BOOLEAN]]
      BY <1>0, <2>1 DEF ExportShape
    <2>3. \A d \in ACase : /\ acase'[d].closedAt = acase[d].closedAt
                           /\ acase'[d].status = "archived" => acase[d].status = "archived"
      BY <1>0, <2>1 DEF ExportShape
    <2>4. ExportShape'
      BY <1>0, <1>1, <2>1, <2>2 DEF ExportShape
    <2>5. StoredStays
      BY <1>1, <2>3 DEF StoredStays
    <2>6. \A d \in ACase : ArchivedIsExported(d)'
      BY <1>1, <2>3 DEF ArchiveInv, ArchivedIsExported
    <2> QED BY <1>1, <2>1, <2>4, <2>5, <2>6, ExportGoesOn
  <1>3. CASE EventLogged(c) \/ AssessmentChanges(c)
    <2>1. UNCHANGED <<acase, archiver>>
      BY <1>3 DEF EventLogged, AssessmentChanges
    <2>2. archiver' = [v \in AWorker |-> [case |-> archiver'[v].case, at |-> archiver'[v].at, built |-> archiver'[v].built]]
      BY <1>0, <2>1 DEF ExportShape
    <2> QED BY <1>1, <2>1, <2>2, OnlyWorkersMove
  <1>4. CASE ExportLeaseExpires(c)
    <2>1. UNCHANGED acase /\ (archiver' = [archiver EXCEPT ![ajob[c].owner] = Unemployed] \/ UNCHANGED archiver)
      BY <1>4 DEF ExportLeaseExpires
    <2>2. CASE UNCHANGED archiver
      <3>1. archiver' = [v \in AWorker |-> [case |-> archiver'[v].case, at |-> archiver'[v].at, built |-> archiver'[v].built]]
        BY <1>0, <2>2 DEF ExportShape
      <3> QED BY <1>1, <2>1, <2>2, <3>1, OnlyWorkersMove
    <2>3. CASE archiver' = [archiver EXCEPT ![ajob[c].owner] = Unemployed]
      BY <1>0, <1>1, <2>1, <2>3, WorkerIsFree, OnlyWorkersMove
    <2> QED BY <2>1, <2>2, <2>3
  <1> QED BY <1>2, <1>3, <1>4

(* The row of a case gets another status, the other rows stay. *)
LEMMA RowsAfter ==
  ASSUME ExportShape, NEW c, NEW status, exportRow' = [exportRow EXCEPT ![c].status = status]
  PROVE  /\ exportRow' = [d \in ACase |-> [status |-> exportRow'[d].status, package |-> exportRow'[d].package,
                                           descriptor |-> exportRow'[d].descriptor]]
         /\ c \in ACase => exportRow'[c].status = status
         /\ \A d \in ACase \ {c} : exportRow'[d] = exportRow[d]
         /\ (c \in ACase /\ exportRow[c].status = status) => exportRow'[c] = exportRow[c]
  <1>1. \A d \in ACase : exportRow[d] = [status |-> exportRow[d].status, package |-> exportRow[d].package,
                                         descriptor |-> exportRow[d].descriptor]
    BY DEF ExportShape
  <1>2. exportRow' = [d \in ACase |-> IF d = c THEN [exportRow[c] EXCEPT !.status = status] ELSE exportRow[d]]
    BY DEF ExportShape
  <1>3. ASSUME c \in ACase
        PROVE  [exportRow[c] EXCEPT !.status = status] = [status |-> status, package |-> exportRow[c].package,
                                                          descriptor |-> exportRow[c].descriptor]
    <2>1. PICK row : row = exportRow[c]
      OBVIOUS
    <2>2. PICK a, b, d : row = [status |-> a, package |-> b, descriptor |-> d]
      <3>1. row = [status |-> row.status, package |-> row.package, descriptor |-> row.descriptor]
        BY <1>1, <1>3, <2>1, Zenon
      <3> QED BY <3>1, Zenon
    <2>3. [row EXCEPT !.status = status] = [status |-> status, package |-> b, descriptor |-> d]
      BY <2>2
    <2> QED BY <2>1, <2>2, <2>3
  <1> QED BY <1>1, <1>2, <1>3

LEMMA ExportRowEnsured ==
  ASSUME ArchiveInv, NEW w \in AWorker, EnsureExportRow(w)
  PROVE  ArchiveInv'
  <1>0. ExportShape /\ ExporterIsDue(w)
    BY DEF ArchiveInv
  <1>1. PICK c : c = archiver[w].case
    OBVIOUS
  <1>2. PICK status : status = IF exportRow[c].status \in {"none", "failed", "queued"} THEN "exporting" ELSE exportRow[c].status
    OBVIOUS
  <1>3. /\ archiver[w].at = "row" /\ archiver' = [archiver EXCEPT ![w].at = "build"]
        /\ UNCHANGED <<acase, trail, sip, descriptor>>
        /\ exportRow' = [exportRow EXCEPT ![c].status =
                           IF exportRow[c].status \in {"none", "failed", "queued"} THEN "exporting" ELSE exportRow[c].status]
    BY <1>1 DEF EnsureExportRow
  <1>4. exportRow' = [exportRow EXCEPT ![c].status = status]
    BY <1>2, <1>3
  <1>5. c \in ACase
    BY <1>0, <1>1, <1>3 DEF ExporterIsDue
  <1>6. /\ exportRow' = [d \in ACase |-> [status |-> exportRow'[d].status, package |-> exportRow'[d].package,
                                           descriptor |-> exportRow'[d].descriptor]]
        /\ exportRow'[c].status = status
        /\ \A d \in ACase \ {c} : exportRow'[d] = exportRow[d]
        /\ exportRow[c].status = status => exportRow'[c] = exportRow[c]
    BY <1>0, <1>4, <1>5, RowsAfter
  <1>7. \A d \in ACase : exportRow'[d] = exportRow[d] \/ exportRow'[d].status # "completed"
    BY <1>2, <1>6
  <1>8. \A d \in ACase : exportRow'[d] = exportRow[d] \/ RowIsTrue(d)'
    BY <1>7 DEF RowIsTrue
  <1>9. /\ archiver' = [v \in AWorker |-> [case |-> archiver'[v].case, at |-> archiver'[v].at, built |-> archiver'[v].built]]
        /\ archiver'[w].case = c /\ archiver'[w].at = "build" /\ \A v \in AWorker \ {w} : archiver'[v] = archiver[v]
    BY <1>0, <1>1, <1>3, WorkerAtStep
  <1>10. ExporterIsDue(w)'
    BY <1>5, <1>9 DEF ExporterIsDue
  <1>11. ExportShape'
    BY <1>0, <1>3, <1>6, <1>9 DEF ExportShape
  <1>12. StoredStays
    BY <1>3 DEF StoredStays
  <1>13. \A d \in ACase : ArchivedIsExported(d)'
    BY <1>2, <1>3, <1>6 DEF ArchiveInv, ArchivedIsExported
  <1> QED BY <1>8, <1>9, <1>10, <1>11, <1>12, <1>13, ExportGoesOn

(* What is stored under one key does not change, and the put says whether it is this. *)
LEMMA PutImmutableKeeps ==
  ASSUME NEW stored, NEW stored2, stored = [c \in ACase |-> stored[c]], NEW c \in ACase, NEW built,
         stored2 = PutImmutable(stored, c, built)
  PROVE  /\ stored2 = [d \in ACase |-> stored2[d]]
         /\ \A d \in ACase : \A x : stored[d] = {x} => stored2[d] = {x}
  <1>1. stored2 = [stored EXCEPT ![c] = {built}] \/ stored2 = stored
    BY DEF PutImmutable
  <1>2. CASE stored2 = stored
    BY <1>2
  <1>3. CASE stored[c] \subseteq {built} /\ stored2 = [stored EXCEPT ![c] = {built}]
    <2>1. \A x : stored[c] = {x} => x = built
      BY <1>3
    <2>2. stored2[c] = {built} /\ \A d \in ACase \ {c} : stored2[d] = stored[d]
      BY <1>3
    <2>3. stored2 = [d \in ACase |-> stored2[d]]
      BY <1>3
    <2> QED BY <2>1, <2>2, <2>3
  <1> QED BY <1>1, <1>2, <1>3 DEF PutImmutable

(* A put that finds other bytes under its key fails, and the worker is free again:
   whoever goes on has stored what it carries.                                      *)
LEMMA PackageStored ==
  ASSUME ArchiveInv, NEW w \in AWorker, StorePackage(w)
  PROVE  ArchiveInv'
  <1>0. ExportShape /\ ExporterIsDue(w)
    BY DEF ArchiveInv
  <1>1. PICK c, package : c = archiver[w].case /\ package = archiver[w].built
    OBVIOUS
  <1>2. /\ archiver[w].at = "package" /\ sip' = PutImmutable(sip, c, package)
        /\ UNCHANGED <<acase, trail, exportRow, descriptor>>
        /\ \/ sip'[c] = {package} /\ archiver' = [archiver EXCEPT ![w].at = "descriptor"]
           \/ archiver' = [archiver EXCEPT ![w] = Unemployed]
    BY <1>1 DEF StorePackage, AEnd
  <1>3. c \in ACase /\ Exportable(c) /\ Proves(c, package)
    BY <1>0, <1>1, <1>2 DEF ExporterIsDue
  <1>4. sip' = [d \in ACase |-> sip'[d]] /\ \A d \in ACase : \A x : sip[d] = {x} => sip'[d] = {x}
    <2>1. sip = [d \in ACase |-> sip[d]]
      BY <1>0 DEF ExportShape
    <2>2. PICK t1, t2 : t1 = sip /\ t2 = sip'
      OBVIOUS
    <2>3. t1 = [d \in ACase |-> t1[d]] /\ t2 = PutImmutable(t1, c, package)
      BY <1>2, <2>1, <2>2
    <2>4. t2 = [d \in ACase |-> t2[d]] /\ \A d \in ACase : \A x : t1[d] = {x} => t2[d] = {x}
      BY <1>3, <2>3, PutImmutableKeeps
    <2> QED BY <2>2, <2>4
  <1>5. StoredStays
    BY <1>2, <1>4 DEF StoredStays
  <1>6. /\ archiver' = [v \in AWorker |-> [case |-> archiver'[v].case, at |-> archiver'[v].at, built |-> archiver'[v].built]]
        /\ \A v \in AWorker : archiver'[v] = archiver[v] \/ ExporterIsDue(v)'
    <2>1. CASE archiver' = [archiver EXCEPT ![w] = Unemployed]
      BY <1>0, <2>1, WorkerIsFree
    <2>2. CASE sip'[c] = {package} /\ archiver' = [archiver EXCEPT ![w].at = "descriptor"]
      <3>1. /\ archiver'[w].case = c /\ archiver'[w].at = "descriptor" /\ archiver'[w].built = package
            /\ \A v \in AWorker \ {w} : archiver'[v] = archiver[v]
            /\ archiver' = [v \in AWorker |-> [case |-> archiver'[v].case, at |-> archiver'[v].at, built |-> archiver'[v].built]]
        BY <1>0, <1>1, <2>2, WorkerAtStep
      <3>2. ExporterIsDue(w)'
        BY <1>2, <1>3, <2>2, <3>1 DEF ExporterIsDue, Exportable, Preservable, Proves
      <3> QED BY <3>1, <3>2
    <2> QED BY <1>2, <2>1, <2>2
  <1>7. ExportShape'
    BY <1>0, <1>2, <1>4, <1>6 DEF ExportShape
  <1>8. \A d \in ACase : exportRow'[d] = exportRow[d] /\ ArchivedIsExported(d)'
    BY <1>2 DEF ArchiveInv, ArchivedIsExported
  <1> QED BY <1>5, <1>6, <1>7, <1>8, ExportGoesOn

LEMMA DescriptorStored ==
  ASSUME ArchiveInv, NEW w \in AWorker, StoreDescriptor(w)
  PROVE  ArchiveInv'
  <1>0. ExportShape /\ ExporterIsDue(w)
    BY DEF ArchiveInv
  <1>1. PICK c, package : c = archiver[w].case /\ package = archiver[w].built
    OBVIOUS
  <1>2. /\ archiver[w].at = "descriptor" /\ descriptor' = PutImmutable(descriptor, c, Described(package))
        /\ UNCHANGED <<acase, trail, exportRow, sip>>
        /\ \/ descriptor'[c] = {Described(package)} /\ archiver' = [archiver EXCEPT ![w].at = "commit"]
           \/ archiver' = [archiver EXCEPT ![w] = Unemployed]
    BY <1>1 DEF StoreDescriptor, AEnd
  <1>3. c \in ACase /\ Exportable(c) /\ Proves(c, package) /\ sip[c] = {package}
    BY <1>0, <1>1, <1>2 DEF ExporterIsDue
  <1>4. descriptor' = [d \in ACase |-> descriptor'[d]] /\ \A d \in ACase : \A x : descriptor[d] = {x} => descriptor'[d] = {x}
    <2>1. descriptor = [d \in ACase |-> descriptor[d]]
      BY <1>0 DEF ExportShape
    <2>2. PICK t1, t2 : t1 = descriptor /\ t2 = descriptor'
      OBVIOUS
    <2>3. PICK made : made = Described(package)
      OBVIOUS
    <2>4. t1 = [d \in ACase |-> t1[d]] /\ t2 = PutImmutable(t1, c, made)
      BY <1>2, <2>1, <2>2, <2>3
    <2>5. t2 = [d \in ACase |-> t2[d]] /\ \A d \in ACase : \A x : t1[d] = {x} => t2[d] = {x}
      BY <1>3, <2>4, PutImmutableKeeps
    <2> QED BY <2>2, <2>5
  <1>5. StoredStays
    BY <1>2, <1>4 DEF StoredStays
  <1>6. /\ archiver' = [v \in AWorker |-> [case |-> archiver'[v].case, at |-> archiver'[v].at, built |-> archiver'[v].built]]
        /\ \A v \in AWorker : archiver'[v] = archiver[v] \/ ExporterIsDue(v)'
    <2>1. CASE archiver' = [archiver EXCEPT ![w] = Unemployed]
      BY <1>0, <2>1, WorkerIsFree
    <2>2. CASE descriptor'[c] = {Described(package)} /\ archiver' = [archiver EXCEPT ![w].at = "commit"]
      <3>1. /\ archiver'[w].case = c /\ archiver'[w].at = "commit" /\ archiver'[w].built = package
            /\ \A v \in AWorker \ {w} : archiver'[v] = archiver[v]
            /\ archiver' = [v \in AWorker |-> [case |-> archiver'[v].case, at |-> archiver'[v].at, built |-> archiver'[v].built]]
        BY <1>0, <1>1, <2>2, WorkerAtStep
      <3>2. ExporterIsDue(w)'
        BY <1>2, <1>3, <2>2, <3>1 DEF ExporterIsDue, Exportable, Preservable, Proves
      <3> QED BY <3>1, <3>2
    <2> QED BY <1>2, <2>1, <2>2
  <1>7. ExportShape'
    BY <1>0, <1>2, <1>4, <1>6 DEF ExportShape
  <1>8. \A d \in ACase : exportRow'[d] = exportRow[d] /\ ArchivedIsExported(d)'
    BY <1>2 DEF ArchiveInv, ArchivedIsExported
  <1> QED BY <1>5, <1>6, <1>7, <1>8, ExportGoesOn

LEMMA TrailGrows ==
  ASSUME ExportShape, NEW c, trail' = [trail EXCEPT ![c] = IF trail[c] < MaxTrail THEN trail[c] + 1 ELSE trail[c]]
  PROVE  trail' \in [ACase -> Nat \ {0}]
  <1>1. PICK n : n = IF trail[c] < MaxTrail THEN trail[c] + 1 ELSE trail[c]
    OBVIOUS
  <1>2. trail' = [trail EXCEPT ![c] = n]
    BY <1>1
  <1>3. c \in ACase => n \in Nat \ {0}
    <2>1. ASSUME c \in ACase PROVE trail[c] \in Nat /\ trail[c] # 0
      BY <2>1 DEF ExportShape
    <2> QED BY <1>1, <2>1
  <1> QED BY <1>2, <1>3 DEF ExportShape

(* The row that is completed tells of what its worker has stored. *)
LEMMA ExportCommitted ==
  ASSUME ArchiveInv, NEW w \in AWorker, CommitExport(w)
  PROVE  ArchiveInv'
  <1>0. ExportShape /\ ExporterIsDue(w)
    BY DEF ArchiveInv
  <1>1. PICK c, package, made : c = archiver[w].case /\ package = archiver[w].built /\ made = Described(package)
    OBVIOUS
  <1>2. /\ archiver[w].at = "commit"
        /\ exportRow' = [exportRow EXCEPT ![c] = [status |-> "completed", package |-> package, descriptor |-> made]]
        /\ acase' = [acase EXCEPT ![c].status = IF acase[c].status = "archiving" THEN "archived" ELSE acase[c].status]
        /\ trail' = [trail EXCEPT ![c] = IF trail[c] < MaxTrail THEN trail[c] + 1 ELSE trail[c]]
        /\ UNCHANGED <<sip, descriptor>> /\ archiver' = [archiver EXCEPT ![w] = Unemployed]
    BY <1>1 DEF CommitExport, AEnd
  <1>3. c \in ACase /\ Exportable(c) /\ Proves(c, package) /\ sip[c] = {package} /\ descriptor[c] = {made}
    BY <1>0, <1>1, <1>2 DEF ExporterIsDue
  <1>4. /\ acase' \in [ACase -> [status : {"completed", "cancelled", "archiving", "archived"}, closedAt : BOOLEAN]]
        /\ \A d \in ACase : acase'[d].closedAt = acase[d].closedAt
        /\ \A d \in ACase \ {c} : acase'[d] = acase[d]
    <2>1. PICK status : status = IF acase[c].status = "archiving" THEN "archived" ELSE acase[c].status
      OBVIOUS
    <2>2. status \in {"completed", "cancelled", "archiving", "archived"}
      BY <1>0, <1>3, <2>1 DEF ExportShape
    <2>3. acase' = [acase EXCEPT ![c].status = status]
      BY <1>2, <2>1
    <2> QED BY <1>0, <1>3, <2>2, <2>3 DEF ExportShape
  <1>5. /\ exportRow'[c].status = "completed" /\ exportRow'[c].package = package /\ exportRow'[c].descriptor = made
        /\ \A d \in ACase \ {c} : exportRow'[d] = exportRow[d]
        /\ exportRow' = [d \in ACase |-> [status |-> exportRow'[d].status, package |-> exportRow'[d].package,
                                           descriptor |-> exportRow'[d].descriptor]]
    BY <1>0, <1>2, <1>3 DEF ExportShape
  <1>6. trail' \in [ACase -> Nat \ {0}]
    BY <1>0, <1>2, TrailGrows
  <1>7. /\ archiver' = [v \in AWorker |-> [case |-> archiver'[v].case, at |-> archiver'[v].at, built |-> archiver'[v].built]]
        /\ \A v \in AWorker : archiver'[v] = archiver[v] \/ ExporterIsDue(v)'
    BY <1>0, <1>2, WorkerIsFree
  <1>8. ExportShape'
    BY <1>0, <1>2, <1>4, <1>5, <1>6, <1>7 DEF ExportShape
  <1>9. StoredStays
    BY <1>2, <1>4 DEF StoredStays
  <1>10. RowIsTrue(c)'
    <2>1. Exportable(c)' <=> Exportable(c)
      BY <1>3, <1>4 DEF Exportable, Preservable
    <2>2. sip' = sip /\ descriptor' = descriptor
      BY <1>2
    <2>3. exportRow'[c].descriptor = Described(exportRow'[c].package)
      BY <1>1, <1>5
    <2> QED BY <1>3, <1>5, <2>1, <2>2, <2>3 DEF RowIsTrue, Proves
  <1>11. \A d \in ACase : ArchivedIsExported(d)'
    BY <1>4, <1>5 DEF ArchiveInv, ArchivedIsExported
  <1> QED BY <1>5, <1>7, <1>8, <1>9, <1>10, <1>11, ExportGoesOn

(* What is refused was never completed: it could not have been built. *)
LEMMA ExportRefused ==
  ASSUME ArchiveInv, NEW w \in AWorker, RefuseExport(w)
  PROVE  ArchiveInv'
  <1>0. ExportShape /\ ExporterIsDue(w)
    BY DEF ArchiveInv
  <1>1. PICK c : c = archiver[w].case
    OBVIOUS
  <1>2. /\ archiver[w].at = "refuse" /\ exportRow' = [exportRow EXCEPT ![c].status = "failed"]
        /\ trail' = [trail EXCEPT ![c] = IF trail[c] < MaxTrail THEN trail[c] + 1 ELSE trail[c]]
        /\ UNCHANGED <<acase, sip, descriptor>> /\ archiver' = [archiver EXCEPT ![w] = Unemployed]
    BY <1>1 DEF RefuseExport, AEnd
  <1>3. c \in ACase /\ ~Exportable(c)
    BY <1>0, <1>1, <1>2 DEF ExporterIsDue
  <1>4. exportRow[c].status # "completed" /\ acase[c].status # "archived"
    BY <1>3 DEF ArchiveInv, RowIsTrue, ArchivedIsExported
  <1>5. /\ exportRow'[c].status = "failed"
        /\ \A d \in ACase \ {c} : exportRow'[d] = exportRow[d]
        /\ exportRow' = [d \in ACase |-> [status |-> exportRow'[d].status, package |-> exportRow'[d].package,
                                           descriptor |-> exportRow'[d].descriptor]]
    BY <1>0, <1>2, <1>3, RowsAfter
  <1>6. trail' \in [ACase -> Nat \ {0}]
    BY <1>0, <1>2, TrailGrows
  <1>7. /\ archiver' = [v \in AWorker |-> [case |-> archiver'[v].case, at |-> archiver'[v].at, built |-> archiver'[v].built]]
        /\ \A v \in AWorker : archiver'[v] = archiver[v] \/ ExporterIsDue(v)'
    BY <1>0, <1>2, WorkerIsFree
  <1>8. ExportShape'
    BY <1>0, <1>2, <1>5, <1>6, <1>7 DEF ExportShape
  <1>9. StoredStays
    BY <1>2 DEF StoredStays
  <1>10. RowIsTrue(c)'
    BY <1>5 DEF RowIsTrue
  <1>11. \A d \in ACase : ArchivedIsExported(d)'
    BY <1>2, <1>4, <1>5 DEF ArchiveInv, ArchivedIsExported
  <1> QED BY <1>5, <1>7, <1>8, <1>9, <1>10, <1>11, ExportGoesOn

LEMMA ArchiveInvNext == ArchiveInv /\ [ArchiveNext]_archiveVars => ArchiveInv'
  <1> SUFFICES ASSUME ArchiveInv, [ArchiveNext]_archiveVars PROVE ArchiveInv'
    OBVIOUS
  <1>1. ASSUME NEW c \in ACase,
               SubmitForArchiving(c) \/ EventLogged(c) \/ AssessmentChanges(c) \/ ExportLeaseExpires(c)
        PROVE  ArchiveInv'
    BY <1>1, ExportEventsAround
  <1>2. ASSUME NEW w \in AWorker,
               LoadCase(w) \/ BuildPackage(w) \/ ExportFails(w) \/ \E c \in ACase : ClaimExport(w, c)
        PROVE  ArchiveInv'
    BY <1>2, ExportStepsOfWorkers
  <1>3. ASSUME NEW w \in AWorker, EnsureExportRow(w) PROVE ArchiveInv'
    BY <1>3, ExportRowEnsured
  <1>4. ASSUME NEW w \in AWorker, StorePackage(w) PROVE ArchiveInv'
    BY <1>4, PackageStored
  <1>5. ASSUME NEW w \in AWorker, StoreDescriptor(w) PROVE ArchiveInv'
    BY <1>5, DescriptorStored
  <1>6. ASSUME NEW w \in AWorker, CommitExport(w) PROVE ArchiveInv'
    BY <1>6, ExportCommitted
  <1>7. ASSUME NEW w \in AWorker, RefuseExport(w) PROVE ArchiveInv'
    BY <1>7, ExportRefused
  <1>8. CASE UNCHANGED archiveVars
    <2>1. UNCHANGED <<acase, trail, exportRow, sip, descriptor, archiver>>
      BY <1>8 DEF archiveVars
    <2>2. /\ trail' \in [ACase -> Nat \ {0}]
          /\ archiver' = [v \in AWorker |-> [case |-> archiver'[v].case, at |-> archiver'[v].at, built |-> archiver'[v].built]]
      BY <2>1 DEF ArchiveInv, ExportShape
    <2> QED BY <2>1, <2>2, OnlyWorkersMove
  <1> QED BY <1>1, <1>2, <1>3, <1>4, <1>5, <1>6, <1>7, <1>8 DEF ArchiveNext

(* A completed export says what is stored: the descriptor describes the stored
   package, which misses nothing the case is proved by, however many workers built it
   from a trail and assessments that changed under them; and an archived case keeps
   its completed export.                                                            *)
THEOREM ArchiveRecordTrueHolds == ArchiveSpec => []ArchiveRecordTrue
  <1>1. ArchiveInv => ArchiveRecordTrue
    <2> SUFFICES ASSUME ArchiveInv, NEW c \in ACase
                 PROVE  /\ exportRow[c].status = "completed" =>
                             /\ sip[c] = {exportRow[c].package} /\ descriptor[c] = {exportRow[c].descriptor}
                             /\ exportRow[c].descriptor.manifest = exportRow[c].package
                             /\ Proves(c, exportRow[c].package)
                        /\ acase[c].status = "archived" => exportRow[c].status = "completed"
      BY DEF ArchiveRecordTrue, Proves
    <2>1. RowIsTrue(c) /\ ArchivedIsExported(c)
      BY DEF ArchiveInv
    <2>2. Exportable(c) => Described(exportRow[c].package).manifest = exportRow[c].package
      BY DescriptorsOf DEF Exportable, Preservable
    <2> QED BY <2>1, <2>2 DEF RowIsTrue, ArchivedIsExported
  <1> QED BY <1>1, ArchiveInvInit, ArchiveInvNext, PTL DEF ArchiveSpec

(* The durable jobs of the exports: before a case is submitted there is none, and a
   job that waits has an attempt left.                                            *)
ExportJob == [status : {"none", "pending", "running", "completed", "dead"},
              attempts : 0..ArchiveMaxAttempts, owner : AWorker \cup {ANone}]

ExportHasAttemptLeft(c) ==
  /\ ajob[c].status = "pending" => ajob[c].attempts < ArchiveMaxAttempts
  /\ acase[c].status \in {"completed", "cancelled"} => ajob[c].status = "none" /\ ajob[c].attempts = 0

ExportState == {"none", "exporting", "completed", "failed"}

ExportJobsInv ==
  /\ ajob \in [ACase -> ExportJob] /\ assessed \subseteq ACase
  /\ \A c \in ACase : ExportHasAttemptLeft(c) /\ trail[c] \in 0..MaxTrail /\ exportRow[c].status \in ExportState

LEMMA ExportJobsInit == ArchiveInit => ExportJobsInv
  <1> SUFFICES ASSUME ArchiveInit PROVE ExportJobsInv
    OBVIOUS
  <1>1. ajob \in [ACase -> ExportJob]
    BY DEF ArchiveInit, ExportJob, ArchiveMaxAttempts
  <1>2. \A c \in ACase : ExportHasAttemptLeft(c)
    BY DEF ArchiveInit, ExportHasAttemptLeft, ArchiveMaxAttempts
  <1>3. assessed \subseteq ACase /\ \A c \in ACase : trail[c] \in 0..MaxTrail /\ exportRow[c].status \in ExportState
    BY ArchiveAssumption DEF ArchiveInit, NoExport, ExportState
  <1> QED BY <1>1, <1>2, <1>3 DEF ExportJobsInv

(* The job of one case changes, and no case goes back to where it had none. *)
LEMMA OneExportJobChanges ==
  ASSUME ExportJobsInv, NEW c \in ACase, NEW task \in ExportJob, ajob' = [ajob EXCEPT ![c] = task],
         task = ajob[c] \/ acase'[c].status \notin {"completed", "cancelled"},
         task = ajob[c] \/ (task.status = "pending" => task.attempts < ArchiveMaxAttempts),
         \A d \in ACase : \/ acase'[d].status = acase[d].status
                          \/ acase'[d].status \notin {"completed", "cancelled"},
         assessed' \subseteq ACase,
         \A d \in ACase : trail'[d] \in 0..MaxTrail /\ exportRow'[d].status \in ExportState
  PROVE  ExportJobsInv'
  <1>1. ajob' \in [ACase -> ExportJob]
    BY DEF ExportJobsInv
  <1>2. ASSUME NEW d \in ACase PROVE ExportHasAttemptLeft(d)'
    <2>1. ajob'[d] = (IF d = c THEN task ELSE ajob[d]) /\ ExportHasAttemptLeft(d)
      BY DEF ExportJobsInv
    <2>2. CASE ajob'[d] = ajob[d]
      BY <2>1, <2>2 DEF ExportHasAttemptLeft
    <2>3. CASE d = c /\ task # ajob[c]
      BY <2>1, <2>3 DEF ExportHasAttemptLeft
    <2> QED BY <2>1, <2>2, <2>3
  <1> QED BY <1>1, <1>2 DEF ExportJobsInv

(* The end of a handler settles the job while the worker owns it. *)
LEMMA SettledExport ==
  ASSUME ExportJobsInv, NEW c \in ACase, NEW w \in AWorker, NEW ending
  PROVE  /\ ASettled(c, w, ending) \in ExportJob
         /\ \/ ASettled(c, w, ending) = ajob[c]
            \/ /\ ajob[c].status = "running"
               /\ ASettled(c, w, ending).status = "pending" => ASettled(c, w, ending).attempts < ArchiveMaxAttempts
  <1>1. ajob[c] \in ExportJob
    BY DEF ExportJobsInv
  <1>2. CASE ajob[c].status # "running" \/ ajob[c].owner # w
    BY <1>1, <1>2 DEF ASettled
  <1>3. CASE ajob[c].status = "running" /\ ajob[c].owner = w
    BY <1>1, <1>3 DEF ASettled, ExportJob, ArchiveMaxAttempts
  <1> QED BY <1>2, <1>3

LEMMA ExportHandlerEnds ==
  ASSUME ExportJobsInv, NEW w \in AWorker, NEW ending, archiver[w].case \in ACase, AEnd(w, ending),
         \A d \in ACase : \/ acase'[d].status = acase[d].status
                          \/ acase'[d].status \notin {"completed", "cancelled"},
         assessed' \subseteq ACase,
         \A d \in ACase : trail'[d] \in 0..MaxTrail /\ exportRow'[d].status \in ExportState
  PROVE  ExportJobsInv'
  <1>0. PICK c \in ACase : c = archiver[w].case
    OBVIOUS
  <1>1. PICK task : task = ASettled(c, w, ending)
    OBVIOUS
  <1>2. /\ task \in ExportJob /\ ajob' = [ajob EXCEPT ![c] = task]
        /\ \/ task = ajob[c]
           \/ ajob[c].status = "running" /\ (task.status = "pending" => task.attempts < ArchiveMaxAttempts)
    BY <1>0, <1>1, SettledExport DEF AEnd
  <1>3. ajob[c].status = "running" => acase[c].status \notin {"completed", "cancelled"}
    BY DEF ExportJobsInv, ExportHasAttemptLeft
  <1> QED BY <1>2, <1>3, OneExportJobChanges

(* Nobody's job changes, and no case goes back. *)
LEMMA NoExportJobChanges ==
  ASSUME ExportJobsInv, UNCHANGED <<ajob, acase>>, assessed' \subseteq ACase,
         \A d \in ACase : trail'[d] \in 0..MaxTrail /\ exportRow'[d].status \in ExportState
  PROVE  ExportJobsInv'
  BY DEF ExportJobsInv, ExportHasAttemptLeft

LEMMA ExportJobsNext == ExportJobsInv /\ ArchiveInv /\ [ArchiveNext]_archiveVars => ExportJobsInv'
  <1> SUFFICES ASSUME ExportJobsInv, ArchiveInv, [ArchiveNext]_archiveVars PROVE ExportJobsInv'
    OBVIOUS
  <1>0. /\ assessed \subseteq ACase
        /\ \A d \in ACase : trail[d] \in 0..MaxTrail /\ exportRow[d].status \in ExportState
    BY DEF ExportJobsInv
  <1>1. ASSUME NEW c \in ACase, SubmitForArchiving(c) PROVE ExportJobsInv'
    <2>1. PICK task : task = [ajob[c] EXCEPT !.status = "pending"]
      OBVIOUS
    <2>2. ajob[c] \in ExportJob /\ ajob[c].attempts = 0
      BY <1>1 DEF SubmitForArchiving, ExportJobsInv, ExportHasAttemptLeft
    <2>3. task \in ExportJob /\ task.attempts < ArchiveMaxAttempts
      BY <2>1, <2>2 DEF ExportJob, ArchiveMaxAttempts
    <2>4. /\ ajob' = [ajob EXCEPT ![c] = task] /\ UNCHANGED <<trail, assessed, exportRow>>
          /\ \A d \in ACase : acase'[d].status = IF d = c THEN "archiving" ELSE acase[d].status
      BY <1>1, <2>1 DEF SubmitForArchiving, ArchiveInv, ExportShape
    <2> QED BY <1>0, <2>3, <2>4, OneExportJobChanges
  <1>2. ASSUME NEW c \in ACase, EventLogged(c) PROVE ExportJobsInv'
    <2>1. \A d \in ACase : trail'[d] \in 0..MaxTrail
      BY <1>0, <1>2, ArchiveAssumption DEF EventLogged, ArchiveInv, ExportShape
    <2> QED BY <1>0, <1>2, <2>1, NoExportJobChanges DEF EventLogged
  <1>3. ASSUME NEW c \in ACase, AssessmentChanges(c) PROVE ExportJobsInv'
    BY <1>0, <1>3, NoExportJobChanges DEF AssessmentChanges
  <1>4. ASSUME NEW c \in ACase, ExportLeaseExpires(c) PROVE ExportJobsInv'
    <2>1. PICK task : task = [ajob[c] EXCEPT !.owner = ANone,
                              !.status = IF ajob[c].attempts < ArchiveMaxAttempts THEN "pending" ELSE "dead"]
      OBVIOUS
    <2>2. ajob[c] \in ExportJob /\ acase[c].status \notin {"completed", "cancelled"}
      BY <1>4 DEF ExportLeaseExpires, ExportJobsInv, ExportHasAttemptLeft
    <2>3. task \in ExportJob /\ (task.status = "pending" => task.attempts < ArchiveMaxAttempts)
      BY <2>1, <2>2 DEF ExportJob, ArchiveMaxAttempts
    <2>4. ajob' = [ajob EXCEPT ![c] = task] /\ UNCHANGED <<acase, trail, assessed, exportRow>>
      BY <1>4, <2>1 DEF ExportLeaseExpires
    <2> QED BY <1>0, <2>2, <2>3, <2>4, OneExportJobChanges
  <1>5. ASSUME NEW w \in AWorker, NEW c \in ACase, ClaimExport(w, c) PROVE ExportJobsInv'
    <2>1. PICK task : task = [status |-> "running", attempts |-> ajob[c].attempts + 1, owner |-> w]
      OBVIOUS
    <2>2. /\ ajob[c] \in ExportJob /\ ajob[c].attempts < ArchiveMaxAttempts
          /\ acase[c].status \notin {"completed", "cancelled"}
      BY <1>5 DEF ClaimExport, ExportJobsInv, ExportHasAttemptLeft
    <2>3. task \in ExportJob /\ task.status = "running"
      BY <2>1, <2>2 DEF ExportJob, ArchiveMaxAttempts
    <2>4. ajob' = [ajob EXCEPT ![c] = task] /\ UNCHANGED <<acase, trail, assessed, exportRow>>
      BY <1>5, <2>1 DEF ClaimExport
    <2> QED BY <1>0, <2>2, <2>3, <2>4, OneExportJobChanges
  <1>6. ASSUME NEW w \in AWorker, LoadCase(w) \/ StorePackage(w) \/ StoreDescriptor(w) \/ ExportFails(w)
        PROVE  ExportJobsInv'
    <2>1. archiver[w].case \in ACase
      BY <1>6 DEF LoadCase, StorePackage, StoreDescriptor, ExportFails, ArchiveInv, ExporterIsDue
    <2>2. UNCHANGED <<acase, trail, assessed, exportRow>>
      BY <1>6 DEF LoadCase, StorePackage, StoreDescriptor, ExportFails
    <2>3. UNCHANGED ajob \/ \E ending \in {"completed", "refused", "failed"} : AEnd(w, ending)
      BY <1>6 DEF LoadCase, StorePackage, StoreDescriptor, ExportFails
    <2> QED BY <1>0, <2>1, <2>2, <2>3, NoExportJobChanges, ExportHandlerEnds
  <1>7. ASSUME NEW w \in AWorker, EnsureExportRow(w) \/ BuildPackage(w) PROVE ExportJobsInv'
    <2>1. UNCHANGED <<acase, trail, assessed, ajob>>
      BY <1>7 DEF EnsureExportRow, BuildPackage
    <2>2. \A d \in ACase : exportRow'[d].status \in ExportState
      <3>1. CASE BuildPackage(w)
        BY <1>0, <3>1 DEF BuildPackage
      <3>2. CASE EnsureExportRow(w)
        <4>1. \A d \in ACase : exportRow'[d].status \in {exportRow[d].status, "exporting"}
          BY <3>2 DEF EnsureExportRow, ArchiveInv, ExportShape
        <4> QED BY <1>0, <4>1 DEF ExportState
      <3> QED BY <1>7, <3>1, <3>2
    <2> QED BY <1>0, <2>1, <2>2, NoExportJobChanges
  <1>8. ASSUME NEW w \in AWorker, CommitExport(w) \/ RefuseExport(w) PROVE ExportJobsInv'
    <2>1. archiver[w].case \in ACase
      BY <1>8 DEF CommitExport, RefuseExport, ArchiveInv, ExporterIsDue
    <2>2. \A d \in ACase : exportRow'[d].status \in ExportState
      <3>1. \A d \in ACase : exportRow'[d].status \in {exportRow[d].status, "completed", "failed"}
        <4>1. CASE CommitExport(w)
          BY <4>1 DEF CommitExport, ArchiveInv, ExportShape
        <4>2. CASE RefuseExport(w)
          BY <4>2 DEF RefuseExport, ArchiveInv, ExportShape
        <4> QED BY <1>8, <4>1, <4>2
      <3> QED BY <1>0, <3>1 DEF ExportState
    <2>3. \A d \in ACase : trail'[d] \in 0..MaxTrail
      BY <1>0, <1>8, ArchiveAssumption DEF CommitExport, RefuseExport, ArchiveInv, ExportShape
    <2>4. \A d \in ACase : \/ acase'[d].status = acase[d].status
                           \/ acase'[d].status \notin {"completed", "cancelled"}
      <3>1. CASE RefuseExport(w)
        BY <3>1 DEF RefuseExport
      <3>2. CASE CommitExport(w)
        <4>1. PICK c \in ACase : acase' = [acase EXCEPT ![c].status = IF @ = "archiving" THEN "archived" ELSE @]
          BY <2>1, <3>2 DEF CommitExport
        <4>2. acase \in [ACase -> [status : {"completed", "cancelled", "archiving", "archived"}, closedAt : BOOLEAN]]
          BY DEF ArchiveInv, ExportShape
        <4>3. \A d \in ACase : acase'[d].status \in {acase[d].status, "archived"}
          BY <4>1, <4>2
        <4> QED BY <4>3
      <3> QED BY <1>8, <3>1, <3>2
    <2>5. assessed' = assessed /\ \E ending \in {"completed", "refused"} : AEnd(w, ending)
      BY <1>8 DEF CommitExport, RefuseExport
    <2> QED BY <1>0, <2>1, <2>2, <2>3, <2>4, <2>5, ExportHandlerEnds
  <1>9. CASE UNCHANGED archiveVars
    BY <1>0, <1>9, NoExportJobChanges DEF archiveVars
  <1> QED BY <1>1, <1>2, <1>3, <1>4, <1>5, <1>6, <1>7, <1>8, <1>9 DEF ArchiveNext

(* Cases, exports, trails and jobs keep their types; no export is tried more often
   than its job may be.                                                            *)
THEOREM ArchiveTypeCorrect == ArchiveSpec => []ArchiveTypeOK
  <1>1. ArchiveInv /\ ExportJobsInv => ArchiveTypeOK
    <2> SUFFICES ASSUME ArchiveInv, ExportJobsInv PROVE ArchiveTypeOK
      OBVIOUS
    <2>1. ASSUME NEW c \in ACase
          PROVE  /\ acase[c].status \in {"completed", "cancelled", "archiving", "archived"}
                 /\ ajob[c].attempts \in 0..ArchiveMaxAttempts
      BY DEF ArchiveInv, ExportShape, ExportJobsInv, ExportJob
    <2> QED BY <2>1 DEF ExportJobsInv, ExportState, ArchiveTypeOK
  <1> QED BY <1>1, ArchiveInvInit, ArchiveInvNext, ExportJobsInit, ExportJobsNext, PTL DEF ArchiveSpec

---------------------------------------------------------------------------------
(* The evidence package.  One that is verified holds the files its manifest lists. *)
LEMMA ListedAreHeld ==
  ASSUME NEW z, NEW files, VerifyEvidenceZip(z),
         Parsed(z)[ManifestPath].manifest = {[path |-> p, sha256 |-> files[p]] : p \in DOMAIN files}
  PROVE  /\ CentralPaths(z) = DOMAIN files \cup {ManifestPath, ChecksumPath}
         /\ \A p \in DOMAIN files : Parsed(z)[p] = files[p]
  <1> DEFINE found == Parsed(z)
             evidence == [p \in DOMAIN found \ {ManifestPath, ChecksumPath} |-> found[p]]
             entries == found[ManifestPath].manifest
  <1>1. /\ {ManifestPath, ChecksumPath} \subseteq DOMAIN found
        /\ Missing(entries, evidence) = {} /\ Mismatched(entries, evidence) = {} /\ Unexpected(entries, evidence) = {}
        /\ \A e \in entries : e.path \notin {ManifestPath, ChecksumPath}
    BY DEF VerifyEvidenceZip, VerifyEvidenceFiles
  <1>2. entries = {[path |-> p, sha256 |-> files[p]] : p \in DOMAIN files}
    OBVIOUS
  <1>3. DOMAIN found = CentralPaths(z)
    BY DEF Parsed
  <1>4. \A e \in entries : e.path \in DOMAIN evidence /\ evidence[e.path] = e.sha256
    BY <1>1 DEF Missing, Mismatched
  <1>5. \A p \in DOMAIN evidence : \E e \in entries : e.path = p
    BY <1>1 DEF Unexpected
  <1> DEFINE entry(p) == [path |-> p, sha256 |-> files[p]]
  <1>6. \A p \in DOMAIN files : entry(p) \in entries /\ entry(p).path = p /\ entry(p).sha256 = files[p]
    BY <1>2
  <1>7. \A p \in DOMAIN files : p \in DOMAIN evidence /\ evidence[p] = files[p]
    BY <1>4, <1>6
  <1>8. \A p \in DOMAIN evidence : p \in DOMAIN files
    BY <1>2, <1>5
  <1>9. DOMAIN evidence = DOMAIN found \ {ManifestPath, ChecksumPath} /\ \A p \in DOMAIN evidence : evidence[p] = found[p]
    OBVIOUS
  <1> HIDE DEF evidence, entries, found, entry
  <1>10. DOMAIN files = DOMAIN evidence /\ \A p \in DOMAIN files : found[p] = files[p]
    BY <1>7, <1>8, <1>9
  <1> QED BY <1>1, <1>3, <1>9, <1>10 DEF found

(* Whoever vouches for the manifest vouches for every file: whatever was done to a
   package, when it is verified and its manifest is that of the files that were
   packed, it holds those files and no others (verifyEvidenceZip).                  *)
THEOREM ManifestVouches ==
  ASSUME NEW z, NEW files, VerifyEvidenceZip(z),
         Parsed(z)[ManifestPath] = CreateEvidenceManifest(files)
  PROVE  /\ CentralPaths(z) = DOMAIN files \cup {ManifestPath, ChecksumPath}
         /\ \A p \in DOMAIN files : Parsed(z)[p] = files[p]
  BY ListedAreHeld DEF CreateEvidenceManifest

(* The list of checksums vouches as the manifest does, for the two list the same. *)
LEMMA ChecksumsVouch ==
  ASSUME NEW z, NEW files, VerifyEvidenceZip(z), Parsed(z)[ChecksumPath] = ChecksumLines(files)
  PROVE  /\ CentralPaths(z) = DOMAIN files \cup {ManifestPath, ChecksumPath}
         /\ \A p \in DOMAIN files : Parsed(z)[p] = files[p]
  <1>1. VerifyChecksumFile(Parsed(z)[ManifestPath].manifest, Parsed(z)[ChecksumPath].lines)
    BY DEF VerifyEvidenceZip
  <1>2. Parsed(z)[ManifestPath].manifest = {[path |-> p, sha256 |-> files[p]] : p \in DOMAIN files}
    BY <1>1 DEF VerifyChecksumFile, ChecksumLines
  <1> QED BY <1>2, ListedAreHeld

(* A change reaches one of three things: the manifest, the list of checksums, the
   rest.  Two changes leave one of them as it was packed, and each vouches for the
   others; so long as the manifest and the list are where they were packed.         *)
ManifestKept == zip.local[ManifestPath].bytes = CreateEvidenceManifest(original)
ChecksumsKept == zip.local[ChecksumPath].bytes = ChecksumLines(original)
RestKept ==
  /\ DOMAIN zip.local = DOMAIN original \cup {ManifestPath, ChecksumPath}
  /\ \A p \in DOMAIN original : zip.local[p].bytes = original[p]
  /\ DOMAIN zip.central = DOMAIN zip.local
  /\ \A p \in DOMAIN zip.central : zip.central[p].path = p /\ zip.central[p].at = p

InPlace ==
  /\ \A p \in DOMAIN original : p \notin {ManifestPath, ChecksumPath} /\ original[p] \in Bytes
  /\ {ManifestPath, ChecksumPath} \subseteq DOMAIN zip.local
  /\ \A i \in DOMAIN zip.local :
       /\ zip.local[i].path = ManifestPath => i = ManifestPath
       /\ zip.local[i].path = ChecksumPath => i = ChecksumPath

\* An entry has a path, a checksum and what it stands for.
WellFormed(z) ==
  /\ z = [local |-> z.local, central |-> z.central]
  /\ z.local = [i \in DOMAIN z.local |->
                  [path |-> z.local[i].path, crc |-> z.local[i].crc, bytes |-> z.local[i].bytes]]
  /\ z.central = [i \in DOMAIN z.central |->
                    [path |-> z.central[i].path, crc |-> z.central[i].crc, at |-> z.central[i].at]]
  /\ \A i \in DOMAIN z.central : z.central[i].at \in DOMAIN z.local

ZipInv ==
  /\ damage \in 0..MaxDamage
  /\ WellFormed(zip) /\ InPlace
  /\ damage = 0 => ManifestKept /\ ChecksumsKept /\ RestKept
  /\ damage = 1 => \/ ManifestKept /\ ChecksumsKept
                   \/ ManifestKept /\ RestKept
                   \/ ChecksumsKept /\ RestKept
  /\ damage = 2 => ManifestKept \/ ChecksumsKept \/ RestKept

LEMMA PathsApart ==
  /\ ManifestPath # ChecksumPath
  /\ \A d : <<"added", d>> \notin {ManifestPath, ChecksumPath}
  /\ \A person, p : p \in EvidencePaths(person) => p \notin {ManifestPath, ChecksumPath}
  <1>1. ManifestPath # ChecksumPath
    BY DEF ManifestPath, ChecksumPath
  <1>2. ASSUME NEW p, NEW a, NEW b, p = <<a, b>> PROVE p \notin {ManifestPath, ChecksumPath}
    <2>1. Len(p) = 2 /\ Len(ManifestPath) = 1 /\ Len(ChecksumPath) = 1
      BY <1>2 DEF ManifestPath, ChecksumPath
    <2> QED BY <2>1
  <1>3. ASSUME NEW p, NEW a, NEW b, NEW c, p = <<a, b, c>> PROVE p \notin {ManifestPath, ChecksumPath}
    <2>1. Len(p) = 3 /\ Len(ManifestPath) = 1 /\ Len(ChecksumPath) = 1
      BY <1>3 DEF ManifestPath, ChecksumPath
    <2> QED BY <2>1
  <1>4. ASSUME NEW p, NEW a, p = <<a>>, a \notin {"manifest.json", "checksums.sha256"}
        PROVE  p \notin {ManifestPath, ChecksumPath}
    <2>1. p[1] = a /\ ManifestPath[1] = "manifest.json" /\ ChecksumPath[1] = "checksums.sha256"
      BY <1>4 DEF ManifestPath, ChecksumPath
    <2> QED BY <1>4, <2>1
  <1>5. ASSUME NEW person, NEW p \in EvidencePaths(person) PROVE p \notin {ManifestPath, ChecksumPath}
    <2>1. CASE person # "all"
      <3>1. p = <<"audit-events.json">> \/ \E a \in Artifact : p = <<a>>
        BY <1>5, <2>1 DEF EvidencePaths
      <3> QED BY <1>4, <3>1, ZipAssumption
    <2>2. CASE person = "all"
      <3>1. \/ \E d \in ZDocument : p = <<"documents", d>> \/ p = <<"reports", d>>
            \/ \E x \in ZSigner, a \in Artifact : p = <<"signers", x, a>>
            \/ p = <<"audit", "case-audit-events.json">> \/ p = <<"signing-receipt.pdf">>
        BY <1>5, <2>2 DEF EvidencePaths
      <3> QED BY <1>2, <1>3, <1>4, <3>1
    <2> QED BY <2>1, <2>2
  <1> QED BY <1>1, <1>2, <1>5

LEMMA ZipInvInit == ZipInit => ZipInv
  <1> SUFFICES ASSUME ZipInit PROVE ZipInv
    OBVIOUS
  <1>1. PICK person \in {"all"} \cup ZSigner : original \in [EvidencePaths(person) -> Bytes]
    BY DEF ZipInit
  <1>2. \A p \in DOMAIN original : p \notin {ManifestPath, ChecksumPath} /\ original[p] \in Bytes
    BY <1>1, PathsApart
  <1> DEFINE all == AllFiles(original)
  <1>3. DOMAIN all = DOMAIN original \cup {ManifestPath, ChecksumPath}
    BY DEF AllFiles
  <1>4. /\ all[ManifestPath] = CreateEvidenceManifest(original)
        /\ all[ChecksumPath] = ChecksumLines(original)
        /\ \A p \in DOMAIN original : all[p] = original[p]
    BY <1>2, PathsApart DEF AllFiles
  <1> HIDE DEF all
  <1>5. /\ zip.local = [p \in DOMAIN all |-> [path |-> p, crc |-> CrcOf(all[p]), bytes |-> all[p]]]
        /\ zip.central = [p \in DOMAIN all |-> [path |-> p, crc |-> CrcOf(all[p]), at |-> p]]
        /\ zip = [local |-> zip.local, central |-> zip.central]
        /\ damage = 0
    BY DEF ZipInit, CreateEvidenceZip, all
  <1>6. WellFormed(zip)
    BY <1>5 DEF WellFormed
  <1>7. InPlace
    BY <1>2, <1>3, <1>5 DEF InPlace
  <1>8. ManifestKept /\ ChecksumsKept
    BY <1>3, <1>4, <1>5 DEF ManifestKept, ChecksumsKept
  <1>9. RestKept
    BY <1>3, <1>4, <1>5 DEF RestKept
  <1> QED BY <1>5, <1>6, <1>7, <1>8, <1>9, ZipAssumption DEF ZipInv

(* A change that leaves two of the three alone. *)
LEMMA ZipChanges ==
  ASSUME ZipInv, damage < MaxDamage, damage' = damage + 1, UNCHANGED original,
         WellFormed(zip'), InPlace',
         \/ /\ ManifestKept => ManifestKept'
            /\ ChecksumsKept => ChecksumsKept'
         \/ /\ ManifestKept => ManifestKept'
            /\ RestKept => RestKept'
         \/ /\ ChecksumsKept => ChecksumsKept'
            /\ RestKept => RestKept'
  PROVE  ZipInv'
  <1>1. damage' \in 0..MaxDamage
    BY ZipAssumption DEF ZipInv
  <1>2. /\ damage' # 0
        /\ damage' = 1 => damage = 0
        /\ damage' = 2 => damage = 1
    BY DEF ZipInv
  <1>3. /\ damage' = 1 => \/ ManifestKept' /\ ChecksumsKept'
                          \/ ManifestKept' /\ RestKept'
                          \/ ChecksumsKept' /\ RestKept'
        /\ damage' = 2 => ManifestKept' \/ ChecksumsKept' \/ RestKept'
    BY <1>2 DEF ZipInv
  <1> QED BY <1>1, <1>2, <1>3 DEF ZipInv, WellFormed

LEMMA ZipInvNext == ZipInv /\ [ZipNext]_zipVars => ZipInv'
  <1> SUFFICES ASSUME ZipInv, [ZipNext]_zipVars PROVE ZipInv'
    OBVIOUS
  <1> USE DEF Damaged
  <1>0. WellFormed(zip) /\ InPlace
    BY DEF ZipInv
  <1>1. CASE UNCHANGED zipVars
    BY <1>1 DEF zipVars, ZipInv, WellFormed, InPlace, ManifestKept, ChecksumsKept, RestKept
  <1>2. ASSUME NEW i \in DOMAIN zip.local, ChangeBytes(i) PROVE ZipInv'
    <2>1. PICK b \in Rewritten(zip.local[i].bytes) :
            /\ damage < MaxDamage /\ damage' = damage + 1 /\ UNCHANGED original
            /\ \/ /\ zip'.local = [zip.local EXCEPT ![i].bytes = b]
                  /\ zip'.central = zip.central
               \/ /\ zip'.local = [zip.local EXCEPT ![i].bytes = b, ![i].crc = CrcOf(b)]
                  /\ zip'.central = [k \in DOMAIN zip.central |->
                       IF zip.central[k].at = i THEN [zip.central[k] EXCEPT !.crc = CrcOf(b)] ELSE zip.central[k]]
            /\ zip' = [local |-> zip'.local, central |-> zip'.central]
      BY <1>2 DEF ChangeBytes
    <2>2. /\ DOMAIN zip'.local = DOMAIN zip.local /\ DOMAIN zip'.central = DOMAIN zip.central
          /\ zip' = [local |-> zip'.local, central |-> zip'.central]
          /\ damage < MaxDamage /\ damage' = damage + 1 /\ UNCHANGED original
      BY <2>1
    <2>9. ASSUME NEW k \in DOMAIN zip.local
          PROVE  /\ zip'.local[k].path = zip.local[k].path
                 /\ k # i => zip'.local[k].bytes = zip.local[k].bytes
                 /\ zip'.local[k] = [path |-> zip'.local[k].path, crc |-> zip'.local[k].crc,
                                     bytes |-> zip'.local[k].bytes]
      <3>1. zip.local[k] = [path |-> zip.local[k].path, crc |-> zip.local[k].crc, bytes |-> zip.local[k].bytes]
        BY <1>0 DEF WellFormed
      <3>2. CASE k # i
        <4>1. zip'.local[k] = zip.local[k]
          BY <2>1, <3>2
        <4> QED BY <3>1, <3>2, <4>1
      <3>3. CASE k = i
        <4>1. \/ zip'.local[k] = [path |-> zip.local[k].path, crc |-> zip.local[k].crc, bytes |-> b]
              \/ zip'.local[k] = [path |-> zip.local[k].path, crc |-> CrcOf(b), bytes |-> b]
          <5>1. CASE zip'.local = [zip.local EXCEPT ![i].bytes = b]
            BY <3>1, <3>3, <5>1
          <5>2. CASE zip'.local = [zip.local EXCEPT ![i].bytes = b, ![i].crc = CrcOf(b)]
            BY <3>1, <3>3, <5>2
          <5> QED BY <2>1, <5>1, <5>2
        <4> QED BY <3>3, <4>1
      <3> QED BY <3>2, <3>3
    <2>10. ASSUME NEW k \in DOMAIN zip.central
           PROVE  /\ zip'.central[k].path = zip.central[k].path /\ zip'.central[k].at = zip.central[k].at
                  /\ zip'.central[k] = [path |-> zip'.central[k].path, crc |-> zip'.central[k].crc,
                                        at |-> zip'.central[k].at]
      <3>1. zip.central[k] = [path |-> zip.central[k].path, crc |-> zip.central[k].crc, at |-> zip.central[k].at]
        BY <1>0 DEF WellFormed
      <3>2. zip'.central[k] = zip.central[k] \/ zip'.central[k] = [zip.central[k] EXCEPT !.crc = CrcOf(b)]
        BY <2>1
      <3>3. \/ zip'.central[k] = [path |-> zip.central[k].path, crc |-> zip.central[k].crc, at |-> zip.central[k].at]
            \/ zip'.central[k] = [path |-> zip.central[k].path, crc |-> CrcOf(b), at |-> zip.central[k].at]
        BY <3>1, <3>2
      <3> QED BY <3>3
    <2>8. /\ \A k \in DOMAIN zip.local : /\ zip'.local[k].path = zip.local[k].path
                                         /\ k # i => zip'.local[k].bytes = zip.local[k].bytes
          /\ \A k \in DOMAIN zip.central : /\ zip'.central[k].path = zip.central[k].path
                                           /\ zip'.central[k].at = zip.central[k].at
      BY <2>9, <2>10
    <2>3. WellFormed(zip')
      <3>1. zip'.local = [k \in DOMAIN zip'.local |->
              [path |-> zip'.local[k].path, crc |-> zip'.local[k].crc, bytes |-> zip'.local[k].bytes]]
        <4>1. \A k \in DOMAIN zip'.local :
                zip'.local[k] = [path |-> zip'.local[k].path, crc |-> zip'.local[k].crc, bytes |-> zip'.local[k].bytes]
          BY <2>2, <2>9
        <4>2. zip'.local = [k \in DOMAIN zip'.local |-> zip'.local[k]]
          BY <2>1
        <4> QED BY <4>1, <4>2
      <3>2. zip'.central = [k \in DOMAIN zip'.central |->
              [path |-> zip'.central[k].path, crc |-> zip'.central[k].crc, at |-> zip'.central[k].at]]
        <4>1. \A k \in DOMAIN zip'.central :
                zip'.central[k] = [path |-> zip'.central[k].path, crc |-> zip'.central[k].crc, at |-> zip'.central[k].at]
          BY <2>2, <2>10
        <4>2. zip'.central = [k \in DOMAIN zip'.central |-> zip'.central[k]]
          BY <1>0, <2>1 DEF WellFormed
        <4> QED BY <4>1, <4>2
      <3>3. \A k \in DOMAIN zip'.central : zip'.central[k].at \in DOMAIN zip'.local
        BY <1>0, <2>2, <2>8 DEF WellFormed
      <3> QED BY <2>2, <3>1, <3>2, <3>3 DEF WellFormed
    <2>4. InPlace'
      BY <1>0, <2>2, <2>8 DEF InPlace
    <2>5. CASE i = ManifestPath
      <3>1. ChecksumsKept => ChecksumsKept'
        BY <1>0, <2>2, <2>5, <2>8, PathsApart DEF InPlace, ChecksumsKept
      <3>2. RestKept => RestKept'
        BY <1>0, <2>2, <2>5, <2>8 DEF InPlace, RestKept
      <3> QED BY <2>2, <2>3, <2>4, <3>1, <3>2, ZipChanges
    <2>6. CASE i = ChecksumPath
      <3>1. ManifestKept => ManifestKept'
        BY <1>0, <2>2, <2>6, <2>8, PathsApart DEF InPlace, ManifestKept
      <3>2. RestKept => RestKept'
        BY <1>0, <2>2, <2>6, <2>8 DEF InPlace, RestKept
      <3> QED BY <2>2, <2>3, <2>4, <3>1, <3>2, ZipChanges
    <2>7. CASE i \notin {ManifestPath, ChecksumPath}
      BY <1>0, <2>2, <2>3, <2>4, <2>7, <2>8, ZipChanges
      DEF InPlace, ManifestKept, ChecksumsKept
    <2> QED BY <2>5, <2>6, <2>7
  <1>3. ASSUME NEW i \in DOMAIN zip.local, Rename(i, <<"elsewhere">>) PROVE ZipInv'
    <2>1. /\ damage < MaxDamage /\ damage' = damage + 1 /\ UNCHANGED original
          /\ zip'.local = [zip.local EXCEPT ![i].path = <<"elsewhere">>]
          /\ zip'.central = zip.central
          /\ zip' = [local |-> zip'.local, central |-> zip'.central]
      BY <1>3 DEF Rename
    <2>2. \A k \in DOMAIN zip.local :
            zip.local[k] = [path |-> zip.local[k].path, crc |-> zip.local[k].crc, bytes |-> zip.local[k].bytes]
      BY <1>0 DEF WellFormed
    <2>3. /\ DOMAIN zip'.local = DOMAIN zip.local
          /\ \A k \in DOMAIN zip.local :
               zip'.local[k] = [path |-> IF k = i THEN <<"elsewhere">> ELSE zip.local[k].path,
                                crc |-> zip.local[k].crc, bytes |-> zip.local[k].bytes]
      BY <2>1, <2>2
    <2>4. WellFormed(zip')
      BY <1>0, <2>1, <2>3 DEF WellFormed
    <2>5. <<"elsewhere">> \notin {ManifestPath, ChecksumPath}
      BY DEF ManifestPath, ChecksumPath
    <2>6. InPlace'
      BY <1>0, <2>1, <2>3, <2>5 DEF InPlace
    <2>7. /\ ManifestKept => ManifestKept'
          /\ ChecksumsKept => ChecksumsKept'
      BY <1>0, <2>1, <2>3 DEF InPlace, ManifestKept, ChecksumsKept
    <2> QED BY <2>1, <2>4, <2>6, <2>7, ZipChanges
  <1>4. ASSUME NEW k \in DOMAIN zip.central,
               RemoveEntry(k) \/ \E i \in DOMAIN zip.local : Redirect(k, i)
        PROVE  ZipInv'
    <2>1. /\ damage < MaxDamage /\ damage' = damage + 1 /\ UNCHANGED original
          /\ zip'.local = zip.local
          /\ zip' = [local |-> zip'.local, central |-> zip'.central]
      BY <1>4 DEF RemoveEntry, Redirect
    <2>2. \A e \in DOMAIN zip.central :
            zip.central[e] = [path |-> zip.central[e].path, crc |-> zip.central[e].crc, at |-> zip.central[e].at]
      BY <1>0 DEF WellFormed
    <2>3. CASE RemoveEntry(k)
      <3>1. zip'.central = [e \in DOMAIN zip.central \ {k} |-> zip.central[e]]
        BY <2>3 DEF RemoveEntry, Restrict
      <3>2. WellFormed(zip')
        BY <1>0, <2>1, <2>2, <3>1 DEF WellFormed
      <3> QED BY <1>0, <2>1, <3>2, ZipChanges DEF InPlace, ManifestKept, ChecksumsKept
    <2>4. ASSUME NEW i \in DOMAIN zip.local, Redirect(k, i) PROVE ZipInv'
      <3>1. zip'.central = [zip.central EXCEPT ![k].at = i]
        BY <2>4 DEF Redirect
      <3>2. WellFormed(zip')
        BY <1>0, <2>1, <2>2, <3>1 DEF WellFormed
      <3> QED BY <1>0, <2>1, <3>2, ZipChanges DEF InPlace, ManifestKept, ChecksumsKept
    <2> QED BY <1>4, <2>3, <2>4
  <1>5. ASSUME NEW b \in Bytes, NEW path \in {<<"elsewhere">>} \cup DOMAIN original, AddFile(path, b)
        PROVE  ZipInv'
    <2> DEFINE file == [path |-> path, crc |-> CrcOf(b), bytes |-> b]
               entry == [path |-> path, crc |-> CrcOf(b), at |-> Added]
    <2>1. /\ damage < MaxDamage /\ damage' = damage + 1 /\ UNCHANGED original
          /\ zip'.local = [i \in DOMAIN zip.local \cup {Added} |-> IF i = Added THEN file ELSE zip.local[i]]
          /\ zip'.central = [i \in DOMAIN zip.central \cup {Added} |-> IF i = Added THEN entry ELSE zip.central[i]]
          /\ zip' = [local |-> zip'.local, central |-> zip'.central]
      BY <1>5 DEF AddFile, With
    <2>2. /\ file = [path |-> file.path, crc |-> file.crc, bytes |-> file.bytes]
          /\ entry = [path |-> entry.path, crc |-> entry.crc, at |-> entry.at]
          /\ file.path = path /\ entry.at = Added
      OBVIOUS
    <2> HIDE DEF file, entry
    <2>3. WellFormed(zip')
      <3>1. zip'.local = [i \in DOMAIN zip'.local |->
              [path |-> zip'.local[i].path, crc |-> zip'.local[i].crc, bytes |-> zip'.local[i].bytes]]
        BY <1>0, <2>1, <2>2 DEF WellFormed
      <3>2. zip'.central = [i \in DOMAIN zip'.central |->
              [path |-> zip'.central[i].path, crc |-> zip'.central[i].crc, at |-> zip'.central[i].at]]
        BY <1>0, <2>1, <2>2 DEF WellFormed
      <3>3. \A i \in DOMAIN zip'.central : zip'.central[i].at \in DOMAIN zip'.local
        BY <1>0, <2>1, <2>2 DEF WellFormed
      <3> QED BY <2>1, <3>1, <3>2, <3>3 DEF WellFormed
    <2>4. path \notin {ManifestPath, ChecksumPath}
      BY <1>0 DEF InPlace, ManifestPath, ChecksumPath
    <2>5. Added \notin {ManifestPath, ChecksumPath}
      BY PathsApart DEF Added
    <2>6. InPlace'
      BY <1>0, <2>1, <2>2, <2>4, <2>5 DEF InPlace
    <2>7. /\ ManifestKept => ManifestKept'
          /\ ChecksumsKept => ChecksumsKept'
      BY <1>0, <2>1, <2>5 DEF InPlace, ManifestKept, ChecksumsKept
    <2> QED BY <2>1, <2>3, <2>6, <2>7, ZipChanges
  <1> QED BY <1>1, <1>2, <1>3, <1>4, <1>5 DEF ZipNext

LEMMA ZipInvariance == ZipSpec => []ZipInv
  BY ZipInvInit, ZipInvNext, PTL DEF ZipSpec

\* Where the directory leads to, it finds what has the name it gives.
LEMMA FoundUnderItsName ==
  ASSUME NEW z, ParseEvidenceZip(z), NEW p \in CentralPaths(z)
  PROVE  \E i \in DOMAIN z.central :
            /\ z.central[i].path = p /\ z.local[z.central[i].at].path = p
            /\ z.central[i].at \in DOMAIN z.local
            /\ Parsed(z)[p] = z.local[z.central[i].at].bytes
  <1> DEFINE i == CHOOSE e \in DOMAIN z.central : z.central[e].path = p
  <1>1. i \in DOMAIN z.central /\ z.central[i].path = p
    BY DEF CentralPaths
  <1>2. Parsed(z)[p] = z.local[z.central[i].at].bytes
    BY DEF Parsed
  <1> HIDE DEF i
  <1>3. z.central[i].at \in DOMAIN z.local /\ z.local[z.central[i].at].path = p
    BY <1>1 DEF ParseEvidenceZip
  <1> QED BY <1>1, <1>2, <1>3

(* Whatever is packed, and whoever damages it how: two changes do not get a changed,
   missing or added file past the verification (verifyEvidenceZip).                 *)
THEOREM DamageIsSeenHolds == ZipSpec => []DamageIsSeen
  <1>1. ASSUME ZipInv, damage < 3, VerifyEvidenceZip(zip)
        PROVE  /\ CentralPaths(zip) = DOMAIN original \cup {ManifestPath, ChecksumPath}
               /\ \A p \in DOMAIN original : Parsed(zip)[p] = original[p]
    <2>1. InPlace /\ WellFormed(zip) /\ (ManifestKept \/ ChecksumsKept \/ RestKept)
      <3>1. damage \in {0, 1, 2}
        BY <1>1, ZipAssumption DEF ZipInv
      <3> QED BY <1>1, <3>1 DEF ZipInv
    <2>2. ParseEvidenceZip(zip) /\ {ManifestPath, ChecksumPath} \subseteq CentralPaths(zip)
      BY <1>1 DEF VerifyEvidenceZip, Parsed
    <2>3. CASE ManifestKept
      <3>1. Parsed(zip)[ManifestPath] = zip.local[ManifestPath].bytes
        BY <2>1, <2>2, FoundUnderItsName DEF InPlace
      <3> QED BY <1>1, <2>3, <3>1, ManifestVouches DEF ManifestKept
    <2>4. CASE ChecksumsKept
      <3>1. Parsed(zip)[ChecksumPath] = zip.local[ChecksumPath].bytes
        BY <2>1, <2>2, FoundUnderItsName DEF InPlace
      <3> QED BY <1>1, <2>4, <3>1, ChecksumsVouch DEF ChecksumsKept
    <2>5. CASE RestKept
      <3>1. CentralPaths(zip) = DOMAIN original \cup {ManifestPath, ChecksumPath}
        BY <2>5 DEF RestKept, CentralPaths
      <3>2. ASSUME NEW p \in DOMAIN original PROVE Parsed(zip)[p] = original[p]
        <4>1. PICK i \in DOMAIN zip.central :
                zip.central[i].path = p /\ Parsed(zip)[p] = zip.local[zip.central[i].at].bytes
          BY <2>2, <3>1, <3>2, FoundUnderItsName
        <4>2. zip.central[i].at = p
          BY <2>5, <4>1 DEF RestKept
        <4> QED BY <2>5, <4>1, <4>2 DEF RestKept
      <3> QED BY <3>1, <3>2
    <2> QED BY <2>1, <2>3, <2>4, <2>5
  <1>2. ZipInv => DamageIsSeen
    <2> SUFFICES ASSUME ZipInv, damage < 3, VerifyEvidenceZip(zip),
                        NEW p \in CentralPaths(zip) \cup DOMAIN original,
                        p \notin {ManifestPath, ChecksumPath}
                 PROVE  p \in DOMAIN original /\ Parsed(zip)[p] = original[p]
      BY DEF DamageIsSeen
    <2> QED BY <1>1
  <1> QED BY <1>2, ZipInvariance, PTL

(* Files keep to bytes, and every entry leads to a place in the package. *)
THEOREM ZipTypeCorrect == ZipSpec => []ZipTypeOK
  <1>1. ZipInv => ZipTypeOK
    BY DEF ZipInv, ZipTypeOK, InPlace, WellFormed
  <1> QED BY <1>1, ZipInvariance, PTL

---------------------------------------------------------------------------------
(* Side by side.  The parts share no variable, and a step of one leaves the others
   alone: the composition behaves as each of them.                                *)
LEMMA StepOfEveryPart ==
  ASSUME [Next]_<<leavingVars, recordVars, baseVars, part>>
  PROVE  /\ [WebhookNext]_webhookVars /\ [EmailNext]_emailVars /\ [GrantNext]_grantVars
         /\ [RetentionNext]_retentionVars /\ [ArchiveNext]_archiveVars /\ [KeyNext]_keyVars
         /\ [ListingNext]_listingVars /\ [StorageNext]_storageVars /\ [ConnectionsNext]_connectionVars
         /\ part' = part /\ (UNCHANGED zipVars \/ (part = "package" /\ ZipNext))
  <1>1. CASE LeavingNext /\ UNCHANGED <<recordVars, baseVars>> /\ UNCHANGED part
    BY <1>1 DEF LeavingNext, leavingVars, recordVars, baseVars
  <1>2. CASE RecordNext /\ UNCHANGED <<leavingVars, baseVars>> /\ UNCHANGED part
    BY <1>2 DEF RecordNext, leavingVars, recordVars, baseVars
  <1>3. CASE BaseNext /\ UNCHANGED <<leavingVars, recordVars>> /\ UNCHANGED part
    BY <1>3 DEF BaseNext, leavingVars, recordVars, baseVars
  <1>4. CASE UNCHANGED <<leavingVars, recordVars, baseVars, part>>
    BY <1>4 DEF leavingVars, recordVars, baseVars
  <1> QED BY <1>1, <1>2, <1>3, <1>4 DEF Next

(* Where nothing is packed, there is nothing to damage. *)
NothingPacked == original = <<>> /\ zip = CreateEvidenceZip(<<>>) /\ damage = 0
PackageInv == IF part = "package" THEN ZipInv ELSE NothingPacked

LEMMA PackageInvariance == Spec => []PackageInv
  <1>1. Init => PackageInv
    BY ZipInvInit DEF Init, PackageInv, NothingPacked
  <1>2. ASSUME PackageInv, [Next]_<<leavingVars, recordVars, baseVars, part>> PROVE PackageInv'
    <2>1. part' = part /\ (UNCHANGED zipVars \/ (part = "package" /\ ZipNext))
      BY <1>2, StepOfEveryPart
    <2>2. CASE part = "package"
      <3>1. ZipInv'
        BY <1>2, <2>1, <2>2, ZipInvNext DEF PackageInv
      <3> QED BY <2>1, <2>2, <3>1 DEF PackageInv
    <2>3. CASE part # "package"
      BY <1>2, <2>1, <2>3 DEF PackageInv, NothingPacked, zipVars
    <2> QED BY <2>2, <2>3
  <1> QED BY <1>1, <1>2, PTL DEF Spec

(* The parts after signing, composed as the run checks them, keep every variable to
   its type; in particular no download grant is redeemed more often than its
   maximum_uses, and no column counts more re-encrypted rows than it had.          *)
THEOREM AfterSigningTypeCorrect == Spec => []AfterSigningTypeOK
  <1>1. Init => /\ WebhookInit /\ EmailInit /\ GrantInit /\ RetentionInit /\ ArchiveInit /\ KeyInit
                /\ ListingInit /\ StorageInit /\ ConnectionsInit
    BY DEF Init
  <1>2. Spec => /\ WebhookSpec /\ EmailSpec /\ GrantSpec /\ RetentionSpec /\ ArchiveSpec /\ KeySpec
                /\ ListingSpec /\ StorageSpec /\ ConnectionsSpec
    BY <1>1, StepOfEveryPart, PTL
    DEF Spec, WebhookSpec, EmailSpec, GrantSpec, RetentionSpec, ArchiveSpec, KeySpec, ListingSpec,
        StorageSpec, ConnectionsSpec
  <1>3. ASSUME PackageInv PROVE ZipTypeOK
    <2>1. CASE part = "package"
      BY <1>3, <2>1 DEF PackageInv, ZipInv, ZipTypeOK, InPlace, WellFormed
    <2>2. CASE part # "package"
      <3>1. original = <<>> /\ zip = CreateEvidenceZip(original) /\ damage = 0
        BY <1>3, <2>2 DEF PackageInv, NothingPacked
      <3>2. DOMAIN original = {}
        BY <3>1
      <3>3. zip.central = [p \in DOMAIN original |-> [path |-> p, crc |-> CrcOf(original[p]), at |-> p]]
        BY <3>1 DEF CreateEvidenceZip
      <3>4. DOMAIN zip.central = {}
        BY <3>2, <3>3
      <3> QED BY <3>1, <3>2, <3>4, ZipAssumption DEF ZipTypeOK
    <2> QED BY <2>1, <2>2
  <1> QED BY <1>2, <1>3, PackageInvariance, WebhookTypeCorrect, EmailTypeCorrect, GrantTypeCorrect,
             RetentionTypeCorrect, ArchiveTypeCorrect, KeyTypeCorrect, ListingTypeCorrect,
             StorageTypeCorrect, ConnectionsTypeCorrect, PTL DEF AfterSigningTypeOK

=================================================================================
