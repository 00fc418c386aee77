------------------------------- MODULE KeyRotation -------------------------------
(***************************************************************************)
(* Rotating the key that encrypts personal data, from version 1 to 2.      *)
(*                                                                         *)
(* A ciphertext carries the version of its key in its envelope; the column *)
(* key_version of its row repeats it, stamped by a trigger on INSERT and   *)
(* set by the re-encryption, but by no other UPDATE.  Every process loads  *)
(* its key ring once, at start, from the configuration of that moment.     *)
(* The operator follows docs/runbooks/KEY_ROTATION.md, and the ledger in   *)
(* the database refuses the steps its triggers know to be out of order.    *)
(***************************************************************************)
EXTENDS Naturals, FiniteSets

CONSTANTS
    KeyNode,        \* the running processes
    KeyRow,         \* the rows that hold a ciphertext
    MaxRotations    \* bound: rotations started

ASSUME KeyAssumption == IsFiniteSet(KeyRow) /\ MaxRotations \in Nat

VARIABLES
    configured,     \* the key configuration a process would start with now
    keyRing,        \* process -> the configuration it started with
    cipher,         \* row -> the version in its envelope and in key_version
    ledger,         \* the live rotation: state and the counters of its column
    rotations       \* how many rotations were started

keyVars == <<configured, keyRing, cipher, ledger, rotations>>

(* The configurations of the runbook, in the order it sets them. *)
KeyConfig == {"one", "dual", "switched", "retired"}

ActiveVersion(config) == IF config \in {"one", "dual"} THEN 1 ELSE 2

VersionState(config, version) ==
    CASE version = ActiveVersion(config)             -> "active"
      [] version = 2 /\ config = "one"               -> "unknown"
      [] version = 1 /\ config = "retired"           -> "retired"
      [] OTHER                                       -> "decrypt_only"

ReadableVersion(config, version) == VersionState(config, version) \in {"active", "decrypt_only"}

NoRow == [envelope |-> 0, stamp |-> 0]
NoRotation == [state |-> "none", total |-> 0, done |-> 0, recorded |-> FALSE]
Stored == {r \in KeyRow : cipher[r] # NoRow}
OnOldKey == {r \in Stored : cipher[r].stamp = 1}

KeyInit ==
    /\ configured = "one"
    /\ keyRing = [n \in KeyNode |-> "one"]
    /\ cipher \in [KeyRow -> {NoRow, [envelope |-> 1, stamp |-> 1]}]
    /\ ledger = NoRotation
    /\ rotations = 0

--------------------------------------------------------------------------------
(* The processes: restart, insert, update. *)

NodeRestarts(n) ==
    /\ keyRing[n] # configured
    /\ keyRing' = [keyRing EXCEPT ![n] = configured]
    /\ UNCHANGED <<configured, cipher, ledger, rotations>>

InsertRow(n, r) ==
    /\ cipher[r] = NoRow
    /\ LET v == ActiveVersion(keyRing[n]) IN
         cipher' = [cipher EXCEPT ![r] = [envelope |-> v, stamp |-> v]]
    /\ UNCHANGED <<configured, keyRing, ledger, rotations>>

UpdateRow(n, r) ==
    /\ r \in Stored
    /\ cipher' = [cipher EXCEPT ![r].envelope = ActiveVersion(keyRing[n])]
    /\ UNCHANGED <<configured, keyRing, ledger, rotations>>

--------------------------------------------------------------------------------
(* The operator. *)

LedgerMay(from, to) ==
    \/ from = "PLANNED" /\ to \in {"DUAL_READ", "ROLLED_BACK"}
    \/ from = "DUAL_READ" /\ to \in {"REENCRYPTING", "ROLLED_BACK"}
    \/ from = "REENCRYPTING" /\ to \in {"VERIFIED", "ROLLED_BACK"}
    \/ from = "VERIFIED" /\ to \in {"COMPLETED", "ROLLED_BACK"}

LedgerComplete == ledger.recorded /\ ledger.total = ledger.done

Advance(to) ==
    /\ LedgerMay(ledger.state, to)
    /\ to \in {"VERIFIED", "COMPLETED"} => LedgerComplete
    /\ ledger' = [ledger EXCEPT !.state = to]
    /\ UNCHANGED <<configured, keyRing, cipher, rotations>>

PlanRotation ==
    /\ ledger.state \in {"none", "ROLLED_BACK"}
    /\ rotations < MaxRotations
    /\ ledger' = [NoRotation EXCEPT !.state = "PLANNED"]
    /\ rotations' = rotations + 1
    /\ UNCHANGED <<configured, keyRing, cipher>>

Configure(config) ==
    /\ configured' = config
    /\ UNCHANGED <<keyRing, cipher, ledger, rotations>>

LoadNewKey == ledger.state = "DUAL_READ" /\ configured = "one" /\ Configure("dual")

PointWrites ==
    /\ ledger.state = "DUAL_READ"
    /\ \A n \in KeyNode : keyRing[n] = "dual"
    /\ Configure("switched")

EveryNodeSwitched == configured = "switched" /\ \A n \in KeyNode : keyRing[n] = "switched"

RecordColumns ==
    /\ ledger.state = "DUAL_READ" /\ ~ledger.recorded
    /\ EveryNodeSwitched
    /\ ledger' = [ledger EXCEPT !.total = Cardinality(OnOldKey), !.recorded = TRUE]
    /\ UNCHANGED <<configured, keyRing, cipher, rotations>>

BeginReencrypting == ledger.recorded /\ Advance("REENCRYPTING")

(* A row and the counter of its column, in one transaction. *)
Reencrypt(r) ==
    /\ ledger.state = "REENCRYPTING"
    /\ r \in OnOldKey /\ ledger.done < ledger.total
    /\ cipher' = [cipher EXCEPT ![r] = [envelope |-> 2, stamp |-> 2]]
    /\ ledger' = [ledger EXCEPT !.done = @ + 1]
    /\ UNCHANGED <<configured, keyRing, rotations>>

(* The counters and, independently, the column. *)
VerifyRotation == OnOldKey = {} /\ Advance("VERIFIED")

CompleteRotation == Advance("COMPLETED")

(* Until the old key is retired; writes go back to it, the new one stays. *)
RollBack ==
    /\ LedgerMay(ledger.state, "ROLLED_BACK")
    /\ ledger' = [ledger EXCEPT !.state = "ROLLED_BACK"]
    /\ configured' = IF configured = "switched" THEN "dual" ELSE configured
    /\ UNCHANGED <<keyRing, cipher, rotations>>

RetireUnchecked == configured = "switched" /\ Configure("retired")

RetireOldKey ==
    /\ ledger.state = "COMPLETED" /\ LedgerComplete
    /\ configured = "switched" /\ Configure("retired")

KeyNext ==
    \/ \E n \in KeyNode : NodeRestarts(n)
    \/ \E n \in KeyNode, r \in KeyRow : InsertRow(n, r) \/ UpdateRow(n, r)
    \/ PlanRotation \/ Advance("DUAL_READ") \/ LoadNewKey \/ PointWrites \/ RecordColumns
    \/ BeginReencrypting \/ VerifyRotation \/ CompleteRotation \/ RollBack \/ RetireOldKey
    \/ \E r \in KeyRow : Reencrypt(r)

KeySpec == KeyInit /\ [][KeyNext]_keyVars

--------------------------------------------------------------------------------
KeyTypeOK ==
    /\ configured \in KeyConfig
    /\ keyRing \in [KeyNode -> KeyConfig]
    /\ cipher \in [KeyRow -> [envelope : 0..2, stamp : 0..2]]
    /\ ledger.total \in 0..Cardinality(KeyRow) /\ ledger.done \in 0..ledger.total
    /\ rotations \in 0..MaxRotations

Readable(r) == \A n \in KeyNode : ReadableVersion(keyRing[n], cipher[r].envelope)

(* A row whose key_version does not claim a newer key than its envelope has *)
(* is readable by every running process, throughout rotations, rollbacks,   *)
(* partial deployments and the retirement of the old key.                   *)
TruthfulRowsReadable ==
    \A r \in Stored : cipher[r].stamp <= cipher[r].envelope => Readable(r)
==================================================================================
