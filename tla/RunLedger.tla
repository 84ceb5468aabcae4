------------------------------ MODULE RunLedger ------------------------------
(***************************************************************************)
(* What Memory promises about run evidence, whatever the files do.         *)
(*                                                                         *)
(* A run's evidence is absent, then recorded, then perhaps tombstoned (the *)
(* soft delete of `memory delete`).  It never moves backwards, and only a  *)
(* wipe of the whole Project Store (`reset`) takes it away.  A wipe takes  *)
(* everything that is there at once; a recording it catches half-way is    *)
(* lost with it.  RunEvidence is the program that implements this ledger   *)
(* with directories, renames and temp files.                               *)
(***************************************************************************)

CONSTANT Runs       \* run references; each is minted once, by generate_ulid

VARIABLE status     \* [Runs -> Status]

Status == {"absent", "recorded", "tombstoned", "wiped"}

LedgerTypeOK == status \in [Runs -> Status]

\* Evidence written by an earlier release may already be there.
LedgerInit == status \in [Runs -> {"absent", "recorded"}]

Record(r) ==
  /\ status[r] = "absent"
  /\ status' = [status EXCEPT ![r] = "recorded"]

Tombstone(r) ==
  /\ status[r] = "recorded"
  /\ status' = [status EXCEPT ![r] = "tombstoned"]

\* `caught` are the runs being recorded when the store is detached.
Wipe(caught) ==
  /\ \A r \in caught : status[r] = "absent"
  /\ status' = [r \in Runs |->
                  IF status[r] # "absent" \/ r \in caught THEN "wiped" ELSE "absent"]

LedgerNext ==
  \/ \E r \in Runs : Record(r) \/ Tombstone(r)
  \/ \E caught \in SUBSET Runs : Wipe(caught)

LedgerSpec == LedgerInit /\ [][LedgerNext]_status
=============================================================================
