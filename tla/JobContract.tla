---------------------------- MODULE JobContract -----------------------------
(***************************************************************************)
(* What a background job (crates/server/src/jobs.rs) promises to anyone    *)
(* who polls it: it runs, a request to cancel shows at once, and it ends   *)
(* exactly once, as cancelled only if somebody asked.  A job that was      *)
(* asked to stop may still succeed or fail: cancellation is best-effort.   *)
(***************************************************************************)
VARIABLE status

Live == {"running", "cancelling"}
Terminal == {"succeeded", "failed", "cancelled"}

ContractInit == status = "running"

Ask == status = "running" /\ status' = "cancelling"
Succeed == status \in Live /\ status' = "succeeded"
Fail == status \in Live /\ status' = "failed"
Stop == status = "cancelling" /\ status' = "cancelled"

ContractNext == Ask \/ Succeed \/ Fail \/ Stop

ContractSafety == ContractInit /\ [][ContractNext]_status
ContractSpec == ContractSafety /\ <>(status \in Terminal)
=============================================================================
