---------------------------- MODULE MCAuditChain ----------------------------
(* Instances of AuditChain for TLC.                                        *)
EXTENDS AuditChain

(* Two entries that can be told apart.                                     *)
MCPayloads == {"RECOVERY_EXECUTED", "RECOVERY_OUTCOME_RECORDED"}
=============================================================================
