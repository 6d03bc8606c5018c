---------------------------- MODULE LocalProvider ----------------------------
(***************************************************************************)
(* services/payment-provider/local.go: the PostgreSQL-backed payment       *)
(* provider.  One payment: its local_provider_payments row and the rows of *)
(* local_provider_attempts.  Each operator below is one SQL statement or   *)
(* transaction; the executor decides what happens between them.            *)
(***************************************************************************)
EXTENDS Integers

VARIABLES
  local,     \* status of the local_provider_payments row, or "ABSENT"
  charges    \* local_provider_attempts: how many rows of each status

providerVars == <<local, charges>>

PaymentStatus == {"FAILED", "PENDING", "CANCELLED", "CAPTURED"}

HardDeclines == {"EXPIRED_CARD", "INVALID_ACCOUNT", "CARD_BLOCKED",
                 "STOLEN_CARD", "DO_NOT_HONOR"}

ProviderTypeOK ==
  /\ local \in PaymentStatus \cup {"ABSENT"}
  /\ charges \in [{"SUCCESS", "FAILED"} -> Nat]

ProviderInit ==
  /\ local = "ABSENT"
  /\ charges = [s \in {"SUCCESS", "FAILED"} |-> 0]

(* The decline evaluation of CreateRetryAttemptWithCustomer.               *)
RetrySuccess(code, amount) ==
  CASE code \in HardDeclines -> FALSE
    [] code = "INSUFFICIENT_FUNDS" -> amount > 0
    [] OTHER -> TRUE

(* A bug variant of InitializeFromApplicationPayment: the upsert also      *)
(* takes over the status of the application row.                           *)
InitializeOverwriting(status) ==
  /\ local' = status
  /\ UNCHANGED charges

(* INSERT ... ON CONFLICT DO UPDATE SET updated_at: an existing row keeps  *)
(* its status, whatever the caller read from payments before.              *)
InitializeFromApplicationPayment(status) ==
  /\ local' = IF local = "ABSENT" THEN status ELSE local
  /\ UNCHANGED charges

(* The transaction of CreateRetryAttemptWithCustomer: an unconditional     *)
(* UPDATE of the row and one attempt row.                                  *)
RecordAttempt(success) ==
  /\ local' = IF success THEN "CAPTURED" ELSE "FAILED"
  /\ charges' = [charges EXCEPT ![IF success THEN "SUCCESS" ELSE "FAILED"] = @ + 1]
=============================================================================
