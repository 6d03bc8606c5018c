----------------------------- MODULE AuditChain -----------------------------
(***************************************************************************)
(* packages/utils/audit: the hash-chained audit ledger of one workflow,    *)
(* appended to by executor workers, the analysis pipeline and API          *)
(* handlers at the same time.                                              *)
(*                                                                         *)
(* An append is one transaction under READ COMMITTED: it begins, which     *)
(* fixes the row's timestamp (CURRENT_TIMESTAMP), reads the newest row's   *)
(* hash, and inserts and commits.  Nothing locks the ledger.               *)
(*                                                                         *)
(* SHA-256 is modelled as an injective function: a payload's hash is the   *)
(* payload, an event's hash the sequence of payload hashes it was computed *)
(* from.  A payload stands for actor, action and metadata; the metadata's  *)
(* normal form is the same before and after it was stored as jsonb.        *)
(***************************************************************************)
EXTENDS Integers, Sequences, FiniteSetsExt

CONSTANTS
  Appenders,  \* transactions that may append at the same time
  Payloads,   \* what an entry may say
  MaxAppends, \* bound on the number of appends
  MaxFaults   \* bound on failed statements

ASSUME AuditAssumption ==
  /\ MaxAppends \in Nat
  /\ MaxFaults \in Nat

VARIABLES
  ledger,     \* the committed rows, a function on their timestamps
  clock,      \* the time of the last BEGIN
  pc,         \* the step each appender is at
  start,      \* the timestamp of its transaction
  payload,    \* the entry it appends
  prev,       \* previousHash
  overlapped, \* whether two appends have ever been open at the same time
  faults      \* failed statements so far

vars == <<ledger, clock, pc, start, payload, prev, overlapped, faults>>

(* previous_event_hash IS NULL; no event has this hash.                    *)
Nil == <<>>

Row == [payload : Payloads, payloadHash : Payloads, prev : Seq(Payloads), hash : Seq(Payloads)]

TypeOK ==
  /\ DOMAIN ledger \subseteq 1..clock
  /\ \A t \in DOMAIN ledger : ledger[t] \in Row
  /\ clock \in Nat
  /\ pc \in [Appenders -> {"idle", "read", "insert"}]
  /\ start \in [Appenders -> 0..clock]
  /\ \A a \in Appenders : pc[a] # "idle" => payload[a] \in Payloads
  /\ prev \in [Appenders -> Seq(Payloads)]
  /\ overlapped \in BOOLEAN
  /\ faults \in Nat

None == "none"

Init ==
  /\ ledger = [t \in {} |-> None]
  /\ clock = 0
  /\ pc = [a \in Appenders |-> "idle"]
  /\ start = [a \in Appenders |-> 0]
  /\ payload = [a \in Appenders |-> None]
  /\ prev = [a \in Appenders |-> Nil]
  /\ overlapped = FALSE
  /\ faults = 0

-----------------------------------------------------------------------------
(* A bug variant of EventHash: the previous hash is left out.              *)
EventHashUnchained(previous, payloadHash) == <<payloadHash>>

(* SHA256(previous_event_hash | payload_hash).                             *)
EventHash(previous, payloadHash) == Append(previous, payloadHash)

(* The row AppendAuditLog writes.                                          *)
NewRow(p, previous) ==
  [payload |-> p, payloadHash |-> p, prev |-> previous, hash |-> EventHash(previous, p)]

(* A bug variant of NewestHash: ORDER BY timestamp without DESC.           *)
OldestHash == IF DOMAIN ledger = {} THEN Nil ELSE ledger[Min(DOMAIN ledger)].hash

(* SELECT event_hash ... ORDER BY timestamp DESC LIMIT 1.                  *)
NewestHash == IF DOMAIN ledger = {} THEN Nil ELSE ledger[Max(DOMAIN ledger)].hash

Begin(a, p) ==
  /\ pc[a] = "idle"
  /\ clock < MaxAppends
  /\ clock' = clock + 1
  /\ start' = [start EXCEPT ![a] = clock + 1]
  /\ payload' = [payload EXCEPT ![a] = p]
  /\ pc' = [pc EXCEPT ![a] = "read"]
  /\ overlapped' = (overlapped \/ \E b \in Appenders : pc[b] # "idle")
  /\ UNCHANGED <<ledger, prev, faults>>

ReadPrevious(a) ==
  /\ pc[a] = "read"
  /\ prev' = [prev EXCEPT ![a] = NewestHash]
  /\ pc' = [pc EXCEPT ![a] = "insert"]
  /\ UNCHANGED <<ledger, clock, start, payload, overlapped, faults>>

(* The appender's transaction is over.                                     *)
End(a) ==
  /\ pc' = [pc EXCEPT ![a] = "idle"]
  /\ start' = [start EXCEPT ![a] = 0]
  /\ payload' = [payload EXCEPT ![a] = None]
  /\ prev' = [prev EXCEPT ![a] = Nil]
  /\ UNCHANGED <<clock, overlapped>>

(* DEFAULT CURRENT_TIMESTAMP: the time the transaction began.              *)
Timestamp(a) == start[a]

Insert(a) ==
  /\ pc[a] = "insert"
  /\ ledger' = [t \in DOMAIN ledger \cup {Timestamp(a)} |->
                  IF t = Timestamp(a) THEN NewRow(payload[a], prev[a]) ELSE ledger[t]]
  /\ End(a)
  /\ UNCHANGED faults

(* A statement fails: PostgreSQL rolls the whole transaction back, also    *)
(* when the code treats the failed read as the first record.               *)
Fail(a) ==
  /\ pc[a] # "idle"
  /\ faults < MaxFaults
  /\ faults' = faults + 1
  /\ End(a)
  /\ UNCHANGED ledger

Next ==
  \E a \in Appenders :
    \/ \E p \in Payloads : Begin(a, p)
    \/ ReadPrevious(a) \/ Insert(a) \/ Fail(a)

Spec == Init /\ [][Next]_vars

-----------------------------------------------------------------------------
(* VerifyChain on a ledger: rows in the order of their timestamps, each    *)
(* linked to the one before it and both hashes recomputed.                 *)
Linked(l, t) ==
  LET before == {u \in DOMAIN l : u < t}
  IN l[t].prev = IF before = {} THEN Nil ELSE l[Max(before)].hash

Hashed(l, t) ==
  /\ l[t].payloadHash = l[t].payload
  /\ l[t].hash = EventHash(l[t].prev, l[t].payloadHash)

VerifyChain(l) == DOMAIN l # {} /\ \A t \in DOMAIN l : Linked(l, t) /\ Hashed(l, t)

(* The ledger without one of its rows, and with one of them replaced.      *)
Without(l, t) == [u \in DOMAIN l \ {t} |-> l[u]]
With(l, t, r) == [u \in DOMAIN l |-> IF u = t THEN r ELSE l[u]]

(* As long as appends do not overlap, the ledger verifies at every moment, *)
(* failed appends included (audit.go:60-110 against 113-192).              *)
SerialAppendsVerify == ~overlapped /\ DOMAIN ledger # {} => VerifyChain(ledger)

(* What the appenders' steps keep: until two appends overlap, at most one  *)
(* is open, it began after every row was written, and the hash it has read *)
(* is still the newest one when it inserts.                                *)
AuditInv ==
  /\ payload \in [Appenders -> Payloads \cup {None}]
  /\ \A a \in Appenders : pc[a] # "idle" => start[a] > 0
  /\ ~overlapped =>
       /\ \A a, b \in Appenders : pc[a] # "idle" /\ pc[b] # "idle" => a = b
       /\ \A a \in Appenders : pc[a] # "idle" => \A t \in DOMAIN ledger : t < start[a]
       /\ \A a \in Appenders : pc[a] = "insert" => prev[a] = NewestHash
       /\ \A t \in DOMAIN ledger : Linked(ledger, t) /\ Hashed(ledger, t)

(* Tampering with a verified ledger is detected: an edited payload in any  *)
(* row; a row before the newest whose hashes were recomputed to match; a   *)
(* removed row before the newest (audit.go:146-184).                       *)
TamperingDetected ==
  VerifyChain(ledger) =>
    \A t \in DOMAIN ledger :
      /\ \A p \in Payloads \ {ledger[t].payload} :
           /\ ~VerifyChain(With(ledger, t, [ledger[t] EXCEPT !.payload = p]))
           /\ t < Max(DOMAIN ledger) => ~VerifyChain(With(ledger, t, NewRow(p, ledger[t].prev)))
      /\ t < Max(DOMAIN ledger) => ~VerifyChain(Without(ledger, t))
=============================================================================
