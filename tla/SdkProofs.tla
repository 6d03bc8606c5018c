------------------------------ MODULE SdkProofs ------------------------------
(***************************************************************************)
(* Theorems about SdkIngest and ReviveCli for any projects, notifications, *)
(* retries, deliveries, calls and faults.                                  *)
(***************************************************************************)
EXTENDS SdkIngest, FiniteSetTheorems, TLAPS

(* Replacing an element of a finite set does not make it larger.           *)
LEMMA ReplaceCardinality ==
  ASSUME NEW S, IsFiniteSet(S), NEW x \in S, NEW y, NEW T, T \subseteq (S \ {x}) \cup {y}
  PROVE  IsFiniteSet(T) /\ Cardinality(T) <= Cardinality(S)
<1>1. IsFiniteSet(S \ {x}) /\ Cardinality(S \ {x}) = Cardinality(S) - 1
  BY FS_RemoveElement
<1>2. /\ IsFiniteSet((S \ {x}) \cup {y})
      /\ Cardinality((S \ {x}) \cup {y}) <= Cardinality(S)
  <2>1. Cardinality(S) \in Nat
    BY FS_CardinalityType
  <2>2. /\ IsFiniteSet((S \ {x}) \cup {y})
        /\ \/ Cardinality((S \ {x}) \cup {y}) = Cardinality(S \ {x})
           \/ Cardinality((S \ {x}) \cup {y}) = Cardinality(S \ {x}) + 1
    BY <1>1, FS_AddElement
  <2>3. QED
    BY <1>1, <2>1, <2>2
<1>3. IsFiniteSet(T) /\ Cardinality(T) <= Cardinality((S \ {x}) \cup {y})
  BY <1>2, FS_Subset
<1>4. QED
  BY <1>2, <1>3, FS_CardinalityType

(* The calls: an execute call is known by its notification.                *)
LEMMA CallFacts ==
  /\ \A c \in Calls : c.n \in Notifications /\ c.kind \in {"process", "execute", "get"}
  /\ \A c, d \in Calls : c.kind = "execute" /\ d.kind = "execute" /\ c.n = d.n => c = d
BY DEF Calls

(* The requests' fields.                                                   *)
LEMMA RequestFacts ==
  TypeOK => \A q \in requests : /\ q \in Request /\ q.call \in Calls
                                /\ q.orphan \in BOOLEAN /\ q.status \in Statuses
                                /\ q.verified \in BOOLEAN
                                /\ q.call.n \in Notifications
                                /\ q.call.n.pay \in Payments
BY CallFacts DEF TypeOK, Request, Payments

(* A merchant's project before the first init.                             *)
LEMMA InitInv == Init => TypeOK /\ SdkInv
<1> SUFFICES ASSUME Init PROVE TypeOK /\ SdkInv
  OBVIOUS
<1>1. CliTypeOK
  <2>1. env \in Settings
    BY DEF Init, CliInit, NoFile, OwnEnv, Settings
  <2>2. project \in Project
    BY CliAssumption DEF Init, CliInit
  <2>3. QED
    BY <2>1, <2>2 DEF Init, CliInit, CliTypeOK
<1>2. TypeOK
  BY <1>1, SdkAssumption DEF Init, TypeOK
<1>3. IsFiniteSet(requests) /\ \A c \in Calls : Started(c) = {}
  BY FS_EmptySet DEF Init, Started
<1>4. \A c \in Calls : charges[c.n] + Cardinality(Started(c)) <= Begun(c)
  <2> SUFFICES ASSUME NEW c \in Calls
               PROVE  charges[c.n] + Cardinality(Started(c)) <= Begun(c)
    OBVIOUS
  <2>1. Cardinality(Started(c)) = 0
    BY <1>3, FS_EmptySet
  <2>2. charges[c.n] = 0 /\ Begun(c) = 0
    BY CallFacts DEF Init, Begun
  <2>3. QED
    BY <2>1, <2>2
<1>5. config.mode # "live"
  BY DEF Init, Stopped
<1>6. QED
  <2>1. \A c \in Calls : Honest(c)
    BY DEF Init, Honest
  <2>2. \A p \in terminal : local[p] # "CAPTURED"
    BY DEF Init
  <2>3. QED
    BY <1>2, <1>3, <1>4, <1>5, <2>1, <2>2 DEF Init, SdkInv, AckedFailureIsQueued

(* Setting the project up keeps the settings' types.                       *)
LEMMA SetUpFacts ==
  ASSUME CliTypeOK, CliNext
  PROVE  CliTypeOK'
<1>1. CASE RunInit
  <2>1. HandlerPath(project) \in Path
    BY DEF CliTypeOK, HandlerPath, Path, Project, Routers
  <2>2. env' = env \/ (env = NoFile /\ env' = EnvTemplate)
    BY <1>1 DEF RunInit, GenerateEnvironmentFile
  <2>3. env' \in Settings
    BY <2>2 DEF CliTypeOK, NoFile, EnvTemplate, Settings
  <2>4. QED
    BY <1>1, <2>1, <2>3 DEF RunInit, GenerateEnvironmentFile, GenerateWebhookHandler, CliTypeOK
<1>2. CASE SetSecret
  BY <1>2 DEF SetSecret, CliTypeOK, Settings
<1>3. CASE SetKey
  BY <1>3 DEF SetKey, CliTypeOK, Settings
<1>4. CASE UseMockMode
  BY <1>4 DEF UseMockMode, CliTypeOK, Settings
<1>5. QED
  BY <1>1, <1>2, <1>3, <1>4 DEF CliNext

(* The client's step when an attempt has ended: the call settles or tries  *)
(* again.  The attempts begun stay the same, and no request but q awaits   *)
(* the call.                                                               *)
LEMMA ClientStep ==
  ASSUME TypeOK, SdkInv, NEW q \in requests, ~q.orphan,
         UNCHANGED <<cliVars, config, apiVars>>, faults' \in 0..MaxFaults,
         \/ requests' = requests \ {q}
         \/ /\ q.pc # "reply"
            /\ requests' = (requests \ {q}) \cup {[q EXCEPT !.orphan = TRUE]},
         NEW status,
         \/ /\ q.pc = "reply" /\ q.status \in 200..299
            /\ Settle(q.call, Ending(q)) /\ UNCHANGED attempt
         \/ RetryOrThrow(q.call, status)
  PROVE  TypeOK' /\ SdkInv'
<1> DEFINE c == q.call
           o == [q EXCEPT !.orphan = TRUE]
<1>1. q \in Request /\ c \in Calls /\ c.n \in Notifications /\ phase[c] = "wait" /\ config # Stopped
  BY RequestFacts DEF SdkInv
<1>2. o \in Request /\ o.orphan /\ o.call = c /\ o.pc = q.pc
  BY <1>1 DEF Request
<1>3. \E x \in {"send"} \cup Settled, y \in 0..MaxRetries :
        /\ phase' = [phase EXCEPT ![c] = x]
        /\ attempt' = [attempt EXCEPT ![c] = y]
        /\ IF x = "send" THEN y = attempt[c] + 1 ELSE y = attempt[c]
        /\ x \in {"ok", "unverified"} =>
             q.pc = "reply" /\ q.status \in 200..299 /\ x = Ending(q)
        /\ \/ acked' = acked
           \/ x = "ok" /\ c.kind = "process" /\ acked' = acked \cup {c.n}
  <2>0. /\ attempt[c] \in 0..MaxRetries /\ MaxRetries \in Nat
        /\ attempt' = attempt => attempt' = [attempt EXCEPT ![c] = attempt[c]]
    BY <1>1, SdkAssumption DEF TypeOK
  <2>1. CASE /\ q.pc = "reply" /\ q.status \in 200..299
             /\ Settle(c, Ending(q)) /\ attempt' = attempt
    <3>1. /\ Ending(q) \in Settled /\ Ending(q) # "send"
          /\ c.kind = "process" => Ending(q) = "ok"
      BY DEF Ending, Settled
    <3>2. QED
      BY <1>1, <2>0, <2>1, <3>1 DEF Settle
  <2>2. CASE RetryOrThrow(c, status)
    <3>1. CASE status \notin {400, 401, 403} /\ attempt[c] < MaxRetries
      <4>1. attempt[c] + 1 \in 0..MaxRetries /\ attempt' = [attempt EXCEPT ![c] = attempt[c] + 1]
        BY <2>0, <2>2, <3>1 DEF RetryOrThrow
      <4>2. phase' = [phase EXCEPT ![c] = "send"] /\ acked' = acked
        BY <2>2, <3>1 DEF RetryOrThrow
      <4>3. QED
        BY <4>1, <4>2
    <3>2. CASE ~(status \notin {400, 401, 403} /\ attempt[c] < MaxRetries)
      <4> DEFINE x == IF status \in {400, 401, 403} THEN "rejected" ELSE "failed"
      <4>1. Settle(c, x) /\ attempt' = attempt
        BY <2>2, <3>2 DEF RetryOrThrow
      <4>2. /\ x \in Settled /\ x \notin {"ok", "unverified", "send"}
            /\ HandlerStatus(x) # 200
        BY DEF Settled, HandlerStatus
      <4> HIDE DEF x
      <4>3. phase' = [phase EXCEPT ![c] = x] /\ acked' = acked
        BY <4>1, <4>2 DEF Settle
      <4>4. QED
        BY <2>0, <4>1, <4>2, <4>3
    <3>3. QED
      BY <3>1, <3>2
  <2>3. QED
    BY <2>1, <2>2
<1>4. PICK x \in {"send"} \cup Settled, y \in 0..MaxRetries :
        /\ phase' = [phase EXCEPT ![c] = x]
        /\ attempt' = [attempt EXCEPT ![c] = y]
        /\ IF x = "send" THEN y = attempt[c] + 1 ELSE y = attempt[c]
        /\ x \in {"ok", "unverified"} =>
             q.pc = "reply" /\ q.status \in 200..299 /\ x = Ending(q)
        /\ \/ acked' = acked
           \/ x = "ok" /\ c.kind = "process" /\ acked' = acked \cup {c.n}
  BY <1>3
<1>5. \A r \in requests' : r \in requests \ {q} \/ (r = o /\ q.pc # "reply")
  OBVIOUS
<1> HIDE DEF c, o
<1>6. IsFiniteSet(requests')
  BY <1>5, ReplaceCardinality DEF SdkInv
<1>7. /\ phase'[c] = x /\ attempt'[c] = y
      /\ \A d \in Calls \ {c} : phase'[d] = phase[d] /\ attempt'[d] = attempt[d]
  BY <1>1, <1>4 DEF TypeOK
<1>8. UNCHANGED <<config, known, events, queued, terminal, paid, local, charges, missed>>
  BY DEF apiVars, provider
<1>9. TypeOK'
  <2>1. requests' \subseteq Request /\ acked' \subseteq Notifications
    BY <1>1, <1>2, <1>4, <1>5 DEF TypeOK
  <2>2. /\ phase' \in [Calls -> {"unused", "send", "wait"} \cup Settled]
        /\ attempt' \in [Calls -> 0..MaxRetries]
    BY <1>1, <1>4 DEF TypeOK
  <2>3. CliTypeOK'
    BY DEF TypeOK, CliTypeOK, cliVars
  <2>4. QED
    BY <1>8, <2>1, <2>2, <2>3 DEF TypeOK
<1>10. \A r \in requests' : ~r.orphan => r \in requests /\ r.call # c
  BY <1>2, <1>5, RequestFacts DEF SdkInv, c
<1>11. \A r \in requests' : ~r.orphan => phase'[r.call] = "wait"
  BY <1>7, <1>10, RequestFacts DEF SdkInv
<1>12. \A r, s \in requests' : ~r.orphan /\ ~s.orphan /\ r.call = s.call => r = s
  BY <1>10 DEF SdkInv
<1>13. \A r \in requests' : /\ r.pc \in {"persist", "store"} => r.call.kind = "process"
                            /\ r.pc \in {"init", "charge"} => r.call.kind = "execute"
  BY <1>2, <1>5 DEF SdkInv, c
<1>14. \A r \in requests' : r.pc = "reply" /\ r.status \in 200..299 => KeepsPromise(r)'
  BY <1>2, <1>5, <1>8 DEF SdkInv, KeepsPromise, Captured
<1>15. ASSUME NEW d \in Calls, d.kind = "execute"
       PROVE  charges'[d.n] + Cardinality(Started(d)') <= Begun(d)'
  <2>1. IsFiniteSet(Started(d)) /\ IsFiniteSet(Started(d)')
        /\ Cardinality(Started(d)') <= Cardinality(Started(d))
    <3>1. IsFiniteSet(Started(d))
      BY FS_Subset DEF SdkInv, Started
    <3>2. CASE q \in Started(d)
      <4>1. Started(d)' \subseteq (Started(d) \ {q}) \cup {o}
        BY <1>5 DEF Started
      <4>2. QED
        BY <3>1, <3>2, <4>1, ReplaceCardinality
    <3>3. CASE q \notin Started(d)
      <4>1. Started(d)' \subseteq Started(d)
        BY <1>2, <1>5, <3>3 DEF Started, c
      <4>2. QED
        BY <3>1, <4>1, FS_Subset
    <3>4. QED
      BY <3>2, <3>3
  <2>2. Cardinality(Started(d)) \in Nat /\ Cardinality(Started(d)') \in Nat
    BY <2>1, FS_CardinalityType
  <2>3. Begun(d)' = Begun(d) /\ Begun(d) \in Nat
    <3>1. attempt[d] \in Nat /\ phase[d] \in {"unused", "send", "wait"} \cup Settled
      BY SdkAssumption DEF TypeOK
    <3>2. CASE d = c
      BY <1>1, <1>4, <1>7, <3>1, <3>2 DEF Begun, Settled
    <3>3. CASE d # c
      BY <1>7, <3>1, <3>3 DEF Begun
    <3>4. QED
      BY <3>2, <3>3
  <2>4. charges[d.n] \in Nat /\ charges[d.n] + Cardinality(Started(d)) <= Begun(d)
    BY <1>15, CallFacts DEF TypeOK, SdkInv
  <2>5. QED
    BY <1>8, <2>1, <2>2, <2>3, <2>4
<1>16. x \in {"ok", "unverified"} => KeepsPromise(q)
  BY <1>4 DEF SdkInv
<1>17. ASSUME NEW d \in Calls, d.kind = "execute"
       PROVE  Honest(d)'
  <2>1. CASE d = c
    BY <1>4, <1>7, <1>8, <1>16, <1>17, <2>1 DEF KeepsPromise, Captured, Honest, Ending, c
  <2>2. CASE d # c
    BY <1>7, <1>8, <1>17, <2>2 DEF SdkInv, Captured, Honest
  <2>3. QED
    BY <2>1, <2>2
<1>18. AckedFailureIsQueued'
  BY <1>4, <1>8, <1>16 DEF SdkInv, AckedFailureIsQueued, KeepsPromise, c
<1>19. QED
  BY <1>1, <1>6, <1>8, <1>9, <1>11, <1>12, <1>13, <1>14, <1>15, <1>17, <1>18 DEF SdkInv

(* A step of the API on request q: it goes on as r, or is dropped because  *)
(* its client has gone.  Only an attempt not yet answered charges, so a    *)
(* charge uses up one of them.                                             *)
LEMMA ServeStep ==
  ASSUME TypeOK, SdkInv, NEW q \in requests, NEW r \in Request,
         r.call = q.call, r.orphan = q.orphan,
         r.pc \in {"start", "init", "charge"} => q.pc \in {"start", "init", "charge"},
         requests' = requests \ {q} \/ requests' = (requests \ {q}) \cup {r},
         UNCHANGED <<cliVars, sdkVars>>, faults' \in 0..MaxFaults,
         known' \subseteq Payments, events' \subseteq Payments \X Nat,
         queued' \in [Notifications -> Nat],
         \A n \in Notifications : queued'[n] >= queued[n],
         missed \subseteq missed', missed' \subseteq Notifications,
         terminal' = terminal, paid' = paid,
         local' \in [Payments -> {"ABSENT", "FAILED", "CAPTURED"}],
         \A p \in Payments : Captured(p) => Captured(p)',
         \A p \in terminal : local'[p] = "CAPTURED" => p \in paid,
         \/ charges' = charges
         \/ /\ q.pc = "charge" /\ r.pc = "reply"
            /\ charges' = [charges EXCEPT ![q.call.n] = @ + 1],
         r.pc \in {"persist", "store"} => r.call.kind = "process",
         r.pc \in {"init", "charge"} => r.call.kind = "execute",
         r.pc = "reply" /\ r.status \in 200..299 => KeepsPromise(r)'
  PROVE  TypeOK' /\ SdkInv'
<1> DEFINE c == q.call
<1>1. q \in Request /\ c \in Calls /\ c.n \in Notifications /\ config # Stopped
  BY RequestFacts DEF SdkInv
<1>2. UNCHANGED <<config, phase, attempt, acked>>
  BY DEF sdkVars
<1>3. /\ charges' \in [Notifications -> Nat]
      /\ \A n \in Notifications : charges'[n] >= charges[n]
  BY <1>1 DEF TypeOK
<1>4. TypeOK'
  <2>1. requests' \subseteq Request
    BY DEF TypeOK
  <2>2. CliTypeOK'
    BY DEF TypeOK, CliTypeOK, cliVars
  <2>3. QED
    BY <1>2, <1>3, <2>1, <2>2 DEF TypeOK
<1>5. IsFiniteSet(requests')
  BY ReplaceCardinality DEF SdkInv
<1>6. \A s \in requests' : s \in requests \ {q} \/ s = r
  OBVIOUS
<1>7. \A s \in requests' : ~s.orphan => phase'[s.call] = "wait"
  BY <1>2, <1>6 DEF SdkInv
<1>8. \A s, t \in requests' : ~s.orphan /\ ~t.orphan /\ s.call = t.call => s = t
  BY <1>6 DEF SdkInv
<1>9. \A s \in requests' : /\ s.pc \in {"persist", "store"} => s.call.kind = "process"
                           /\ s.pc \in {"init", "charge"} => s.call.kind = "execute"
  BY <1>6 DEF SdkInv
<1>10. \A s \in requests :  KeepsPromise(s) => KeepsPromise(s)'
  <2>1. ASSUME NEW s \in requests, KeepsPromise(s)
        PROVE  KeepsPromise(s)'
    <3>1. s.call.n \in Notifications /\ s.call.n.pay \in Payments
      BY RequestFacts
    <3>2. /\ queued[s.call.n] \in Nat /\ queued'[s.call.n] \in Nat
          /\ queued'[s.call.n] >= queued[s.call.n]
          /\ charges[s.call.n] \in Nat /\ charges'[s.call.n] \in Nat
          /\ charges'[s.call.n] >= charges[s.call.n]
      BY <1>3, <3>1 DEF TypeOK
    <3>3. QED
      BY <2>1, <3>1, <3>2 DEF KeepsPromise, Captured
  <2>2. QED
    BY <2>1
<1>11. \A s \in requests' : s.pc = "reply" /\ s.status \in 200..299 => KeepsPromise(s)'
  BY <1>6, <1>10 DEF SdkInv
<1>12. ASSUME NEW d \in Calls, d.kind = "execute"
       PROVE  charges'[d.n] + Cardinality(Started(d)') <= Begun(d)'
  <2>2. IsFiniteSet(Started(d))
    BY FS_Subset DEF SdkInv, Started
  <2>3. /\ IsFiniteSet(Started(d) \ {q})
        /\ Cardinality(Started(d) \ {q}) =
             IF q \in Started(d) THEN Cardinality(Started(d)) - 1 ELSE Cardinality(Started(d))
    BY <2>2, FS_RemoveElement
  <2>1. r.pc = "reply" => Started(d)' \subseteq Started(d) \ {q}
    BY <1>6 DEF Started
  <2>4. /\ Cardinality(Started(d)') <= Cardinality(Started(d))
        /\ r.pc = "reply" => Cardinality(Started(d)') <= Cardinality(Started(d) \ {q})
        /\ IsFiniteSet(Started(d)')
    <3>1. CASE q \in Started(d)
      <4>1. Started(d)' \subseteq (Started(d) \ {q}) \cup {r}
        BY <1>6 DEF Started
      <4>2. QED
        <5>1. IsFiniteSet(Started(d)') /\ Cardinality(Started(d)') <= Cardinality(Started(d))
          BY <2>2, <3>1, <4>1, ReplaceCardinality
        <5>2. r.pc = "reply" => Cardinality(Started(d)') <= Cardinality(Started(d) \ {q})
          BY <2>1, <2>3, FS_Subset
        <5>3. QED
          BY <5>1, <5>2
    <3>2. CASE q \notin Started(d)
      <4>1. Started(d)' \subseteq Started(d)
        BY <1>6, <3>2 DEF Started
      <4>2. Started(d) \ {q} = Started(d)
        BY <3>2
      <4>3. QED
        BY <2>2, <4>1, <4>2, FS_Subset
    <3>3. QED
      BY <3>1, <3>2
  <2>5. Cardinality(Started(d)) \in Nat /\ Cardinality(Started(d)') \in Nat
    BY <2>2, <2>4, FS_CardinalityType
  <2>6. Begun(d)' = Begun(d) /\ Begun(d) \in Nat
    <3>1. attempt[d] \in Nat
      BY SdkAssumption DEF TypeOK
    <3>2. QED
      BY <1>2, <3>1 DEF Begun
  <2>7. charges[d.n] \in Nat /\ charges[d.n] + Cardinality(Started(d)) <= Begun(d)
    BY <1>12, CallFacts DEF TypeOK, SdkInv
  <2>8. \/ charges'[d.n] = charges[d.n]
        \/ charges'[d.n] = charges[d.n] + 1 /\ q \in Started(d) /\ r.pc = "reply"
    <3>1. CASE charges' = charges
      BY <3>1
    <3>2. CASE /\ q.pc = "charge" /\ r.pc = "reply" /\ c.kind = "execute"
               /\ charges' = [charges EXCEPT ![c.n] = @ + 1]
      <4>1. CASE c.n = d.n
        <5>1. c = d
          BY <1>1, <1>12, <3>2, <4>1, CallFacts
        <5>2. QED
          BY <1>1, <3>2, <4>1, <5>1 DEF TypeOK, Started
      <4>2. CASE c.n # d.n
        BY <1>1, <3>2, <4>2, CallFacts DEF TypeOK
      <4>3. QED
        BY <4>1, <4>2
    <3>3. q.pc = "charge" => c.kind = "execute"
      BY DEF SdkInv
    <3>4. QED
      BY <3>1, <3>2, <3>3
  <2>9. QED
    BY <2>2, <2>3, <2>4, <2>5, <2>6, <2>7, <2>8, FS_CardinalityType
<1>13. ASSUME NEW d \in Calls, d.kind = "execute"
       PROVE  Honest(d)'
  <2>1. d.n \in Notifications /\ d.n.pay \in Payments /\ Honest(d)
    BY <1>13, CallFacts DEF SdkInv, Payments
  <2>2. charges[d.n] \in Nat /\ charges'[d.n] \in Nat /\ charges'[d.n] >= charges[d.n]
    BY <1>3, <2>1 DEF TypeOK
  <2>3. QED
    BY <1>2, <2>1, <2>2 DEF Honest
<1>14. AckedFailureIsQueued'
  <2> SUFFICES ASSUME NEW n \in acked, n.type = "payment.failed", config.mode = "live"
               PROVE  queued'[n] > 0 \/ n \in missed'
    BY <1>2 DEF AckedFailureIsQueued
  <2>1. queued[n] > 0 \/ n \in missed
    BY DEF SdkInv, AckedFailureIsQueued
  <2>2. queued[n] \in Nat /\ queued'[n] \in Nat /\ queued'[n] >= queued[n]
    BY DEF TypeOK
  <2>3. QED
    BY <2>1, <2>2
<1>15. QED
  BY <1>1, <1>2, <1>4, <1>5, <1>7, <1>8, <1>9, <1>11, <1>12, <1>13, <1>14 DEF SdkInv

(* Faults stay within their bound.                                         *)
LEMMA StatementFaults ==
  ASSUME TypeOK, NEW q, NEW ok, Statement(q, ok)
  PROVE  faults' \in 0..MaxFaults
BY SdkAssumption DEF TypeOK, Statement

(* The answer of a request.                                                *)
LEMMA ReplyFacts ==
  ASSUME TypeOK, NEW q \in requests, NEW code \in Statuses, Reply(q, code)
  PROVE  \E r \in Request :
           /\ r.call = q.call /\ r.orphan = q.orphan /\ r.pc = "reply" /\ r.status = code
           /\ requests' = requests \ {q} \/ requests' = (requests \ {q}) \cup {r}
<1> DEFINE r == [q EXCEPT !.pc = "reply", !.status = code]
<1>1. /\ r \in Request /\ r.call = q.call /\ r.orphan = q.orphan
      /\ r.pc = "reply" /\ r.status = code
  BY RequestFacts DEF Request
<1>2. requests' = requests \ {q} \/ requests' = (requests \ {q}) \cup {r}
  BY DEF Reply, Move
<1>3. QED
  BY <1>1, <1>2

(* The answer of an execute request that succeeded.                        *)
LEMMA ExecutedFacts ==
  ASSUME TypeOK, NEW q \in requests, NEW v \in BOOLEAN, Executed(q, v)
  PROVE  \E r \in Request :
           /\ r.call = q.call /\ r.orphan = q.orphan /\ r.pc = "reply" /\ r.status = 200
           /\ r.verified = v
           /\ requests' = requests \ {q} \/ requests' = (requests \ {q}) \cup {r}
<1> DEFINE r == [q EXCEPT !.pc = "reply", !.status = 200, !.verified = v]
<1>0. 200 \in Statuses
  BY DEF Statuses
<1>1. /\ r \in Request /\ r.call = q.call /\ r.orphan = q.orphan
      /\ r.pc = "reply" /\ r.status = 200 /\ r.verified = v
  BY <1>0, RequestFacts DEF Request
<1>2. requests' = requests \ {q} \/ requests' = (requests \ {q}) \cup {r}
  BY DEF Executed, Move
<1>3. QED
  BY <1>1, <1>2

(* No duplicate is ever found: the table has no such columns.              *)
LEMMA NoDuplicateCheck == ~DuplicateCheckRuns
BY DEF DuplicateCheckRuns, EventColumns

(* Every statement of the API keeps the invariant.                         *)
LEMMA ServeInv ==
  ASSUME TypeOK, SdkInv, NEW q \in requests, Serve(q)
  PROVE  TypeOK' /\ SdkInv'
<1>1. /\ q \in Request /\ q.call \in Calls /\ q.call.n \in Notifications
      /\ q.call.n.pay \in Payments
  BY RequestFacts
<1>2. /\ queued \in [Notifications -> Nat] /\ \A n \in Notifications : queued[n] >= queued[n]
      /\ known \subseteq Payments /\ events \subseteq Payments \X Nat
      /\ missed \subseteq Notifications /\ faults \in 0..MaxFaults
      /\ local \in [Payments -> {"ABSENT", "FAILED", "CAPTURED"}]
      /\ \A p \in terminal : local[p] = "CAPTURED" => p \in paid
      /\ terminal \subseteq Payments /\ paid \subseteq Payments
  BY DEF TypeOK, SdkInv
<1>3. \A s \in {401, 404, 502} : s \in Statuses /\ s \notin 200..299
  BY DEF Statuses
<1>4. CASE Refuse(q)
  <2>1. /\ Reply(q, 401)
        /\ UNCHANGED <<cliVars, sdkVars, known, events, queued, terminal, paid, local, charges, missed, faults>>
    BY <1>4 DEF Refuse, apiVars, provider
  <2>2. PICK r \in Request :
          /\ r.call = q.call /\ r.orphan = q.orphan /\ r.pc = "reply" /\ r.status = 401
          /\ requests' = requests \ {q} \/ requests' = (requests \ {q}) \cup {r}
    BY <1>3, <2>1, ReplyFacts
  <2>3. QED
    BY <1>2, <1>3, <2>1, <2>2, ServeStep DEF Captured
<1>5. CASE CheckDuplicate(q)
  <2> DEFINE r == [q EXCEPT !.pc = "persist"]
  <2>1. /\ requests' = (requests \ {q}) \cup {r}
        /\ UNCHANGED <<cliVars, sdkVars, known, events, queued, terminal, paid, local, charges, missed>>
        /\ q.call.kind = "process"
    BY <1>5, NoDuplicateCheck DEF CheckDuplicate, Move, apiVars, provider, Accepts
  <2>2. faults' \in 0..MaxFaults
    BY <1>5, StatementFaults DEF CheckDuplicate
  <2>3. r \in Request /\ r.call = q.call /\ r.orphan = q.orphan /\ r.pc = "persist"
    BY <1>1 DEF Request
  <2> HIDE DEF r
  <2>4. QED
    BY <1>2, <2>1, <2>2, <2>3, ServeStep DEF Captured
<1>6. CASE PersistPayment(q)
  <2>1. PICK ok \in BOOLEAN :
          /\ Statement(q, ok)
          /\ known' = IF ok /\ PaymentUpsertRuns THEN known \cup {q.call.n.pay} ELSE known
          /\ Move(q, [q EXCEPT !.pc = "store", !.found = ok /\ q.call.n.pay \in known'])
    BY <1>6 DEF PersistPayment
  <2> DEFINE f == ok /\ q.call.n.pay \in known'
  <2>2. f \in BOOLEAN
    OBVIOUS
  <2>3. \E g \in BOOLEAN : requests' = (requests \ {q}) \cup {[q EXCEPT !.pc = "store", !.found = g]}
    BY <2>1, <2>2 DEF Move
  <2>4. PICK g \in BOOLEAN : requests' = (requests \ {q}) \cup {[q EXCEPT !.pc = "store", !.found = g]}
    BY <2>3
  <2> DEFINE s == [q EXCEPT !.pc = "store", !.found = g]
  <2>5. s \in Request /\ s.call = q.call /\ s.orphan = q.orphan /\ s.pc = "store"
    BY <1>1 DEF Request
  <2>6. q.call.kind = "process"
    BY <1>6 DEF PersistPayment, SdkInv
  <2>7. /\ UNCHANGED <<cliVars, sdkVars, events, queued, terminal, paid, local, charges, missed>>
        /\ known' \subseteq Payments /\ faults' \in 0..MaxFaults
    BY <1>1, <1>2, <1>6, <2>1, StatementFaults DEF PersistPayment, provider
  <2> HIDE DEF s
  <2>8. requests' = (requests \ {q}) \cup {s}
    BY <2>4 DEF s
  <2>9. QED
    BY <1>2, <2>5, <2>6, <2>7, <2>8, ServeStep DEF Captured
<1>7. CASE StoreEvent(q)
  <2> DEFINE n == q.call.n
  <2>1. PICK ok \in BOOLEAN :
          /\ Statement(q, ok)
          /\ events' = IF q.found /\ ok /\ EventInsertRuns
                       THEN events \cup {EventId(q.call)} ELSE events
          /\ queued' = IF q.found /\ ok /\ n.type = "payment.failed"
                       THEN [queued EXCEPT ![n] = @ + 1] ELSE queued
          /\ missed' = IF q.found /\ ok THEN missed ELSE missed \cup {n}
    BY <1>7 DEF StoreEvent
  <2>2. /\ q.pc = "store" /\ Reply(q, 202)
        /\ UNCHANGED <<cliVars, sdkVars, known, terminal, paid, local, charges>>
    BY <1>7 DEF StoreEvent, provider
  <2>3. PICK r \in Request :
          /\ r.call = q.call /\ r.orphan = q.orphan /\ r.pc = "reply" /\ r.status = 202
          /\ requests' = requests \ {q} \/ requests' = (requests \ {q}) \cup {r}
    BY <2>2, ReplyFacts DEF Statuses
  <2>4. events' \subseteq Payments \X Nat
    <3>1. ~EventInsertRuns
      BY DEF EventInsertRuns, EventColumns
    <3>2. QED
      BY <1>2, <2>1, <3>1
  <2>5. /\ queued' \in [Notifications -> Nat]
        /\ \A m \in Notifications : queued'[m] >= queued[m]
        /\ missed \subseteq missed' /\ missed' \subseteq Notifications
        /\ n.type = "payment.failed" => queued'[n] > 0 \/ n \in missed'
    BY <1>1, <1>2, <2>1
  <2>6. q.call.kind = "process"
    BY <2>2 DEF SdkInv
  <2>7. KeepsPromise(r)'
    BY <2>3, <2>5, <2>6 DEF KeepsPromise
  <2>8. faults' \in 0..MaxFaults
    BY <2>1, StatementFaults
  <2>9. QED
    BY <1>2, <2>2, <2>3, <2>4, <2>5, <2>7, <2>8, ServeStep DEF Captured
<1>8. CASE ReadProvider(q)
  <2>1. PICK ok \in BOOLEAN :
          /\ Statement(q, ok)
          /\ \/ Reply(q, 502)
             \/ Move(q, [q EXCEPT !.pc = "init"])
             \/ Move(q, [q EXCEPT !.pc = "charge"])
             \/ local[q.call.n.pay] = "CAPTURED" /\ Executed(q, TRUE)
    BY <1>1, <1>2, <1>8 DEF ReadProvider
  <2>2. /\ q.pc = "start" /\ q.call.kind = "execute"
        /\ UNCHANGED <<cliVars, sdkVars, known, events, queued, terminal, paid, local, charges, missed>>
        /\ faults' \in 0..MaxFaults
    BY <1>8, <2>1, StatementFaults DEF ReadProvider, Accepts, apiVars, provider
  <2>3. PICK r \in Request :
          /\ r.call = q.call /\ r.orphan = q.orphan /\ r.pc \in {"init", "charge", "reply"}
          /\ requests' = requests \ {q} \/ requests' = (requests \ {q}) \cup {r}
          /\ r.pc = "reply" /\ r.status \in 200..299 =>
               r.verified /\ local[q.call.n.pay] = "CAPTURED"
    <3>1. CASE Reply(q, 502)
      BY <1>3, <3>1, ReplyFacts
    <3>2. ASSUME NEW x \in {"init", "charge"}, Move(q, [q EXCEPT !.pc = x])
          PROVE  \E r \in Request :
                   /\ r.call = q.call /\ r.orphan = q.orphan /\ r.pc = x
                   /\ requests' = (requests \ {q}) \cup {r}
      <4>1. LET r == [q EXCEPT !.pc = x]
            IN  r \in Request /\ r.call = q.call /\ r.orphan = q.orphan /\ r.pc = x
        BY <1>1 DEF Request
      <4>2. QED
        BY <3>2, <4>1 DEF Move
    <3>3. CASE local[q.call.n.pay] = "CAPTURED" /\ Executed(q, TRUE)
      BY <3>3, ExecutedFacts
    <3>4. QED
      BY <2>1, <3>1, <3>2, <3>3
  <2>4. r.pc = "reply" /\ r.status \in 200..299 => KeepsPromise(r)'
    BY <2>2, <2>3 DEF KeepsPromise, Captured
  <2>5. QED
    BY <1>2, <2>2, <2>3, <2>4, ServeStep DEF Captured
<1>9. CASE InitProvider(q)
  <2> DEFINE p == q.call.n.pay
  <2>1. PICK ok \in BOOLEAN, status \in {"FAILED"} \cup (IF p \in paid THEN {"CAPTURED"} ELSE {}) :
          /\ Statement(q, ok)
          /\ IF ok /\ p \in known
             THEN /\ local' = [local EXCEPT ![p] = IF @ = "ABSENT" THEN status ELSE @]
                  /\ IF status = "CAPTURED" THEN Executed(q, TRUE)
                                            ELSE Move(q, [q EXCEPT !.pc = "charge"])
             ELSE Reply(q, 502) /\ UNCHANGED local
    BY <1>9 DEF InitProvider
  <2>2. /\ q.pc = "init" /\ q.call.kind = "execute"
        /\ UNCHANGED <<cliVars, sdkVars, known, events, queued, terminal, paid, charges, missed>>
        /\ faults' \in 0..MaxFaults
    BY <1>9, <2>1, StatementFaults DEF InitProvider, SdkInv
  <2>3. status \in {"FAILED", "CAPTURED"} /\ (status = "CAPTURED" => p \in paid)
    BY <2>1
  <2>4. \/ local' = local
        \/ local[p] = "ABSENT" /\ local' = [local EXCEPT ![p] = status]
    BY <1>1, <1>2, <2>1
  <2>5. /\ local' \in [Payments -> {"ABSENT", "FAILED", "CAPTURED"}]
        /\ \A x \in Payments : Captured(x) => Captured(x)'
        /\ \A x \in terminal : local'[x] = "CAPTURED" => x \in paid
    BY <1>1, <1>2, <2>2, <2>3, <2>4 DEF Captured
  <2>6. PICK r \in Request :
          /\ r.call = q.call /\ r.orphan = q.orphan /\ r.pc \in {"charge", "reply"}
          /\ requests' = requests \ {q} \/ requests' = (requests \ {q}) \cup {r}
          /\ r.pc = "reply" /\ r.status \in 200..299 => r.verified /\ p \in paid
    <3>1. CASE Reply(q, 502)
      BY <1>3, <3>1, ReplyFacts
    <3>2. CASE Move(q, [q EXCEPT !.pc = "charge"])
      <4>1. LET t == [q EXCEPT !.pc = "charge"]
            IN  t \in Request /\ t.call = q.call /\ t.orphan = q.orphan /\ t.pc = "charge"
        BY <1>1 DEF Request
      <4>2. QED
        BY <3>2, <4>1 DEF Move
    <3>3. CASE p \in paid /\ Executed(q, TRUE)
      BY <3>3, ExecutedFacts
    <3>4. QED
      BY <2>1, <2>3, <3>1, <3>2, <3>3
  <2>7. r.pc = "reply" /\ r.status \in 200..299 => KeepsPromise(r)'
    BY <2>2, <2>6 DEF KeepsPromise, Captured
  <2>8. QED
    BY <1>2, <2>2, <2>5, <2>6, <2>7, ServeStep
<1>10. CASE ChargePayment(q)
  <2> DEFINE n == q.call.n
  <2>1. PICK ok \in BOOLEAN :
          /\ Statement(q, ok)
          /\ RecordAttempt(n) \/ (~ok /\ UNCHANGED <<local, charges>>)
          /\ IF ok THEN Executed(q, n.pay \notin terminal) ELSE Reply(q, 502)
    BY <1>10 DEF ChargePayment
  <2>2. /\ q.pc = "charge" /\ q.call.kind = "execute"
        /\ UNCHANGED <<cliVars, sdkVars, known, events, queued, terminal, paid, missed>>
        /\ faults' \in 0..MaxFaults
    BY <1>10, <2>1, StatementFaults DEF ChargePayment, SdkInv
  <2>3. \/ local' = local
        \/ local' = [local EXCEPT ![n.pay] = IF n.pay \in terminal THEN "FAILED" ELSE "CAPTURED"]
    BY <2>1 DEF RecordAttempt
  <2>4. /\ local' \in [Payments -> {"ABSENT", "FAILED", "CAPTURED"}]
        /\ \A x \in Payments : Captured(x) => Captured(x)'
        /\ \A x \in terminal : local'[x] = "CAPTURED" => x \in paid
    BY <1>1, <1>2, <2>2, <2>3 DEF Captured
  <2>5. PICK r \in Request :
          /\ r.call = q.call /\ r.orphan = q.orphan /\ r.pc = "reply"
          /\ requests' = requests \ {q} \/ requests' = (requests \ {q}) \cup {r}
          /\ r.status \in 200..299 => ok /\ (r.verified <=> n.pay \notin terminal)
    <3>1. CASE ok
      <4>1. Executed(q, n.pay \notin terminal) /\ (n.pay \notin terminal) \in BOOLEAN
        BY <2>1, <3>1
      <4> HIDE DEF n
      <4>2. QED
        BY <3>1, <4>1, ExecutedFacts
    <3>2. CASE ~ok
      BY <1>3, <2>1, <3>2, ReplyFacts
    <3>3. QED
      BY <3>1, <3>2
  <2>6. ok => /\ local'[n.pay] = IF n.pay \in terminal THEN "FAILED" ELSE "CAPTURED"
              /\ charges'[n] = charges[n] + 1 /\ charges[n] \in Nat
    BY <1>1, <1>2, <2>1 DEF RecordAttempt, TypeOK
  <2>7. r.pc = "reply" /\ r.status \in 200..299 => KeepsPromise(r)'
    BY <2>2, <2>5, <2>6 DEF KeepsPromise, Captured
  <2>8. \/ charges' = charges
        \/ charges' = [charges EXCEPT ![q.call.n] = @ + 1]
    BY <2>1 DEF RecordAttempt
  <2>9. QED
    BY <1>2, <2>2, <2>4, <2>5, <2>7, <2>8, ServeStep
<1>11. CASE LookupPayment(q)
  <2>1. PICK ok \in BOOLEAN :
          /\ Statement(q, ok)
          /\ Reply(q, IF ok /\ q.call.n.pay \in known THEN 200 ELSE 404)
    BY <1>11 DEF LookupPayment
  <2>2. /\ q.call.kind = "get"
        /\ UNCHANGED <<cliVars, sdkVars, known, events, queued, terminal, paid, local, charges, missed>>
    BY <1>11 DEF LookupPayment, Accepts, apiVars, provider
  <2>3. \E code \in Statuses : Reply(q, code)
    BY <2>1 DEF Statuses
  <2>4. PICK r \in Request :
          /\ r.call = q.call /\ r.orphan = q.orphan /\ r.pc = "reply"
          /\ requests' = requests \ {q} \/ requests' = (requests \ {q}) \cup {r}
    BY <2>3, ReplyFacts
  <2>5. KeepsPromise(r)'
    BY <2>2, <2>4 DEF KeepsPromise
  <2>6. faults' \in 0..MaxFaults
    BY <2>1, StatementFaults
  <2>7. QED
    BY <1>2, <2>2, <2>4, <2>5, <2>6, ServeStep DEF Captured
<1>12. QED
  BY <1>4, <1>5, <1>6, <1>7, <1>8, <1>9, <1>10, <1>11 DEF Serve

(* A call begins, or an attempt of it: only phase, acked and requests      *)
(* change, and a call is acknowledged without an attempt in mock mode only.*)
LEMMA CallStep ==
  ASSUME TypeOK, SdkInv, NEW c \in Calls, config # Stopped,
         UNCHANGED <<cliVars, config, apiVars, attempt, faults>>,
         \/ /\ phase[c] = "unused" /\ requests' = requests
            /\ \E x \in {"send"} \cup Settled :
                 /\ phase' = [phase EXCEPT ![c] = x]
                 /\ x # "unverified" /\ (x = "ok" => config.mode # "live")
                 /\ \/ acked' = acked
                    \/ config.mode # "live" /\ acked' = acked \cup {c.n}
         \/ Send(c)
  PROVE  TypeOK' /\ SdkInv'
<1> DEFINE new == [call |-> c, attempt |-> attempt[c], orphan |-> FALSE,
                   found |-> FALSE, pc |-> "start", status |-> 0, verified |-> FALSE]
<1>1. /\ new \in Request /\ new.call = c /\ ~new.orphan /\ new.pc = "start"
      /\ c.n \in Notifications
  BY CallFacts DEF Request, TypeOK, Statuses
<1>2. UNCHANGED <<known, events, queued, terminal, paid, local, charges, missed>>
  BY DEF apiVars, provider
<1>3. \E x \in {"send", "wait"} \cup Settled :
        /\ phase' = [phase EXCEPT ![c] = x]
        /\ \/ phase[c] = "unused" /\ x # "wait" /\ requests' = requests
           \/ /\ phase[c] = "send" /\ x = "wait" /\ requests' = requests \cup {new}
        /\ x # "unverified" /\ (x = "ok" => config.mode # "live")
        /\ acked' = acked \/ (config.mode # "live" /\ acked' = acked \cup {c.n})
  BY DEF Send, Settled
<1>4. PICK x \in {"send", "wait"} \cup Settled :
        /\ phase' = [phase EXCEPT ![c] = x]
        /\ \/ phase[c] = "unused" /\ x # "wait" /\ requests' = requests
           \/ /\ phase[c] = "send" /\ x = "wait" /\ requests' = requests \cup {new}
        /\ x # "unverified" /\ (x = "ok" => config.mode # "live")
        /\ acked' = acked \/ (config.mode # "live" /\ acked' = acked \cup {c.n})
  BY <1>3
<1> HIDE DEF new
<1>5. phase'[c] = x /\ \A d \in Calls \ {c} : phase'[d] = phase[d]
  BY <1>4 DEF TypeOK
<1>6. TypeOK'
  <2>1. requests' \subseteq Request /\ acked' \subseteq Notifications
    BY <1>1, <1>4 DEF TypeOK
  <2>2. phase' \in [Calls -> {"unused", "send", "wait"} \cup Settled]
    BY <1>4 DEF TypeOK
  <2>3. CliTypeOK'
    BY DEF TypeOK, CliTypeOK, cliVars
  <2>4. QED
    BY <1>2, <2>1, <2>2, <2>3 DEF TypeOK
<1>7. IsFiniteSet(requests')
  BY <1>4, FS_AddElement DEF SdkInv
<1>8. \A r \in requests' : r \in requests \/ (r = new /\ x = "wait")
  BY <1>4
<1>9. \A r \in requests : ~r.orphan => r.call # c
  BY <1>4 DEF SdkInv
<1>10. \A r \in requests' : ~r.orphan => phase'[r.call] = "wait"
  BY <1>1, <1>5, <1>8, <1>9, RequestFacts DEF SdkInv
<1>11. \A r, s \in requests' : ~r.orphan /\ ~s.orphan /\ r.call = s.call => r = s
  BY <1>1, <1>8, <1>9 DEF SdkInv
<1>12. \A r \in requests' : /\ r.pc \in {"persist", "store"} => r.call.kind = "process"
                            /\ r.pc \in {"init", "charge"} => r.call.kind = "execute"
  BY <1>1, <1>8 DEF SdkInv
<1>13. \A r \in requests' : r.pc = "reply" /\ r.status \in 200..299 => KeepsPromise(r)'
  BY <1>1, <1>2, <1>8 DEF SdkInv, KeepsPromise, Captured
<1>14. ASSUME NEW d \in Calls, d.kind = "execute"
       PROVE  charges'[d.n] + Cardinality(Started(d)') <= Begun(d)'
  <2>1. IsFiniteSet(Started(d))
    BY FS_Subset DEF SdkInv, Started
  <2>2. charges[d.n] \in Nat /\ charges[d.n] + Cardinality(Started(d)) <= Begun(d)
    BY <1>14, CallFacts DEF TypeOK, SdkInv
  <2>3. Cardinality(Started(d)) \in Nat
    BY <2>1, FS_CardinalityType
  <2>4. attempt[d] \in Nat
    BY SdkAssumption DEF TypeOK
  <2>5. CASE requests' = requests
    <3>1. Started(d)' = Started(d)
      BY <2>5 DEF Started
    <3>2. Begun(d)' >= Begun(d) /\ Begun(d)' \in Nat /\ Begun(d) \in Nat
      BY <1>4, <1>5, <2>4 DEF Begun
    <3>3. QED
      BY <1>2, <2>2, <2>3, <3>1, <3>2
  <2>6. CASE d # c
    <3>1. Started(d)' = Started(d)
      BY <1>1, <1>4, <2>6 DEF Started
    <3>2. Begun(d)' = Begun(d)
      BY <1>5, <2>6 DEF Begun
    <3>3. QED
      BY <1>2, <2>2, <3>1, <3>2
  <2>7. CASE d = c /\ requests' # requests
    <3>1. phase[c] = "send" /\ x = "wait" /\ requests' = requests \cup {new}
      BY <1>4, <2>7
    <3>2. Started(d)' = Started(d) \cup {new}
      BY <1>1, <2>7, <3>1 DEF Started
    <3>3. Cardinality(Started(d)') <= Cardinality(Started(d)) + 1
          /\ Cardinality(Started(d)') \in Nat
      <4>1. /\ IsFiniteSet(Started(d) \cup {new})
            /\ Cardinality(Started(d) \cup {new}) =
                 IF new \in Started(d) THEN Cardinality(Started(d))
                                       ELSE Cardinality(Started(d)) + 1
        BY <2>1, FS_AddElement
      <4>2. QED
        BY <2>3, <3>2, <4>1
    <3>4. Begun(d)' = Begun(d) + 1 /\ Begun(d) \in Nat
      BY <1>5, <2>4, <2>7, <3>1 DEF Begun
    <3>5. QED
      BY <1>2, <2>2, <2>3, <3>3, <3>4
  <2>8. QED
    BY <2>5, <2>6, <2>7
<1>15. ASSUME NEW d \in Calls, d.kind = "execute"
       PROVE  Honest(d)'
  BY <1>2, <1>4, <1>5, <1>15 DEF SdkInv, Honest, Captured
<1>16. AckedFailureIsQueued'
  BY <1>2, <1>4 DEF SdkInv, AckedFailureIsQueued
<1>17. QED
  BY <1>2, <1>6, <1>7, <1>10, <1>11, <1>12, <1>13, <1>14, <1>15, <1>16 DEF SdkInv

(* While the server is stopped nothing has been sent, so that its start    *)
(* and the merchant's settings keep the invariant.                         *)
LEMMA StoppedStep ==
  ASSUME TypeOK, SdkInv, config = Stopped, CliTypeOK',
         \/ config' = Stopped
         \/ config' \in [key : {"none", "seeded"}, router : Routers,
                         secret : {"none", "placeholder", "real"}, mode : {"live", "mock"}],
         UNCHANGED <<apiVars, phase, attempt, requests, acked, faults>>
  PROVE  TypeOK' /\ SdkInv'
<1>1. UNCHANGED <<known, events, queued, terminal, paid, local, charges, missed>>
  BY DEF apiVars, provider
<1>2. TypeOK'
  BY <1>1 DEF TypeOK
<1>3. \A c \in Calls : Started(c)' = Started(c) /\ Begun(c)' = Begun(c)
  BY DEF Started, Begun
<1>4. requests = {} /\ acked = {} /\ \A c \in Calls : phase[c] = "unused"
  BY DEF SdkInv
<1>5. QED
  BY <1>1, <1>2, <1>3, <1>4 DEF SdkInv, AckedFailureIsQueued, Honest

(* Every step keeps the types and the invariant.                           *)
LEMMA NextInv == TypeOK /\ SdkInv /\ [Next]_vars => TypeOK' /\ SdkInv'
<1> SUFFICES ASSUME TypeOK, SdkInv, [Next]_vars PROVE TypeOK' /\ SdkInv'
  OBVIOUS
<1>1. CASE SetUp
  BY <1>1, SetUpFacts, StoppedStep DEF SetUp, sdkVars, TypeOK
<1>2. CASE StartServer
  <2>1. PICK p \in handlers :
          config' = [key |-> env.key, secret |-> env.secret, router |-> p.router,
                     mode |-> IF env.mode = "mock" THEN "mock" ELSE "live"]
    BY <1>2 DEF StartServer
  <2>2. p.router \in Routers /\ env \in Settings
    BY DEF TypeOK, CliTypeOK, Path
  <2>3. config' \in [key : {"none", "seeded"}, router : Routers,
                     secret : {"none", "placeholder", "real"}, mode : {"live", "mock"}]
    BY <2>1, <2>2 DEF Settings
  <2>4. CliTypeOK'
    BY <1>2 DEF StartServer, cliVars, TypeOK, CliTypeOK
  <2>5. QED
    BY <1>2, <2>3, <2>4, StoppedStep DEF StartServer
<1>3. ASSUME NEW c \in Calls, Deliver(c)
      PROVE  TypeOK' /\ SdkInv'
  <2>1. /\ config # Stopped /\ phase[c] = "unused"
        /\ UNCHANGED <<cliVars, config, apiVars, attempt, requests, faults>>
    BY <1>3 DEF Deliver
  <2>2. \E x \in {"send"} \cup Settled :
          /\ phase' = [phase EXCEPT ![c] = x]
          /\ x # "unverified" /\ (x = "ok" => config.mode # "live")
          /\ acked' = acked \/ (config.mode # "live" /\ acked' = acked \cup {c.n})
    <3>1. CASE ~SignatureAccepted
      <4>1. Settle(c, "signature")
        BY <1>3, <3>1 DEF Deliver
      <4>2. HandlerStatus("signature") # 200
        BY DEF HandlerStatus
      <4>3. QED
        BY <4>1, <4>2 DEF Settle, Settled
    <3>2. CASE SignatureAccepted /\ config.mode = "mock"
      <4>1. Settle(c, MockEnding)
        BY <1>3, <3>2 DEF Deliver
      <4>2. QED
        BY <3>2, <4>1 DEF Settle, Settled, MockEnding
    <3>3. CASE SignatureAccepted /\ config.mode = "live"
      BY <1>3, <3>3 DEF Deliver
    <3>4. config.mode \in {"live", "mock"}
      BY <2>1 DEF TypeOK
    <3>5. QED
      BY <3>1, <3>2, <3>3, <3>4
  <2>3. QED
    BY <2>1, <2>2, CallStep
<1>4. ASSUME NEW c \in Calls, Call(c)
      PROVE  TypeOK' /\ SdkInv'
  <2>1. /\ config # Stopped /\ phase[c] = "unused"
        /\ UNCHANGED <<cliVars, config, apiVars, attempt, requests, acked, faults>>
        /\ phase' = [phase EXCEPT ![c] = IF config.mode = "mock" THEN MockEnding ELSE "send"]
    BY <1>4 DEF Call
  <2>2. \E x \in {"send"} \cup Settled :
          /\ phase' = [phase EXCEPT ![c] = x]
          /\ x # "unverified" /\ (x = "ok" => config.mode # "live")
          /\ acked' = acked
    <3>1. CASE config.mode = "mock"
      <4>1. phase' = [phase EXCEPT ![c] = "ok"] /\ config.mode # "live" /\ acked' = acked
        BY <2>1, <3>1 DEF MockEnding
      <4>2. QED
        BY <4>1 DEF Settled
    <3>2. CASE config.mode # "mock"
      <4>1. phase' = [phase EXCEPT ![c] = "send"] /\ acked' = acked
        BY <2>1, <3>2
      <4>2. QED
        BY <4>1
    <3>3. QED
      BY <3>1, <3>2
  <2>3. QED
    BY <2>1, <2>2, CallStep
<1>5. ASSUME NEW c \in Calls, Send(c)
      PROVE  TypeOK' /\ SdkInv'
  <2>1. config # Stopped
    BY <1>5 DEF Send, SdkInv
  <2>2. UNCHANGED <<cliVars, config, apiVars, attempt, faults>>
    BY <1>5 DEF Send
  <2>3. QED
    BY <1>5, <2>1, <2>2, CallStep
<1>6. ASSUME NEW q \in requests, Receive(q)
      PROVE  TypeOK' /\ SdkInv'
  <2>1. /\ q.pc = "reply" /\ ~q.orphan /\ requests' = requests \ {q}
        /\ UNCHANGED <<cliVars, config, apiVars>> /\ faults' \in 0..MaxFaults
    BY <1>6 DEF Receive, TypeOK
  <2>2. \/ /\ q.pc = "reply" /\ q.status \in 200..299
           /\ Settle(q.call, Ending(q)) /\ UNCHANGED attempt
        \/ RetryOrThrow(q.call, q.status)
    BY <1>6 DEF Receive
  <2>3. QED
    BY <2>1, <2>2, ClientStep
<1>7. ASSUME NEW q \in requests, TimeOut(q)
      PROVE  TypeOK' /\ SdkInv'
  <2>1. faults' \in 0..MaxFaults
    BY <1>7, SdkAssumption DEF TimeOut, TypeOK
  <2>2. QED
    BY <1>7, <2>1, ClientStep DEF TimeOut
<1>8. ASSUME NEW q \in requests, Serve(q)
      PROVE  TypeOK' /\ SdkInv'
  BY <1>8, ServeInv
<1>9. ASSUME NEW p \in Payments, PaymentBecomesKnown(p)
      PROVE  TypeOK' /\ SdkInv'
  <2>1. /\ UNCHANGED <<project, env, template, handlers, config, events, queued, terminal,
                       paid, local, charges, phase, attempt, requests, acked, missed, faults>>
        /\ known' = known \cup {p}
    BY <1>9 DEF PaymentBecomesKnown, sdkVars, cliVars, provider
  <2>2. TypeOK'
    BY <2>1 DEF TypeOK, CliTypeOK
  <2>3. SdkInv'
    BY <2>1 DEF SdkInv, AckedFailureIsQueued, KeepsPromise, Started, Begun, Honest, Captured
  <2>4. QED
    BY <2>2, <2>3
<1>10. ASSUME NEW p \in Payments, PaymentIsPaid(p)
      PROVE  TypeOK' /\ SdkInv'
  <2>1. /\ UNCHANGED <<project, env, template, handlers, config, known, events, queued, terminal,
                       charges, phase, attempt, requests, acked, missed, faults>>
        /\ \/ paid' = paid \cup {p} /\ local' = local
           \/ p \notin terminal /\ local' = [local EXCEPT ![p] = "CAPTURED"] /\ paid' = paid
    BY <1>10 DEF PaymentIsPaid, sdkVars, cliVars
  <2>2. TypeOK'
    <3>1. /\ paid' \subseteq Payments
          /\ local' \in [Payments -> {"ABSENT", "FAILED", "CAPTURED"}]
      BY <2>1 DEF TypeOK
    <3>2. QED
      BY <2>1, <3>1 DEF TypeOK, CliTypeOK
  <2>3. /\ \A x \in Payments : Captured(x) => Captured(x)'
        /\ \A x \in terminal : local'[x] = "CAPTURED" => x \in paid'
    BY <2>1 DEF TypeOK, SdkInv, Captured
  <2>4. \A q \in requests : KeepsPromise(q) => KeepsPromise(q)'
    BY <2>1, <2>3, RequestFacts DEF KeepsPromise
  <2>5. \A c \in Calls : Honest(c) => Honest(c)'
    BY <2>1, <2>3, CallFacts DEF Honest, Payments
  <2>6. \A c \in Calls : Started(c)' = Started(c) /\ Begun(c)' = Begun(c)
    BY <2>1 DEF Started, Begun
  <2>7. SdkInv'
    BY <2>1, <2>3, <2>4, <2>5, <2>6 DEF SdkInv, AckedFailureIsQueued
  <2>8. QED
    BY <2>2, <2>7
<1>11. CASE UNCHANGED vars
  <2>1. TypeOK'
    BY <1>11 DEF vars, provider, cliVars, TypeOK, CliTypeOK
  <2>2. SdkInv'
    BY <1>11 DEF vars, provider, SdkInv, AckedFailureIsQueued, KeepsPromise, Started, Begun,
       Honest, Captured
  <2>3. QED
    BY <2>1, <2>2
<1>12. QED
  BY <1>1, <1>2, <1>3, <1>4, <1>5, <1>6, <1>7, <1>8, <1>9, <1>10, <1>11 DEF Next

(* The inductive invariant holds of every behaviour.                       *)
LEMMA Invariance == Spec => [](TypeOK /\ SdkInv)
BY InitInv, NextInv, PTL DEF Spec

(* Whatever times out, is retried or goes on after its client has left, a  *)
(* payment failure acknowledged to Razorpay is in the outbox, or the API   *)
(* did not know the payment or lost a statement (client.ts:56-151,         *)
(* v1_events.go:111-246).                                                  *)
THEOREM AcknowledgedFailureIsQueued == Spec => []AckedFailureIsQueued
BY Invariance, PTL DEF SdkInv

(* For any number of retries: an execute call that resolved as verified is *)
(* of a captured payment, one that resolved as not verified has made an    *)
(* attempt that was declined, and a call charges at most once per attempt  *)
(* (client.ts:56-151, v1_analyze.go:344-405, local.go:139-252).            *)
THEOREM ExecuteChargesPerAttempt == Spec => []ExecuteEffects
<1>1. TypeOK /\ SdkInv => ExecuteEffects
  <2> SUFFICES ASSUME TypeOK, SdkInv, NEW c \in Calls, c.kind = "execute"
               PROVE  charges[c.n] <= attempt[c] + 1
    BY DEF ExecuteEffects, SdkInv
  <2>1. Cardinality(Started(c)) \in Nat
    BY FS_Subset, FS_CardinalityType DEF SdkInv, Started
  <2>2. charges[c.n] \in Nat /\ attempt[c] \in Nat
    BY CallFacts, SdkAssumption DEF TypeOK
  <2>3. charges[c.n] + Cardinality(Started(c)) <= Begun(c)
    BY DEF SdkInv
  <2>4. Begun(c) \in Nat /\ Begun(c) <= attempt[c] + 1
    BY <2>2 DEF Begun
  <2>5. QED
    BY <2>1, <2>2, <2>3, <2>4
<1>2. QED
  BY <1>1, Invariance, PTL
=============================================================================
