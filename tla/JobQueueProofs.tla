-------------------------- MODULE JobQueueProofs ---------------------------
(***************************************************************************)
(* Proofs about JobQueue for every set of jobs and workers and every bound *)
(* on attempts and faults.  The inductive invariant IInv ties what an      *)
(* executor remembers of its claim to the row it was taken from.           *)
(***************************************************************************)
EXTENDS JobQueue, TLAPS

\* What an executor remembers was true of the row when it claimed it.
ClaimRemembered ==
  \A w \in Workers : pc[w] # "idle" =>
     /\ held[w].token \in 1..row[held[w].job].token
     /\ held[w].attempt >= 1
     /\ held[w].max = MaxAttempts

\* Only a claim moves the token and the attempt of a row.
RowAccounted ==
  \A j \in Jobs :
     /\ row[j].state = "absent" => row[j].token = 0 /\ row[j].attempt = 0
     /\ row[j].state = "queued" => row[j].attempt < MaxAttempts + takeovers[j]

\* A grant has an answer exactly from the handler's return on, and that one.
AnswersRemembered ==
  /\ \A j \in Jobs : \A a \in answers[j] : a[1] \in 1..row[j].token
  /\ \A w \in Workers :
       /\ pc[w] = "executing" => \A r \in Results : <<held[w].token, r>> \notin answers[held[w].job]
       /\ pc[w] = "finishing" => <<held[w].token, result[w]>> \in answers[held[w].job]

IInv == /\ TypeOK
        /\ ClaimRemembered
        /\ CurrentGrant
        /\ RowAccounted
        /\ AttemptsAccounted
        /\ AttemptsBounded
        /\ AnswersRemembered

----------------------------------------------------------------------------
(* The type invariant.                                                     *)

LEMMA NoClaimType == NoClaim \in Claims
  BY JobsAssumption DEF NoClaim, Claims

LEMMA SettledType ==
  ASSUME NEW r \in Rows, NEW h \in Claims, NEW res \in Results
  PROVE  /\ Settled(r, h, res) \in Rows
         /\ Settled(r, h, res).token = r.token
         /\ Settled(r, h, res).state = Verdict(h, res)
         /\ res # "busy" => Settled(r, h, res).attempt = r.attempt
         /\ res = "busy" /\ r.attempt # 0 => Settled(r, h, res).attempt = r.attempt - 1
<1>1. Verdict(h, res) \in States
  BY DEF Verdict, States, Results
<1>2. (IF res # "busy" THEN r.attempt ELSE IF r.attempt = 0 THEN 0 ELSE r.attempt - 1) \in Nat
  BY DEF Rows
<1>. QED BY <1>1, <1>2 DEF Settled, Rows

LEMMA LeaseSetType ==
  ASSUME row \in [Jobs -> Rows], NEW j \in Jobs, NEW b \in BOOLEAN
  PROVE  [row EXCEPT ![j].leased = b] \in [Jobs -> Rows]
  BY DEF Rows

LEMMA TypeInit == Init => TypeOK
  BY NoClaimType, JobsAssumption
  DEF Init, TypeOK, Rows, States, NoRow, Results

LEMMA ReleaseType ==
  ASSUME NEW w \in Workers, TypeOK, Release(w)
  PROVE  /\ pc' \in [Workers -> {"idle", "executing", "finishing"}]
         /\ held' \in [Workers -> Claims]
         /\ result' \in [Workers -> Results]
         /\ beating' \in [Workers -> BOOLEAN]
  BY NoClaimType DEF TypeOK, Release, Results

LEMMA TypeStep == TypeOK /\ [Next]_vars => TypeOK'
<1>. SUFFICES ASSUME TypeOK, [Next]_vars PROVE TypeOK'
  OBVIOUS
<1>1. ASSUME NEW j \in Jobs, NEW soon \in BOOLEAN, Enqueue(j, soon) PROVE TypeOK'
  BY <1>1 DEF Enqueue, TypeOK, Rows, States, NoRow
<1>2. ASSUME NEW j \in Jobs, ComeDue(j) PROVE TypeOK'
  BY <1>2 DEF ComeDue, TypeOK, Rows
<1>3. ASSUME NEW j \in Jobs, LeaseRunsOut(j) PROVE TypeOK'
  BY <1>3, LeaseSetType DEF LeaseRunsOut, TypeOK
<1>4. ASSUME NEW j \in Jobs, LeaseMissed(j) PROVE TypeOK'
  <2>1. faults' \in Nat
    BY <1>4 DEF LeaseMissed, Fault, TypeOK
  <2>2. row' \in [Jobs -> Rows]
    BY <1>4, LeaseSetType DEF LeaseMissed, TypeOK
  <2>. QED BY <1>4, <2>1, <2>2 DEF LeaseMissed, TypeOK
<1>5. ASSUME NEW w \in Workers, NEW j \in Jobs, Claim(w, j) PROVE TypeOK'
  <2>1. LimitOf(j) \in Nat
    BY AttemptsAssumption DEF LimitOf
  <2>2. row' \in [Jobs -> Rows]
    BY <1>5 DEF Claim, TypeOK, Rows, States, NextToken
  <2>3. held' \in [Workers -> Claims]
    BY <1>5, <2>1 DEF Claim, TypeOK, Rows, Claims, NextToken
  <2>. QED BY <1>5, <2>2, <2>3 DEF Claim, TypeOK
<1>6. ASSUME NEW w \in Workers, NEW r \in Results, ReturnWith(w, r), faults' \in Nat
      PROVE  TypeOK'
  <2>1. held[w].job \in Jobs /\ held[w].token \in Nat
    BY DEF TypeOK, Claims
  <2>2. answers' \in [Jobs -> SUBSET (Nat \X Results)]
    BY <1>6, <2>1 DEF ReturnWith, TypeOK
  <2>. QED BY <1>6, <2>2 DEF ReturnWith, TypeOK
<1>7. ASSUME NEW w \in Workers, Heartbeat(w) PROVE TypeOK'
  <2>1. row' = row \/ row' = [row EXCEPT ![held[w].job].leased = TRUE]
    BY <1>7 DEF Heartbeat
  <2>4. held[w].job \in Jobs
    BY DEF TypeOK, Claims
  <2>3. row' \in [Jobs -> Rows]
    BY <2>1, <2>4, LeaseSetType DEF TypeOK
  <2>2. beating' \in [Workers -> BOOLEAN]
    BY <1>7 DEF Heartbeat, TypeOK
  <2>. QED BY <1>7, <2>2, <2>3 DEF Heartbeat, TypeOK
<1>8. ASSUME NEW w \in Workers, HeartbeatFails(w) PROVE TypeOK'
  BY <1>8 DEF HeartbeatFails, TypeOK, Fault
<1>9. ASSUME NEW w \in Workers, Finish(w) PROVE TypeOK'
  <2>1. held[w] \in Claims /\ held[w].job \in Jobs /\ result[w] \in Results
    BY DEF TypeOK, Claims
  <2>2. row[held[w].job] \in Rows
    BY <2>1 DEF TypeOK
  <2>3. Settled(row[held[w].job], held[w], result[w]) \in Rows
    BY <2>1, <2>2, SettledType
  <2>4. row' \in [Jobs -> Rows]
    BY <1>9, <2>3 DEF Finish, TypeOK
  <2>5. refunds' \in [Jobs -> Nat]
    BY <1>9, <2>1 DEF Finish, TypeOK
  <2>6. Release(w)
    BY <1>9 DEF Finish
  <2>. QED BY <1>9, <2>4, <2>5, <2>6, ReleaseType DEF Finish, TypeOK
<1>10. ASSUME NEW w \in Workers, Abandon(w) PROVE TypeOK'
  <2>1. Release(w)
    BY <1>10 DEF Abandon
  <2>. QED BY <1>10, <2>1, ReleaseType DEF Abandon, TypeOK, Fault
<1>11. CASE UNCHANGED vars
  BY <1>11 DEF vars, TypeOK
<1>12. \A w \in Workers : NoHandler(w) => TypeOK'
  BY <1>6 DEF NoHandler, TypeOK, Results
<1>13. \A w \in Workers, r \in Results : Return(w, r) => TypeOK'
  BY <1>6 DEF Return, TypeOK
<1>14. \A w \in Workers : ReturnBusy(w) => TypeOK'
  BY <1>6 DEF ReturnBusy, Fault, TypeOK, Results
<1>. QED
  BY <1>1, <1>2, <1>3, <1>4, <1>5, <1>7, <1>8, <1>9, <1>10, <1>11, <1>12, <1>13, <1>14 DEF Next

\* Every variable keeps its type.
THEOREM TypeCorrect == Spec => []TypeOK
<1>. QED BY TypeInit, TypeStep, PTL DEF Spec

----------------------------------------------------------------------------
(* The inductive invariant.                                                *)

\* The parts of a row that the invariant reads.
SameGrant(j) == /\ row'[j].state = row[j].state
                /\ row'[j].attempt = row[j].attempt
                /\ row'[j].token = row[j].token

LEMMA InvInit == Init => IInv
<1>. SUFFICES ASSUME Init PROVE IInv
  OBVIOUS
<1>1. TypeOK
  BY TypeInit
<1>2. \A j \in Jobs : /\ row[j].state = "absent" /\ row[j].token = 0 /\ row[j].attempt = 0
                      /\ refunds[j] = 0 /\ takeovers[j] = 0 /\ answers[j] = {}
  BY DEF Init, NoRow
<1>3. \A w \in Workers : pc[w] = "idle"
  BY DEF Init
<1>. QED
  BY <1>1, <1>2, <1>3, AttemptsAssumption
  DEF IInv, ClaimRemembered, CurrentGrant, RowAccounted, AttemptsAccounted, AttemptsBounded,
      AnswersRemembered

\* Time and heartbeats change no grant.
LEMMA QuietStep ==
  ASSUME IInv, TypeOK', \A j \in Jobs : SameGrant(j),
         UNCHANGED <<pc, held, result, answers, takeovers, refunds>>
  PROVE  IInv'
<1>1. \A w \in Workers : held[w].job \in Jobs
  BY DEF IInv, TypeOK, Claims
<1>2. ClaimRemembered' /\ CurrentGrant'
  BY <1>1 DEF IInv, ClaimRemembered, CurrentGrant, Fenced, SameGrant
<1>3. RowAccounted' /\ AttemptsAccounted' /\ AttemptsBounded'
  BY DEF IInv, RowAccounted, AttemptsAccounted, AttemptsBounded, SameGrant
<1>4. AnswersRemembered'
  BY <1>1 DEF IInv, AnswersRemembered, SameGrant
<1>. QED BY <1>2, <1>3, <1>4 DEF IInv

\* A lease set or cleared on one row changes no grant.
LEMMA LeaseSetQuiet ==
  ASSUME TypeOK, NEW j \in Jobs, NEW b \in BOOLEAN, row' = [row EXCEPT ![j].leased = b]
  PROVE  \A k \in Jobs : SameGrant(k)
  BY DEF TypeOK, Rows, SameGrant

\* An executor that goes idle, its row unchanged.
LEMMA AbandonInv == ASSUME IInv, TypeOK', NEW w \in Workers, Abandon(w) PROVE IInv'
<1>1. /\ \A v \in Workers \ {w} : pc'[v] = pc[v] /\ held'[v] = held[v] /\ result'[v] = result[v]
      /\ pc'[w] = "idle"
      /\ UNCHANGED <<row, answers, takeovers, refunds>>
  BY DEF Abandon, Release, IInv, TypeOK
<1>2. ClaimRemembered' /\ CurrentGrant'
  BY <1>1 DEF IInv, ClaimRemembered, CurrentGrant, Fenced
<1>3. RowAccounted' /\ AttemptsAccounted' /\ AttemptsBounded'
  BY <1>1 DEF IInv, RowAccounted, AttemptsAccounted, AttemptsBounded
<1>4. AnswersRemembered'
  BY <1>1 DEF IInv, AnswersRemembered
<1>. QED BY <1>2, <1>3, <1>4 DEF IInv

\* The handler's answer is added to the claim's history.
LEMMA ReturnInv ==
  ASSUME IInv, TypeOK', NEW w \in Workers, NEW r \in Results,
         pc[w] = "executing", ReturnWith(w, r)
  PROVE  IInv'
<1>1. /\ \A v \in Workers \ {w} : pc'[v] = pc[v] /\ result'[v] = result[v]
      /\ pc'[w] = "finishing" /\ result'[w] = r
      /\ \A j \in Jobs \ {held[w].job} : answers'[j] = answers[j]
      /\ answers'[held[w].job] = answers[held[w].job] \cup {<<held[w].token, r>>}
      /\ UNCHANGED <<row, held, takeovers, refunds>>
  BY DEF ReturnWith, IInv, TypeOK, Claims
<1>2. ClaimRemembered' /\ CurrentGrant'
  BY <1>1 DEF IInv, ClaimRemembered, CurrentGrant, Fenced
<1>3. RowAccounted' /\ AttemptsAccounted' /\ AttemptsBounded'
  BY <1>1 DEF IInv, RowAccounted, AttemptsAccounted, AttemptsBounded
<1>4. AnswersRemembered'
  <2>1. \A j \in Jobs : \A a \in answers'[j] : a[1] \in 1..row[j].token
    BY <1>1 DEF IInv, AnswersRemembered, ClaimRemembered
  <2>2. ASSUME NEW v \in Workers, v # w, pc[v] = "executing", NEW s \in Results
        PROVE  <<held[v].token, s>> \notin answers'[held[v].job]
    <3>1. held[v].job = held[w].job => held[v].token # held[w].token
      BY <2>2 DEF IInv, CurrentGrant
    <3>2. <<held[v].token, s>> \notin answers[held[v].job]
      BY <2>2 DEF IInv, AnswersRemembered
    <3>3. held[v].job \in Jobs
      BY DEF IInv, TypeOK, Claims
    <3>. QED BY <1>1, <3>1, <3>2, <3>3
  <2>3. ASSUME NEW v \in Workers, pc'[v] = "finishing"
        PROVE  <<held[v].token, result'[v]>> \in answers'[held[v].job]
    <3>1. held[v].job \in Jobs
      BY DEF IInv, TypeOK, Claims
    <3>. QED BY <1>1, <2>3, <3>1 DEF IInv, AnswersRemembered
  <2>. QED BY <1>1, <2>1, <2>2, <2>3 DEF AnswersRemembered
<1>. QED BY <1>2, <1>3, <1>4 DEF IInv

LEMMA EnqueueInv ==
  ASSUME IInv, TypeOK', NEW j \in Jobs, NEW soon \in BOOLEAN, Enqueue(j, soon)
  PROVE  IInv'
<1>1. /\ \A k \in Jobs \ {j} : row'[k] = row[k]
      /\ row[j].state = "absent" /\ row[j].token = 0
      /\ row'[j].state = "queued" /\ row'[j].attempt = 0 /\ row'[j].token = 0
      /\ UNCHANGED <<pc, held, result, answers, takeovers, refunds>>
  BY DEF Enqueue, NoRow, IInv, TypeOK, RowAccounted
<1>2. \A w \in Workers : pc[w] # "idle" => held[w].job \in Jobs \ {j}
  BY <1>1 DEF IInv, TypeOK, Claims, ClaimRemembered
<1>3. ClaimRemembered' /\ CurrentGrant'
  BY <1>1, <1>2 DEF IInv, ClaimRemembered, CurrentGrant, Fenced
<1>4. RowAccounted' /\ AttemptsAccounted' /\ AttemptsBounded'
  BY <1>1, AttemptsAssumption
  DEF IInv, TypeOK, RowAccounted, AttemptsAccounted, AttemptsBounded
<1>5. AnswersRemembered'
  BY <1>1 DEF IInv, AnswersRemembered
<1>. QED BY <1>3, <1>4, <1>5 DEF IInv

LEMMA ClaimInv ==
  ASSUME IInv, TypeOK', NEW w \in Workers, NEW j \in Jobs, Claim(w, j)
  PROVE  IInv'
<1>1. /\ \A k \in Jobs \ {j} : row'[k] = row[k] /\ takeovers'[k] = takeovers[k]
      /\ row[j].state \in {"queued", "running"}
      /\ row'[j].state = "running"
      /\ row'[j].attempt = row[j].attempt + 1 /\ row'[j].token = row[j].token + 1
      /\ takeovers'[j] = IF row[j].state = "running" THEN takeovers[j] + 1 ELSE takeovers[j]
      /\ UNCHANGED <<answers, refunds, result>>
  BY DEF Claim, Runnable, NextToken, IInv, TypeOK, Rows
<1>2. /\ \A v \in Workers \ {w} : pc'[v] = pc[v] /\ held'[v] = held[v]
      /\ pc'[w] = "executing" /\ held'[w].job = j /\ held'[w].token = row[j].token + 1
      /\ held'[w].attempt = row[j].attempt + 1 /\ held'[w].max = MaxAttempts
  BY AttemptsAssumption DEF Claim, NextToken, LimitOf, IInv, TypeOK, Claims
<1>3. row[j].attempt \in Nat /\ row[j].token \in Nat /\ takeovers[j] \in Nat /\ refunds[j] \in Nat
  BY DEF IInv, TypeOK, Rows
<1>4. \A v \in Workers \ {w} : pc[v] # "idle" =>
         /\ held[v].job \in Jobs
         /\ held[v].token \in 1..row[held[v].job].token
  BY DEF IInv, TypeOK, Claims, ClaimRemembered
<1>5. ClaimRemembered'
  BY <1>1, <1>2, <1>3, <1>4 DEF IInv, ClaimRemembered
<1>6. CurrentGrant'
  BY <1>1, <1>2, <1>3, <1>4 DEF IInv, CurrentGrant, Fenced
<1>7. RowAccounted' /\ AttemptsAccounted' /\ AttemptsBounded'
  <2>1. MaxAttempts \in Nat
    BY AttemptsAssumption
  <2>2. row[j].attempt + 1 <= MaxAttempts + takeovers'[j]
    BY <1>1, <1>3, <2>1 DEF IInv, RowAccounted, AttemptsBounded
  <2>3. RowAccounted'
    BY <1>1 DEF IInv, RowAccounted
  <2>4. AttemptsAccounted'
    BY <1>1, <1>3 DEF IInv, AttemptsAccounted
  <2>. QED BY <1>1, <2>2, <2>3, <2>4 DEF IInv, AttemptsBounded
<1>8. AnswersRemembered'
  <2>1. \A k \in Jobs : \A a \in answers[k] : a[1] \in 1..row'[k].token
    BY <1>1, <1>3 DEF IInv, AnswersRemembered
  <2>2. \A r \in Results : <<row[j].token + 1, r>> \notin answers[j]
    BY <1>3 DEF IInv, AnswersRemembered
  <2>. QED BY <1>1, <1>2, <2>1, <2>2 DEF IInv, AnswersRemembered
<1>. QED BY <1>5, <1>6, <1>7, <1>8 DEF IInv

\* Finish writes only the row of a current grant, and that row is running.
LEMMA FinishWrites ==
  ASSUME IInv, NEW w \in Workers, Finish(w)
  PROVE  LET j == held[w].job IN
         /\ j \in Jobs
         /\ \A k \in Jobs \ {j} : row'[k] = row[k] /\ refunds'[k] = refunds[k]
         /\ ~Fenced(w) => row' = row /\ refunds' = refunds
         /\ Fenced(w) =>
              /\ row[j].state = "running"
              /\ row[j].attempt = held[w].attempt /\ held[w].attempt >= 1
              /\ row'[j].token = row[j].token
              /\ row'[j].state = Verdict(held[w], result[w])
              /\ row'[j].attempt = IF result[w] = "busy" THEN row[j].attempt - 1 ELSE row[j].attempt
              /\ refunds'[j] = IF result[w] = "busy" THEN refunds[j] + 1 ELSE refunds[j]
<1>1. /\ pc[w] = "finishing" /\ held[w] \in Claims /\ held[w].job \in Jobs
      /\ result[w] \in Results /\ row[held[w].job] \in Rows
      /\ row \in [Jobs -> Rows] /\ refunds \in [Jobs -> Nat]
  BY DEF Finish, IInv, TypeOK, Claims
<1>2. ~Fenced(w) => row' = row /\ refunds' = refunds
  BY DEF Finish
<1>3. Fenced(w) => /\ row[held[w].job].state = "running"
                   /\ row[held[w].job].attempt = held[w].attempt /\ held[w].attempt >= 1
  BY <1>1 DEF IInv, CurrentGrant, ClaimRemembered
<1>4. Fenced(w) => /\ row' = [row EXCEPT ![held[w].job] =
                                Settled(row[held[w].job], held[w], result[w])]
                   /\ refunds' = [refunds EXCEPT ![held[w].job] =
                                IF result[w] = "busy" THEN refunds[held[w].job] + 1
                                                      ELSE refunds[held[w].job]]
  BY DEF Finish
<1>5. Fenced(w) => row[held[w].job].attempt # 0
  BY <1>1, <1>3 DEF Rows
<1>. QED BY <1>1, <1>2, <1>3, <1>4, <1>5, SettledType

LEMMA FinishInv == ASSUME IInv, TypeOK', NEW w \in Workers, Finish(w) PROVE IInv'
<1>. DEFINE j == held[w].job
<1>1. /\ \A v \in Workers \ {w} : pc'[v] = pc[v] /\ held'[v] = held[v] /\ result'[v] = result[v]
      /\ pc[w] = "finishing" /\ pc'[w] = "idle"
      /\ UNCHANGED <<answers, takeovers>>
  BY DEF Finish, Release, IInv, TypeOK
<1>2. \A k \in Jobs : row'[k].token = row[k].token
  BY FinishWrites
<1>3. \A v \in Workers \ {w} : pc[v] # "idle" => held[v].job \in Jobs /\ (Fenced(v) /\ Fenced(w) => held[v].job # j)
  BY <1>1 DEF IInv, TypeOK, Claims, CurrentGrant, Fenced
<1>4. ClaimRemembered'
  BY <1>1, <1>2, <1>3 DEF IInv, ClaimRemembered
<1>5. CurrentGrant'
  <2>1. \A v \in Workers \ {w} : pc[v] # "idle" /\ Fenced(v) => row'[held[v].job] = row[held[v].job]
    BY <1>3, FinishWrites
  <2>. QED BY <1>1, <1>2, <1>3, <2>1 DEF IInv, CurrentGrant, Fenced
<1>6. RowAccounted' /\ AttemptsAccounted' /\ AttemptsBounded'
  <2>1. CASE ~Fenced(w)
    BY <1>1, <2>1, FinishWrites DEF IInv, RowAccounted, AttemptsAccounted, AttemptsBounded
  <2>2. CASE Fenced(w)
    <3>1. /\ row[j].attempt \in Nat /\ row[j].token \in Nat /\ refunds[j] \in Nat
          /\ takeovers[j] \in Nat /\ MaxAttempts \in Nat /\ held[w].max = MaxAttempts
      BY <1>1, FinishWrites, AttemptsAssumption DEF IInv, TypeOK, Rows, ClaimRemembered
    <3>2. row'[j].state # "absent"
      BY <2>2, FinishWrites DEF Verdict
    <3>3. row'[j].state = "queued" => row'[j].attempt < MaxAttempts + takeovers[j]
      BY <2>2, <3>1, FinishWrites
      DEF Verdict, Exhausted, IInv, AttemptsBounded, TypeOK, Results
    <3>4. RowAccounted'
      BY <1>1, <2>2, <3>2, <3>3, FinishWrites DEF IInv, RowAccounted
    <3>5. AttemptsAccounted'
      BY <2>2, <3>1, FinishWrites DEF IInv, AttemptsAccounted
    <3>6. AttemptsBounded'
      BY <1>1, <2>2, <3>1, FinishWrites DEF IInv, AttemptsBounded
    <3>. QED BY <3>4, <3>5, <3>6
  <2>. QED BY <2>1, <2>2
<1>7. AnswersRemembered'
  BY <1>1, <1>2 DEF IInv, AnswersRemembered
<1>. QED BY <1>4, <1>5, <1>6, <1>7 DEF IInv

LEMMA InvStep == IInv /\ [Next]_vars => IInv'
<1>. SUFFICES ASSUME IInv, [Next]_vars PROVE IInv'
  OBVIOUS
<1>1. TypeOK'
  BY TypeStep DEF IInv
<1>2. \A w \in Workers : held[w].job \in Jobs
  BY DEF IInv, TypeOK, Claims
<1>3. ASSUME NEW j \in Jobs, NEW soon \in BOOLEAN, Enqueue(j, soon) PROVE IInv'
  BY <1>1, <1>3, EnqueueInv
<1>4. ASSUME NEW j \in Jobs, ComeDue(j) PROVE IInv'
  <2>1. \A k \in Jobs : SameGrant(k)
    BY <1>4 DEF ComeDue, SameGrant, IInv, TypeOK, Rows
  <2>. QED BY <1>1, <1>4, <2>1, QuietStep DEF ComeDue
<1>5. ASSUME NEW j \in Jobs, LeaseRunsOut(j) \/ LeaseMissed(j) PROVE IInv'
  <2>1. \A k \in Jobs : SameGrant(k)
    BY <1>5, LeaseSetQuiet DEF LeaseRunsOut, LeaseMissed, IInv
  <2>. QED BY <1>1, <1>5, <2>1, QuietStep DEF LeaseRunsOut, LeaseMissed
<1>6. ASSUME NEW w \in Workers, NEW j \in Jobs, Claim(w, j) PROVE IInv'
  BY <1>1, <1>6, ClaimInv
<1>7. ASSUME NEW w \in Workers, NoHandler(w) PROVE IInv'
  BY <1>1, <1>7, ReturnInv DEF NoHandler, Results
<1>8. ASSUME NEW w \in Workers, NEW r \in Results, Return(w, r) PROVE IInv'
  BY <1>1, <1>8, ReturnInv DEF Return
<1>9. ASSUME NEW w \in Workers, ReturnBusy(w) PROVE IInv'
  BY <1>1, <1>9, ReturnInv DEF ReturnBusy, Results
<1>10. ASSUME NEW w \in Workers, Heartbeat(w) PROVE IInv'
  <2>1. row' = row \/ row' = [row EXCEPT ![held[w].job].leased = TRUE]
    BY <1>10 DEF Heartbeat
  <2>2. \A k \in Jobs : SameGrant(k)
    BY <1>2, <2>1, LeaseSetQuiet DEF SameGrant, IInv
  <2>. QED BY <1>1, <1>10, <2>2, QuietStep DEF Heartbeat
<1>11. ASSUME NEW w \in Workers, HeartbeatFails(w) PROVE IInv'
  <2>1. \A k \in Jobs : SameGrant(k)
    BY <1>11 DEF HeartbeatFails, SameGrant
  <2>. QED BY <1>1, <1>11, <2>1, QuietStep DEF HeartbeatFails
<1>12. ASSUME NEW w \in Workers, Finish(w) PROVE IInv'
  BY <1>1, <1>12, FinishInv
<1>13. ASSUME NEW w \in Workers, Abandon(w) PROVE IInv'
  BY <1>1, <1>13, AbandonInv
<1>14. CASE UNCHANGED vars
  <2>1. \A k \in Jobs : SameGrant(k)
    BY <1>14 DEF vars, SameGrant
  <2>. QED BY <1>1, <1>14, <2>1, QuietStep DEF vars
<1>. QED
  BY <1>3, <1>4, <1>5, <1>6, <1>7, <1>8, <1>9, <1>10, <1>11, <1>12, <1>13, <1>14 DEF Next

\* The strengthened invariant holds throughout.
THEOREM Invariant == Spec => []IInv
<1>. QED BY InvInit, InvStep, PTL DEF Spec

\* Fencing: the executor that holds the current token of a row finds it running, and no
\* other executor holds that token.
THEOREM CurrentGrantHolds == Spec => []CurrentGrant
<1>1. IInv => CurrentGrant
  BY DEF IInv
<1>. QED BY <1>1, Invariant, PTL

\* Attempts are charged once per claim and refunded once per busy answer that counts.
THEOREM AttemptsAreAccounted == Spec => []AttemptsAccounted
<1>1. IInv => AttemptsAccounted
  BY DEF IInv
<1>. QED BY <1>1, Invariant, PTL

\* max_attempts bounds the claims that are not takeovers.
THEOREM AttemptsAreBounded == Spec => []AttemptsBounded
<1>1. IInv => AttemptsBounded
  BY DEF IInv
<1>. QED BY <1>1, Invariant, PTL

----------------------------------------------------------------------------
(* A final row is never written again.                                     *)

LEMMA FinalStep ==
  ASSUME IInv, [Next]_vars, NEW k \in Jobs, row[k].state \in Final
  PROVE  row'[k] = row[k]
<1>1. row \in [Jobs -> Rows] /\ \A w \in Workers : held[w].job \in Jobs
  BY DEF IInv, TypeOK, Claims
<1>2. ASSUME NEW j \in Jobs, \E soon \in BOOLEAN : Enqueue(j, soon) PROVE row'[k] = row[k]
  BY <1>1, <1>2 DEF Enqueue, Final
<1>3. ASSUME NEW j \in Jobs, ComeDue(j) \/ LeaseRunsOut(j) \/ LeaseMissed(j)
      PROVE  row'[k] = row[k]
  BY <1>1, <1>3 DEF ComeDue, LeaseRunsOut, LeaseMissed, Final
<1>4. ASSUME NEW w \in Workers, NEW j \in Jobs, Claim(w, j) PROVE row'[k] = row[k]
  BY <1>1, <1>4 DEF Claim, Runnable, Final
<1>5. ASSUME NEW w \in Workers, Heartbeat(w) PROVE row'[k] = row[k]
  BY <1>1, <1>5 DEF Heartbeat, Final
<1>6. ASSUME NEW w \in Workers, Finish(w) PROVE row'[k] = row[k]
  BY <1>6, FinishWrites DEF Final
<1>7. ASSUME row' = row PROVE row'[k] = row[k]
  BY <1>7
<1>. QED
  BY <1>2, <1>3, <1>4, <1>5, <1>6, <1>7
  DEF Next, vars, NoHandler, Return, ReturnBusy, ReturnWith, HeartbeatFails, Abandon

\* No late heartbeat, stale Finish or claim touches a row with a recorded result.
THEOREM FinalStays == Spec => FinalIsFinal
<1>1. IInv /\ [Next]_vars => [\A j \in Jobs : row[j].state \in Final => row'[j] = row[j]]_vars
  BY FinalStep
<1>. QED BY <1>1, Invariant, PTL DEF Spec, FinalIsFinal

----------------------------------------------------------------------------
(* The engine implements the ledger.                                       *)

LEMMA LedgerInit == Init => Ledger!Init
  BY DEF Init, Ledger!Init, LedgerStatus, NoRow

\* A step that keeps state and token of every row, and the answers, is invisible.
LEMMA QuietLedger ==
  ASSUME \A j \in Jobs : SameGrant(j), UNCHANGED answers
  PROVE  UNCHANGED Ledger!ledger
  BY DEF Ledger!ledger, SameGrant, LedgerStatus

\* A step that changes state and token of one row only changes the ledger there only.
LEMMA OneRow ==
  ASSUME TypeOK, TypeOK', NEW j \in Jobs, \A k \in Jobs \ {j} : row'[k] = row[k]
  PROVE  /\ [k \in Jobs |-> LedgerStatus(row'[k].state)] =
              [[k \in Jobs |-> LedgerStatus(row[k].state)]
                 EXCEPT ![j] = LedgerStatus(row'[j].state)]
         /\ [k \in Jobs |-> row'[k].token] =
              [[k \in Jobs |-> row[k].token] EXCEPT ![j] = row'[j].token]
  OBVIOUS

LEMMA StatusOfStates ==
  /\ LedgerStatus("absent") = "absent"
  /\ LedgerStatus("queued") = "open"
  /\ LedgerStatus("running") = "granted"
  /\ LedgerStatus("succeeded") = "succeeded"
  /\ LedgerStatus("failed") = "given_up"
  /\ LedgerStatus("dead") = "given_up"
  BY DEF LedgerStatus

LEMMA VerdictIsAllowed ==
  ASSUME NEW h \in Claims, NEW res \in Results
  PROVE  LedgerStatus(Verdict(h, res)) \in Ledger!Verdicts(res)
<1>1. CASE res = "busy"
  BY <1>1, StatusOfStates DEF Verdict, Ledger!Verdicts
<1>4. CASE res = "ok"
  <2>1. Verdict(h, res) = "succeeded" /\ Ledger!Verdicts(res) = {"succeeded"}
    BY <1>4 DEF Verdict, Ledger!Verdicts
  <2>. QED BY <2>1, StatusOfStates
<1>2. CASE res = "fatal"
  <2>1. Verdict(h, res) = "dead" \/ Verdict(h, res) = "failed"
    BY <1>2 DEF Verdict
  <2>2. Ledger!Verdicts(res) = {"given_up"}
    BY <1>2 DEF Ledger!Verdicts
  <2>. QED BY <2>1, <2>2, StatusOfStates
<1>3. CASE res = "retry"
  <2>1. Verdict(h, res) = "dead" \/ Verdict(h, res) = "failed" \/ Verdict(h, res) = "queued"
    BY <1>3 DEF Verdict
  <2>2. Ledger!Verdicts(res) = {"open", "given_up"}
    BY <1>3 DEF Ledger!Verdicts
  <2>. QED BY <2>1, <2>2, StatusOfStates
<1>. QED BY <1>1, <1>2, <1>3, <1>4 DEF Results

LEMMA LedgerStep == IInv /\ IInv' /\ [Next]_vars => [Ledger!Next]_Ledger!ledger
<1>. SUFFICES ASSUME IInv, IInv', [Next]_vars PROVE [Ledger!Next]_Ledger!ledger
  OBVIOUS
<1>1. TypeOK /\ TypeOK' /\ \A w \in Workers : held[w].job \in Jobs /\ held[w].token \in Nat
  BY DEF IInv, TypeOK, Claims
<1>2. ASSUME NEW j \in Jobs, NEW soon \in BOOLEAN, Enqueue(j, soon) PROVE Ledger!Open(j)
  <2>1. /\ row[j].state = "absent" /\ row[j].token = 0
        /\ row'[j].state = "queued" /\ row'[j].token = 0
        /\ \A k \in Jobs \ {j} : row'[k] = row[k]
        /\ answers' = answers
    BY <1>1, <1>2 DEF Enqueue, NoRow, TypeOK, IInv, RowAccounted
  <2>2. [k \in Jobs |-> row'[k].token] = [k \in Jobs |-> row[k].token]
    BY <2>1
  <2>4. LedgerStatus(row'[j].state) = "open"
    BY <2>1, StatusOfStates
  <2>3. [k \in Jobs |-> LedgerStatus(row'[k].state)] =
          [[k \in Jobs |-> LedgerStatus(row[k].state)] EXCEPT ![j] = "open"]
    BY <2>1, <2>4
  <2>. QED BY <2>1, <2>2, <2>3, StatusOfStates DEF Ledger!Open
<1>3. ASSUME NEW w \in Workers, NEW j \in Jobs, Claim(w, j) PROVE Ledger!Grant(j)
  <2>1. /\ row[j].state \in {"queued", "running"}
        /\ row'[j].state = "running" /\ row'[j].token = row[j].token + 1
        /\ \A k \in Jobs \ {j} : row'[k] = row[k]
        /\ answers' = answers
    BY <1>1, <1>3 DEF Claim, Runnable, NextToken, TypeOK, Rows
  <2>. QED BY <1>1, <2>1, OneRow DEF Ledger!Grant, LedgerStatus
<1>4. ASSUME NEW w \in Workers, NEW r \in Results, pc[w] = "executing", ReturnWith(w, r)
      PROVE  Ledger!Next
  <2>1. held[w].token \in 1..row[held[w].job].token
    BY <1>4 DEF IInv, ClaimRemembered
  <2>2. \A s \in Results : <<held[w].token, s>> \notin answers[held[w].job]
    BY <1>4 DEF IInv, AnswersRemembered
  <2>3. Ledger!Answer(held[w].job, held[w].token, r)
    BY <1>1, <1>4, <2>1, <2>2 DEF ReturnWith, Ledger!Answer, Ledger!Answered, Ledger!Results, Results
  <2>. QED BY <1>1, <2>1, <2>3 DEF Ledger!Next, Ledger!Results, Results
<1>5. ASSUME NEW w \in Workers, Finish(w), Fenced(w) PROVE Ledger!Record(held[w].job)
  <2>. DEFINE j == held[w].job
  <2>1. /\ row[j].state = "running" /\ row'[j].token = row[j].token
        /\ row'[j].state = Verdict(held[w], result[w])
        /\ \A k \in Jobs \ {j} : row'[k] = row[k]
        /\ answers' = answers
    BY <1>5, FinishWrites DEF Finish
  <2>2. <<row[j].token, result[w]>> \in answers[j] /\ result[w] \in Results
    BY <1>5 DEF Finish, Fenced, IInv, AnswersRemembered, TypeOK
  <2>3. LedgerStatus(row'[j].state) \in Ledger!Verdicts(result[w])
    BY <2>1, <2>2, VerdictIsAllowed DEF IInv, TypeOK
  <2>4. [k \in Jobs |-> row'[k].token] = [k \in Jobs |-> row[k].token]
    BY <2>1
  <2>. QED BY <1>1, <2>1, <2>2, <2>3, <2>4, OneRow, StatusOfStates
           DEF Ledger!Record, Ledger!Results, Results
<1>6. ASSUME NEW w \in Workers, Finish(w), ~Fenced(w) PROVE UNCHANGED Ledger!ledger
  BY <1>6, FinishWrites, QuietLedger DEF Finish, SameGrant
<1>7. ASSUME NEW j \in Jobs, ComeDue(j) PROVE UNCHANGED Ledger!ledger
  <2>1. \A k \in Jobs : SameGrant(k)
    BY <1>1, <1>7 DEF ComeDue, SameGrant, TypeOK, Rows
  <2>. QED BY <1>7, <2>1, QuietLedger DEF ComeDue
<1>8. ASSUME NEW j \in Jobs, LeaseRunsOut(j) \/ LeaseMissed(j) PROVE UNCHANGED Ledger!ledger
  BY <1>1, <1>8, LeaseSetQuiet, QuietLedger DEF LeaseRunsOut, LeaseMissed
<1>9. ASSUME NEW w \in Workers, Heartbeat(w) PROVE UNCHANGED Ledger!ledger
  <2>1. row' = row \/ row' = [row EXCEPT ![held[w].job].leased = TRUE]
    BY <1>9 DEF Heartbeat
  <2>2. \A k \in Jobs : SameGrant(k)
    BY <1>1, <2>1, LeaseSetQuiet DEF SameGrant
  <2>. QED BY <1>9, <2>2, QuietLedger DEF Heartbeat
<1>10. ASSUME row' = row, answers' = answers PROVE UNCHANGED Ledger!ledger
  BY <1>10, QuietLedger DEF SameGrant
<1>11. \A w \in Workers : NoHandler(w) \/ ReturnBusy(w) => Ledger!Next
  BY <1>4 DEF NoHandler, ReturnBusy, Results
<1>12. \A w \in Workers, r \in Results : Return(w, r) => Ledger!Next
  BY <1>4 DEF Return
<1>13. \A w \in Workers : HeartbeatFails(w) \/ Abandon(w) => UNCHANGED Ledger!ledger
  BY <1>10 DEF HeartbeatFails, Abandon
<1>14. UNCHANGED vars => UNCHANGED Ledger!ledger
  BY <1>10 DEF vars
<1>. QED
  BY <1>1, <1>2, <1>3, <1>5, <1>6, <1>7, <1>8, <1>9, <1>11, <1>12, <1>13, <1>14
  DEF Next, Ledger!Next

\* The result on a row is always the answer the handler gave under the latest token.
THEOREM ImplementsLedger == Spec => LedgerSpec
<1>. QED BY LedgerInit, LedgerStep, Invariant, PTL DEF Spec, LedgerSpec, Ledger!Spec
=============================================================================
