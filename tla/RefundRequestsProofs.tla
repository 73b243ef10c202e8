------------------------ MODULE RefundRequestsProofs ------------------------
(***************************************************************************)
(* Theorems about RefundRequests.                                          *)
(*                                                                         *)
(* BaseInv holds however invocations overlap: it says what an invocation   *)
(* is about at every step, and that a row with a status has its job.       *)
(* TurnInv adds, for a job whose invocations took turns and lived, that    *)
(* one runs at a time, that the job has one row and one credit at most,    *)
(* and that its credit shows: in the status of the row, or in an approval  *)
(* that has yet to set it.                                                 *)
(***************************************************************************)
EXTENDS RefundRequests, SumProofs, TLAPS

Steps   == {"idle", "drop", "create", "credit", "credited", "mark", "refused", "done", "dead"}
Running == {"drop", "create", "credit", "credited", "mark"}

\* The types of the variables the argument is about.
RefundType ==
    /\ users \subseteq Users /\ jobs \subseteq Jobs
    /\ refund \in [Calls -> {"none", "gone"} \cup Open \cup Resolved]
    /\ pc \in [Calls -> Steps]
    /\ call \in [Calls -> [kind : Kinds \cup {"none"}, job : Jobs \cup {NoJob},
                           req : Calls \cup {NoCall}]]
    /\ credited \subseteq Calls

\* What a call is about and has done, by how far it has come.
Fits(c) ==
    /\ pc[c] \in {"idle", "drop", "create"} => refund[c] = "none"
    /\ pc[c] # "idle" => call[c].job \in Jobs
    /\ pc[c] \in {"drop", "create"} => call[c].kind \in Creators
    /\ pc[c] \in {"credit", "credited"} => call[c].kind \in {"approve", "override"}
    /\ pc[c] = "mark" => call[c].kind \in {"approve", "deny"}
    /\ pc[c] \in {"drop", "credit", "credited", "mark"} =>
          call[c].req \in Calls /\ refund[call[c].req] # "none"
          /\ call[call[c].req].job = call[c].job
    /\ pc[c] \in {"credit", "credited"} /\ call[c].kind = "override" => call[c].req = c
    /\ pc[c] = "mark" /\ call[c].kind = "approve" => c \in credited \/ refund[call[c].req] = "gone"
    /\ pc[c] = "credited" => c \in credited
    /\ c \in credited => pc[c] \in {"credited", "mark", "done", "dead"}

RowsHaveJobs ==
    /\ \A r \in Calls : refund[r] \notin {"none", "gone"} => call[r].job \in jobs
    /\ \A j \in jobs : Owner[j] \in users

BaseInv == /\ RefundType /\ RowsHaveJobs /\ ApprovedIsCredited
           /\ \A c \in Calls : Fits(c)

-----------------------------------------------------------------------------
LEMMA BaseInit == Init => BaseInv
BY RefundAssumption DEF Init, BaseInv, RefundType, RowsHaveJobs, ApprovedIsCredited, Fits, Idle, NoJob,
       Steps, Kinds, Creators, Verdict, Open, Resolved

\* Rows come and go once, and calls keep what they are about.
Onward ==
    /\ \A r \in Calls : /\ refund[r] # "none" => refund'[r] # "none"
                        /\ refund[r] = "gone" => refund'[r] = "gone"
                        /\ pc[r] # "idle" => call'[r].job = call[r].job
    /\ credited \subseteq credited'

\* A call the step is not about still fits.
LEMMA OthersFit ==
    ASSUME BaseInv, Onward, NEW c \in Calls,
           pc'[c] = pc[c], call'[c] = call[c], c \in credited' => c \in credited,
           refund[c] = "none" => refund'[c] = "none"
    PROVE  Fits(c)'
<1>1. Fits(c)
  BY DEF BaseInv
<1>2. ASSUME pc[c] \in {"drop", "credit", "credited", "mark"}
      PROVE  /\ call'[c].req = call[c].req /\ call[c].req \in Calls /\ refund'[call[c].req] # "none"
             /\ call'[call[c].req].job = call[c].job
             /\ refund[call[c].req] = "gone" => refund'[call[c].req] = "gone"
  <2>1. call[c].req \in Calls /\ refund[call[c].req] # "none" /\ call[call[c].req].job = call[c].job
    BY <1>1, <1>2 DEF Fits
  <2>2. pc[call[c].req] # "idle"
    BY <2>1 DEF BaseInv, Fits
  <2> QED
    BY <2>1, <2>2 DEF Onward
<1> QED
  BY <1>1, <1>2 DEF Fits, Onward

\* A step of one call, which leaves the statuses of all rows but one.
Step(c, r) ==
    /\ \A d \in Calls \ {c} : /\ pc'[d] = pc[d] /\ call'[d] = call[d]
                              /\ d \in credited' <=> d \in credited
    /\ \A d \in Calls \ {r} : refund'[d] = refund[d]
    /\ credited \subseteq credited' /\ credited' \subseteq Calls
    /\ users' = users /\ jobs' = jobs

LEMMA StepKeepsBase ==
    ASSUME BaseInv, NEW c \in Calls, NEW r \in Calls, Step(c, r), RefundType', Fits(c)', Onward,
           refund[r] = "none" => r = c \/ refund'[r] = "none",
           refund'[r] \notin {"none", "gone"} => call'[r].job \in jobs,
           call'[c].kind = call[c].kind \/ pc[c] = "idle",
           ApprovedIsCredited'
    PROVE  BaseInv'
<1>1. \A d \in Calls : Fits(d)'
  BY OthersFit DEF Step
<1>2. RowsHaveJobs'
  <2> SUFFICES ASSUME NEW d \in Calls, refund'[d] \notin {"none", "gone"}
               PROVE  call'[d].job \in jobs
    BY DEF RowsHaveJobs, Step, BaseInv
  <2>1. CASE d = r
    BY <2>1
  <2>2. CASE d # r
    <3>1. refund[d] \notin {"none", "gone"} /\ pc[d] # "idle"
      BY <2>2 DEF Step, BaseInv, Fits
    <3> QED
      BY <3>1 DEF BaseInv, RowsHaveJobs, Onward
  <2> QED
    BY <2>1, <2>2
<1> QED
  BY <1>1, <1>2 DEF BaseInv

\* What is shown as approved stays credited.
LEMMA ApprovedKeeps ==
    ASSUME BaseInv, NEW c \in Calls, NEW r \in Calls, Step(c, r),
           c \in credited \/ pc[c] = "dead" => call'[c] = call[c], pc[c] = "dead" => pc'[c] = "dead",
           pc[c] = "credit" /\ call[c].kind = "override" =>
              c \in credited' \/ (pc'[c] = "dead" /\ call'[c] = call[c]) \/ refund'[c] # "approved",
           refund'[r] = "approved" =>
              \/ refund[r] = "approved"
              \/ \E e \in credited' : call'[e].kind = "approve" /\ call'[e].req = r
              \/ r = c /\ call'[c].kind = "override" /\ pc'[c] = "credit"
    PROVE  ApprovedIsCredited'
<1> SUFFICES ASSUME NEW d \in Calls, refund'[d] = "approved"
             PROVE  \/ d \in credited'
                    \/ \E e \in credited' : call'[e].kind = "approve" /\ call'[e].req = d
                    \/ call'[d].kind = "override" /\ pc'[d] \in {"credit", "dead"}
  BY DEF ApprovedIsCredited
<1>1. CASE refund[d] # "approved"
  BY <1>1 DEF Step
<1>2. CASE refund[d] = "approved"
  <2>1. CASE d \in credited
    BY <2>1 DEF Step
  <2>2. ASSUME NEW e \in credited, call[e].kind = "approve" /\ call[e].req = d
        PROVE  e \in credited' /\ call'[e].kind = "approve" /\ call'[e].req = d
    BY <2>2 DEF Step, BaseInv, RefundType
  <2>3. CASE call[d].kind = "override" /\ pc[d] \in {"credit", "dead"}
    BY <2>3 DEF Step
  <2> QED
    BY <1>2, <2>1, <2>2, <2>3 DEF BaseInv, ApprovedIsCredited
<1> QED
  BY <1>1, <1>2

-----------------------------------------------------------------------------
\* A call begins about a job that has a row of its own.
LEMMA BeginKeepsBase ==
    ASSUME BaseInv, NEW c \in Calls, NEW kind \in Kinds, NEW j \in Jobs, NEW r \in Calls \cup {NoCall},
           NEW to \in {"drop", "create", "credit", "mark", "refused"}, Begin(c, kind, j, r, to),
           to \in {"drop", "create"} => kind \in Creators,
           to = "credit" => kind = "approve", to = "mark" => kind = "deny",
           to \in {"drop", "credit", "mark"} => r \in Calls /\ refund[r] # "none" /\ call[r].job = j
    PROVE  BaseInv' /\ Step(c, c) /\ refund' = refund
           /\ pc'[c] = to /\ call'[c] = [kind |-> kind, job |-> j, req |-> r]
<1>1. /\ pc[c] = "idle" /\ pc' = [pc EXCEPT ![c] = to]
      /\ call' = [call EXCEPT ![c] = [kind |-> kind, job |-> j, req |-> r]]
      /\ UNCHANGED <<users, jobs, refund, credited>>
  BY DEF Begin, Goto
<1>2. RefundType' /\ Step(c, c)
  BY <1>1 DEF BaseInv, RefundType, Step, Steps
<1>3. pc'[c] = to /\ call'[c] = [kind |-> kind, job |-> j, req |-> r]
  BY <1>1 DEF BaseInv, RefundType
<1>4. c \notin credited /\ refund[c] = "none" /\ Onward
  BY <1>1 DEF BaseInv, RefundType, Fits, Onward
<1>5. Fits(c)'
  <2>1. r \in Calls /\ refund[r] # "none" => call'[r] = call[r]
    BY <1>1, <1>4 DEF BaseInv, RefundType
  <2> QED
    BY <1>1, <1>3, <1>4, <2>1 DEF Fits
<1>6. ApprovedIsCredited'
  BY <1>1, <1>2, <1>4, ApprovedKeeps
<1> QED
  BY <1>1, <1>2, <1>3, <1>4, <1>5, <1>6, StepKeepsBase

\* A call goes on without a change of what it is about; refund[r] may change.
LEMMA GoOnKeepsBase ==
    ASSUME BaseInv, NEW c \in Calls, NEW to \in {"create", "credited", "mark", "refused", "done", "dead"},
           NEW r \in Calls, NEW x \in {"gone"} \cup Resolved, pc[c] \in Running,
           Goto(c, to), UNCHANGED <<users, jobs, call>>,
           \/ refund' = refund
           \/ /\ refund' = [refund EXCEPT ![r] = x] /\ refund[r] # "none"
              /\ x \in Resolved => refund[r] # "gone"
              /\ x = "approved" => c \in credited /\ call[c].kind = "approve" /\ call[c].req = r,
           credited' = credited \/ (credited' = credited \cup {c} /\ to \in {"credited"}),
           to = "create" => pc[c] = "drop",
           to = "credited" => c \in credited' /\ pc[c] = "credit",
           to = "mark" => /\ call[c].kind = "approve" /\ pc[c] \in {"credit", "credited"}
                          /\ pc[c] = "credited" \/ refund[call[c].req] = "gone",
           pc[c] = "credited" => to \in {"mark", "done", "dead"},
           pc[c] = "mark" => to \in {"done", "dead"},
           pc[c] = "credit" /\ call[c].kind = "override" =>
              to \in {"credited", "dead"} \/ refund'[c] = "gone"
    PROVE  BaseInv' /\ Step(c, r) /\ pc'[c] = to
<1>1. RefundType' /\ Step(c, r) /\ pc'[c] = to
  BY DEF BaseInv, RefundType, Step, Steps, Goto
<1>2. Onward /\ Fits(c)
  BY DEF BaseInv, RefundType, Onward, Resolved, Fits
<1>3. \A q \in Calls : refund[q] # "none" => refund'[q] # "none"
  BY <1>2 DEF Onward
<1>4. Fits(c)'
  BY <1>1, <1>2, <1>3 DEF Fits, Running, Onward, RefundType
<1>5. ApprovedIsCredited'
  BY <1>1, <1>2, ApprovedKeeps DEF BaseInv, RefundType, Running
<1>6. refund'[r] \notin {"none", "gone"} => call'[r].job \in jobs
  BY DEF BaseInv, RowsHaveJobs, RefundType
<1>7. refund[r] = "none" => refund'[r] = "none"
  BY <1>1 DEF Step
<1> QED
  BY <1>1, <1>2, <1>4, <1>5, <1>6, <1>7, StepKeepsBase

-----------------------------------------------------------------------------
(* Jobs whose calls take turns.                                              *)

About(c, j) == call[c].job = j /\ pc[c] \in Running

AtWork(c, j) ==
    /\ pc[c] = "drop" => refund[call[c].req] \in {"denied", "gone"}
    /\ pc[c] = "create" => Existing(j) = {}
    /\ pc[c] # "create" => Existing(j) \subseteq {call[c].req}
    /\ pc[c] \in {"credit", "credited", "mark"} =>
          /\ refund[call[c].req] \in {IF call[c].kind = "override" THEN "approved" ELSE "pending", "gone"}
          /\ j \in jobs => refund[call[c].req] # "gone"
    /\ pc[c] \in {"drop", "create", "credit"} \/ call[c].kind = "deny" => CreditsOf(j) = {}
    /\ CreditsOf(j) \subseteq {c}

Shown(j) ==
    j \in jobs => \A c \in CreditsOf(j) :
                    \/ \E r \in Existing(j) : refund[r] = "approved"
                    \/ pc[c] \in {"credited", "mark"} /\ call[c].kind = "approve"

TurnInv(j) ==
    /\ \A c, d \in Calls : About(c, j) /\ About(d, j) => c = d
    /\ \A c \in Calls : About(c, j) => AtWork(c, j)
    /\ \A r, s \in Existing(j) : r = s
    /\ \A c, d \in CreditsOf(j) : c = d
    /\ Shown(j)

TurnsInv == \A j \in Jobs : InTurn(j) => TurnInv(j)

\* The action property as a formula about one step.
VerdictStays ==
    \A r \in Calls : refund[r] \in Resolved /\ InTurn(call[r].job)' =>
       \/ refund'[r] = refund[r]
       \/ refund'[r] = "gone" /\ (refund[r] = "approved" => call[r].job \notin jobs')

LEMMA TurnsInit == Init => TurnsInv
BY DEF Init, TurnsInv, TurnInv, About, Running, Existing, CreditsOf, Shown, Idle, Open, Resolved

\* The step of a call is nothing to a job that the call is not about.
LEMMA OtherJobsKeep ==
    ASSUME BaseInv, NEW c \in Calls, NEW r \in Calls, Step(c, r), NEW j \in Jobs, TurnInv(j),
           call'[c].job # j, pc[c] = "idle" \/ call[c].job # j,
           refund' = refund \/ call'[r].job # j
    PROVE  TurnInv(j)'
<1>1. c \in credited => call[c].job # j
  BY DEF BaseInv, Fits
<1>2. refund[c] # "none" => call[c].job # j
  BY DEF BaseInv, Fits
<1>3. CreditsOf(j)' = CreditsOf(j) /\ CreditsOf(j) \subseteq Calls \ {c}
  BY <1>1 DEF CreditsOf, Step, BaseInv, RefundType
<1>4. /\ Existing(j)' = Existing(j) /\ Existing(j) \subseteq Calls \ {c}
      /\ \A d \in Existing(j) : refund'[d] = refund[d]
  BY <1>2 DEF Existing, Step, Open, Resolved
<1>5. \A d \in Calls : About(d, j)' => d # c /\ About(d, j) /\ UNCHANGED <<pc[d], call[d]>>
  BY DEF About, Step
<1>6. ASSUME NEW d \in Calls, About(d, j)'
      PROVE  AtWork(d, j)'
  <2>1. AtWork(d, j) /\ d # c /\ pc'[d] = pc[d] /\ call'[d] = call[d] /\ pc[d] \in Running
    BY <1>5, <1>6 DEF TurnInv, About
  <2>2. pc[d] # "create" => refund'[call[d].req] = refund[call[d].req]
    <3>1. ASSUME pc[d] # "create"
          PROVE  call[d].req \in Calls /\ call[call[d].req].job = j /\ refund[call[d].req] # "none"
      BY <2>1, <3>1, <1>5, <1>6 DEF BaseInv, Fits, Running, About
    <3>2. ASSUME pc[d] # "create" PROVE call[d].req # c /\ (refund' = refund \/ call[d].req # r)
      BY <1>2, <3>1, <3>2 DEF Step
    <3> QED
      BY <3>1, <3>2 DEF Step
  <2> QED
    BY <1>3, <1>4, <2>1, <2>2 DEF AtWork, Step
<1>7. Shown(j)'
  BY <1>3, <1>4 DEF Shown, TurnInv, Step
<1> QED
  BY <1>3, <1>4, <1>5, <1>6, <1>7 DEF TurnInv

\* A step of call c: what is left to show is about its own job.
LEMMA TurnStep ==
    ASSUME BaseInv, TurnsInv, NEW c \in Calls, NEW r \in Calls, Step(c, r), NEW j \in Jobs,
           call'[c].job = j, pc[c] = "idle" \/ call[c].job = j, pc[c] # "dead", met \subseteq met',
           refund' = refund \/ call'[r].job = j,
           InTurn(j)' => TurnInv(j)'
    PROVE  TurnsInv'
<1> SUFFICES ASSUME NEW i \in Jobs, InTurn(i)' PROVE TurnInv(i)'
  BY DEF TurnsInv
<1>1. CASE i # j
  <2>1. InTurn(i)
    BY DEF InTurn, Step
  <2> QED
    BY <1>1, <2>1, OtherJobsKeep DEF TurnsInv
<1> QED
  BY <1>1

-----------------------------------------------------------------------------
\* A row with a status, and the job it is about.
LEMMA RowsExist ==
    ASSUME BaseInv, NEW r \in Calls, refund[r] # "none"
    PROVE  call[r].job \in Jobs /\ pc[r] # "idle"
BY DEF BaseInv, Fits

\* In turn and with nobody at work, a job whose row is not approved has no credit.
LEMMA NothingCredited ==
    ASSUME BaseInv, NEW j \in jobs, TurnInv(j), \A d \in Calls : ~About(d, j),
           \A r \in Existing(j) : refund[r] # "approved"
    PROVE  CreditsOf(j) = {}
<1>1. ASSUME NEW d \in CreditsOf(j) PROVE FALSE
  <2>1. d \in Calls /\ call[d].job = j
    BY DEF CreditsOf, BaseInv, RefundType
  <2>2. pc[d] \notin {"credited", "mark"}
    BY <2>1 DEF About, Running
  <2> QED
    BY <2>2 DEF TurnInv, Shown
<1> QED
  BY <1>1

\* A call begins: it is alone with its job, or the job is among those met.
LEMMA BeginTurn ==
    ASSUME BaseInv, TurnsInv, NEW c \in Calls, NEW kind \in Kinds, NEW j \in Jobs,
           NEW r \in Calls \cup {NoCall},
           NEW to \in {"drop", "create", "credit", "mark", "refused"}, Begin(c, kind, j, r, to),
           to \in {"drop", "create"} => kind \in Creators,
           to = "credit" => kind = "approve", to = "mark" => kind = "deny",
           to \in {"drop", "credit", "mark"} => r \in Existing(j),
           to = "create" => Existing(j) = {},
           to = "drop" => refund[r] = "denied", to \in {"credit", "mark"} => refund[r] = "pending",
           to # "refused" => j \in jobs
    PROVE  BaseInv' /\ TurnsInv' /\ VerdictStays
<1>1. r \in Existing(j) => r \in Calls /\ refund[r] # "none" /\ call[r].job = j
  BY DEF Existing, Open, Resolved
<1>2. /\ BaseInv' /\ Step(c, c) /\ refund' = refund
      /\ pc'[c] = to /\ call'[c] = [kind |-> kind, job |-> j, req |-> r]
  BY <1>1, BeginKeepsBase
<1>3. /\ pc[c] = "idle" /\ UNCHANGED <<jobs, credited>> /\ met \subseteq met'
      /\ to # "refused" /\ j \notin met' => \A d \in InFlight : call[d].job # j
  BY DEF Begin
<1>4. c \notin credited /\ refund[c] = "none"
  BY <1>3 DEF BaseInv, Fits
<1>5. CreditsOf(j)' = CreditsOf(j)
  BY <1>2, <1>3, <1>4 DEF CreditsOf, Step, BaseInv, RefundType
<1>6. Existing(j)' = Existing(j)
  BY <1>2, <1>4 DEF Existing, Step, Open, Resolved
<1>7. ASSUME InTurn(j)' PROVE TurnInv(j)'
  <2>1. TurnInv(j) /\ j \notin met'
    BY <1>2, <1>3, <1>7 DEF InTurn, Step, TurnsInv
  <2>2. CASE to = "refused"
    <3>1. \A d \in Calls : About(d, j)' => d # c /\ About(d, j) /\ pc'[d] = pc[d] /\ call'[d] = call[d]
      BY <1>2, <2>2 DEF About, Running, Step
    <3>2. \A d \in Calls : About(d, j)' => AtWork(d, j)'
      BY <1>2, <1>3, <1>5, <1>6, <2>1, <3>1 DEF AtWork, TurnInv
    <3>3. Shown(j)'
      BY <1>2, <1>3, <1>4, <1>5, <1>6, <2>1 DEF Shown, TurnInv, Step, CreditsOf, BaseInv, RefundType
    <3> QED
      BY <1>5, <1>6, <2>1, <3>1, <3>2, <3>3 DEF TurnInv
  <2>3. CASE to # "refused"
    <3>1. \A d \in Calls : ~About(d, j)
      BY <1>3, <2>1, <2>3 DEF About, InFlight, Running
    <3>2. \A d \in Calls : About(d, j)' => d = c
      BY <1>2, <3>1 DEF About, Step
    <3>3. \A q \in Existing(j) : refund[q] # "approved"
      BY <2>1, <2>3 DEF TurnInv
    <3>4. CreditsOf(j) = {}
      BY <2>1, <2>3, <3>1, <3>3, NothingCredited
    <3>5. Existing(j) \subseteq {r}
      BY <2>1, <2>3 DEF TurnInv
    <3>6. AtWork(c, j)'
      BY <1>2, <1>3, <1>5, <1>6, <2>3, <3>4, <3>5 DEF AtWork, Creators
    <3> QED
      BY <1>5, <1>6, <2>1, <3>2, <3>4, <3>6 DEF TurnInv, Shown
  <2> QED
    BY <2>2, <2>3
<1>8. TurnsInv'
  BY <1>2, <1>3, <1>7, TurnStep
<1> QED
  BY <1>2, <1>8 DEF VerdictStays

LEMMA CallsBegin ==
    ASSUME BaseInv, TurnsInv, NEW c \in Calls,
           \/ \E kind \in Creators, j \in Jobs : Ask(c, kind, j)
           \/ \E kind \in DOMAIN Verdict, r \in Calls : Resolve(c, r, kind) \/ ResolveRefused(c, r, kind)
    PROVE  BaseInv' /\ TurnsInv' /\ VerdictStays
<1>1. ASSUME NEW kind \in Creators, NEW j \in Jobs, Ask(c, kind, j)
      PROVE  BaseInv' /\ TurnsInv' /\ VerdictStays
  <2>1. j \in jobs /\ kind \in Kinds
    BY <1>1 DEF Ask, Kinds
  <2>2. CASE Existing(j) = {} /\ Begin(c, kind, j, NoCall, "create")
    BY <2>1, <2>2, BeginTurn
  <2>3. ASSUME NEW r \in Existing(j), refund[r] = "denied", Begin(c, kind, j, r, "drop")
        PROVE  BaseInv' /\ TurnsInv' /\ VerdictStays
    BY <2>1, <2>3, BeginTurn DEF Existing
  <2>4. ASSUME NEW r \in Existing(j), Begin(c, kind, j, r, "refused")
        PROVE  BaseInv' /\ TurnsInv' /\ VerdictStays
    BY <2>1, <2>4, BeginTurn DEF Existing
  <2> QED
    BY <1>1, <2>2, <2>3, <2>4 DEF Ask
<1>2. ASSUME NEW kind \in DOMAIN Verdict, NEW r \in Calls, Resolve(c, r, kind)
      PROVE  BaseInv' /\ TurnsInv' /\ VerdictStays
  <2>1. /\ refund[r] = "pending" /\ kind \in {"approve", "deny"} /\ kind \in Kinds
        /\ Begin(c, kind, call[r].job, r, IF kind = "approve" THEN "credit" ELSE "mark")
    BY <1>2 DEF Resolve, Verdict, Kinds
  <2>2. call[r].job \in Jobs /\ call[r].job \in jobs /\ r \in Existing(call[r].job)
    BY <2>1, RowsExist DEF BaseInv, RowsHaveJobs, Existing, Open
  <2>3. CASE kind = "approve"
    BY <2>1, <2>2, <2>3, BeginTurn
  <2>4. CASE kind = "deny"
    BY <2>1, <2>2, <2>4, BeginTurn
  <2> QED
    BY <2>1, <2>3, <2>4
<1>3. ASSUME NEW kind \in DOMAIN Verdict, NEW r \in Calls, ResolveRefused(c, r, kind)
      PROVE  BaseInv' /\ TurnsInv' /\ VerdictStays
  <2>1. refund[r] # "none" /\ kind \in Kinds /\ Begin(c, kind, call[r].job, r, "refused")
    BY <1>3 DEF ResolveRefused, Verdict, Kinds, Resolved
  <2> QED
    BY <2>1, RowsExist, BeginTurn
<1> QED
  BY <1>1, <1>2, <1>3

-----------------------------------------------------------------------------
\* A call goes on: nobody else is at work on its job.
LEMMA HandlerTurn ==
    ASSUME BaseInv, BaseInv', TurnsInv, NEW c \in Calls, NEW r \in Calls, Step(c, r),
           NEW j \in Jobs, call[c].job = j, call'[c].job = j, pc[c] \in Running, met' = met,
           refund' = refund \/ (call[r].job = j /\ call'[r].job = j),
           ASSUME TurnInv(j), AtWork(c, j), pc'[c] # "dead"
           PROVE  /\ About(c, j)' => AtWork(c, j)'
                  /\ \A q, s \in Existing(j)' : q = s
                  /\ CreditsOf(j)' \subseteq {c} \/ CreditsOf(j)' = CreditsOf(j)
                  /\ Shown(j)'
                  /\ \/ refund[r] \notin Resolved \/ refund'[r] = refund[r]
                     \/ refund'[r] = "gone" /\ (refund[r] = "approved" => j \notin jobs')
    PROVE  TurnsInv' /\ VerdictStays
<1>1. ASSUME InTurn(j)'
      PROVE  TurnInv(j) /\ AtWork(c, j) /\ pc'[c] # "dead"
  <2>1. InTurn(j)
    BY <1>1 DEF InTurn, Step, Running
  <2> QED
    BY <1>1, <2>1 DEF TurnsInv, TurnInv, About, InTurn
<1>2. ASSUME InTurn(j)' PROVE TurnInv(j)'
  <2>1. TurnInv(j)
    BY <1>1, <1>2
  <2>2. \A d \in Calls : About(d, j)' => d = c
    BY <2>1 DEF TurnInv, About, Step
  <2>3. \A d, e \in CreditsOf(j)' : d = e
    BY <1>1, <1>2, <2>1 DEF TurnInv
  <2> QED
    BY <1>1, <1>2, <2>2, <2>3 DEF TurnInv
<1>3. TurnsInv'
  BY <1>2, TurnStep DEF Running
<1>4. VerdictStays
  <2> SUFFICES ASSUME NEW q \in Calls, refund[q] \in Resolved, InTurn(call[q].job)'
               PROVE  \/ refund'[q] = refund[q]
                      \/ refund'[q] = "gone" /\ (refund[q] = "approved" => call[q].job \notin jobs')
    BY DEF VerdictStays
  <2>1. CASE q # r \/ refund' = refund
    BY <2>1 DEF Step
  <2>2. CASE q = r /\ refund' # refund
    BY <1>1, <2>2
  <2> QED
    BY <2>1, <2>2
<1> QED
  BY <1>3, <1>4

\* What a step of c leaves of the rows and credits of its job.
LEMMA OwnJob ==
    ASSUME BaseInv, NEW c \in Calls, NEW r \in Calls, Step(c, r), NEW j \in Jobs,
           call[c].job = j, call' = call
    PROVE  /\ CreditsOf(j) \subseteq CreditsOf(j)' /\ CreditsOf(j)' \subseteq CreditsOf(j) \cup {c}
           /\ c \in credited' => c \in CreditsOf(j)'
           /\ credited' = credited => CreditsOf(j)' = CreditsOf(j)
           /\ refund' = refund => Existing(j)' = Existing(j)
           /\ refund'[r] = "gone" => Existing(j)' = Existing(j) \ {r}
           /\ call[r].job = j /\ refund'[r] \in Resolved => Existing(j)' = Existing(j) \cup {r}
BY DEF CreditsOf, Existing, Step, BaseInv, RefundType, Open, Resolved

LEMMA DropKeeps ==
    ASSUME BaseInv, TurnsInv, NEW c \in Calls, Drop(c) PROVE BaseInv' /\ TurnsInv' /\ VerdictStays
<1> DEFINE r == call[c].req  j == call[c].job
<1>1. /\ r \in Calls /\ j \in Jobs /\ call[r].job = j /\ refund[r] # "none" /\ pc[c] = "drop"
      /\ call[c].kind \in Creators
  BY DEF Drop, BaseInv, Fits
<1>2. /\ refund' = [refund EXCEPT ![r] = "gone"] /\ Goto(c, "create")
      /\ UNCHANGED <<users, jobs, call, credited, met>>
  BY DEF Drop
<1> HIDE DEF r
<1>3. BaseInv' /\ Step(c, r) /\ pc'[c] = "create"
  BY <1>1, <1>2, GoOnKeepsBase DEF Running, Resolved
<1>4. refund'[r] = "gone" /\ Existing(j)' = Existing(j) \ {r} /\ CreditsOf(j)' = CreditsOf(j)
  <2>1. refund'[r] = "gone"
    BY <1>1, <1>2 DEF BaseInv, RefundType
  <2> QED
    BY <1>1, <1>2, <1>3, <2>1, OwnJob
<1>5. ASSUME TurnInv(j), AtWork(c, j)
      PROVE  Existing(j)' = {} /\ CreditsOf(j)' = {} /\ refund[r] # "approved"
  BY <1>1, <1>4, <1>5 DEF AtWork, r
<1>6. ASSUME TurnInv(j), AtWork(c, j)
      PROVE  AtWork(c, j)' /\ Shown(j)'
  BY <1>2, <1>3, <1>5, <1>6 DEF AtWork, Shown, Creators
<1> QED
  BY <1>1, <1>2, <1>3, <1>4, <1>5, <1>6, HandlerTurn DEF Running

LEMMA CreateKeeps ==
    ASSUME BaseInv, TurnsInv, NEW c \in Calls, Create(c) PROVE BaseInv' /\ TurnsInv' /\ VerdictStays
<1> DEFINE j == call[c].job
<1>1. /\ j \in jobs /\ j \in Jobs /\ pc[c] = "create" /\ refund[c] = "none" /\ c \notin credited
      /\ UNCHANGED <<users, jobs, credited, met>>
  BY DEF Create, BaseInv, Fits
<1>2. PICK x \in {"pending", "approved"}, to \in {"done", "credit"} :
         /\ refund' = [refund EXCEPT ![c] = x] /\ Goto(c, to)
         /\ x = "pending" => to = "done" /\ UNCHANGED call
         /\ x = "approved" => /\ to = "credit" /\ call[c].kind = "override"
                              /\ call' = [call EXCEPT ![c].req = c]
  BY DEF Create
<1>3. /\ call'[c].job = j /\ call'[c].kind = call[c].kind /\ pc'[c] = to /\ refund'[c] = x
      /\ x = "approved" => call'[c].req = c
  BY <1>2 DEF BaseInv, RefundType, Goto
<1>4. RefundType'
  BY <1>1, <1>2 DEF BaseInv, RefundType, Goto, Steps, Open, Resolved
<1>5. Step(c, c)
  BY <1>1, <1>2 DEF BaseInv, RefundType, Goto, Step
<1>6. Onward
  BY <1>1, <1>2, <1>3, <1>5 DEF Onward, Step
<1>7. Fits(c)'
  BY <1>1, <1>2, <1>3 DEF Fits
<1>8. ApprovedIsCredited'
  BY <1>1, <1>2, <1>3, <1>5, ApprovedKeeps
<1>9. BaseInv'
  BY <1>1, <1>3, <1>4, <1>5, <1>6, <1>7, <1>8, StepKeepsBase
<1>10. CreditsOf(j)' = CreditsOf(j)
  BY <1>1, <1>3, <1>5 DEF CreditsOf, Step, BaseInv, RefundType
<1>11. Existing(j)' = Existing(j) \cup {c}
  BY <1>1, <1>3, <1>5 DEF Existing, Step, Open, Resolved
<1>12. ASSUME TurnInv(j), AtWork(c, j)
       PROVE  CreditsOf(j)' = {} /\ Existing(j)' = {c}
  BY <1>1, <1>10, <1>11, <1>12 DEF AtWork
<1>13. ASSUME TurnInv(j), AtWork(c, j)
       PROVE  (About(c, j)' => AtWork(c, j)') /\ Shown(j)'
  BY <1>1, <1>2, <1>3, <1>12, <1>13 DEF AtWork, Shown, About, Running
<1> QED
  BY <1>1, <1>3, <1>5, <1>9, <1>10, <1>12, <1>13, HandlerTurn DEF Running, Resolved

LEMMA MarkKeeps ==
    ASSUME BaseInv, TurnsInv, NEW c \in Calls, Mark(c) PROVE BaseInv' /\ TurnsInv' /\ VerdictStays
<1> DEFINE r == call[c].req  j == call[c].job  x == Verdict[call[c].kind]
<1>1. /\ r \in Calls /\ j \in Jobs /\ call[r].job = j /\ refund[r] # "none" /\ pc[c] = "mark"
      /\ call[c].kind \in {"approve", "deny"}
      /\ call[c].kind = "approve" => c \in credited \/ refund[r] = "gone"
  BY DEF Mark, BaseInv, Fits
<1>2. /\ Goto(c, "done") /\ UNCHANGED <<users, jobs, call, credited, met>>
      /\ x \in Resolved /\ (x = "approved" <=> call[c].kind = "approve")
  BY <1>1 DEF Mark, Verdict, Resolved
<1>3. \/ refund[r] = "gone" /\ refund' = refund
      \/ refund[r] # "gone" /\ refund' = [refund EXCEPT ![r] = x]
  BY DEF Mark
<1> HIDE DEF r, x
<1>4. BaseInv' /\ Step(c, r) /\ pc'[c] = "done"
  BY <1>1, <1>2, <1>3, GoOnKeepsBase, ZenonT(60) DEF Running, r
<1>5. /\ CreditsOf(j)' = CreditsOf(j)
      /\ refund[r] = "gone" => refund' = refund /\ Existing(j)' = Existing(j)
      /\ refund[r] # "gone" => refund'[r] = x /\ Existing(j)' = Existing(j) \cup {r}
  <2>1. refund[r] # "gone" => refund'[r] = x
    BY <1>1, <1>3 DEF BaseInv, RefundType
  <2>2. refund[r] = "gone" => refund' = refund
    BY <1>3
  <2> QED
    BY <1>1, <1>2, <1>4, <2>1, <2>2, OwnJob
<1>6. ASSUME TurnInv(j), AtWork(c, j)
      PROVE  /\ refund[r] \notin Resolved /\ Existing(j)' \subseteq {r}
             /\ j \in jobs => refund[r] # "gone" /\ (call[c].kind = "deny" => CreditsOf(j) = {})
  BY <1>1, <1>5, <1>6 DEF AtWork, r, Resolved
<1>7. ASSUME TurnInv(j), AtWork(c, j) PROVE Shown(j)'
  BY <1>1, <1>2, <1>5, <1>6, <1>7 DEF Shown
<1>8. /\ pc[c] \in Running /\ call[c].job = j /\ call'[c].job = j /\ call'[r].job = j /\ met' = met
      /\ ~About(c, j)'
  BY <1>1, <1>2, <1>4 DEF Running, About
<1>9. ASSUME TurnInv(j), AtWork(c, j)
      PROVE  /\ \A q, s \in Existing(j)' : q = s
             /\ refund[r] \notin Resolved \/ refund'[r] = refund[r]
  BY <1>6, <1>9
<1> QED
  BY <1>1, <1>4, <1>5, <1>7, <1>8, <1>9, HandlerTurn

\* Money is moved, and the transaction of it written.
LEMMA CreditKeeps ==
    ASSUME BaseInv, TurnsInv, NEW c \in Calls, Credit(c) PROVE BaseInv' /\ TurnsInv' /\ VerdictStays
<1> DEFINE j == call[c].job
<1>1. /\ j \in Jobs /\ pc[c] = "credit" /\ c \notin credited
      /\ call[c].kind \in {"approve", "override"}
  BY DEF Credit, BaseInv, Fits
<1>2. /\ Goto(c, "credited") /\ UNCHANGED <<users, jobs, call, refund, met>>
      /\ credited' = credited \cup {c}
  BY DEF Credit
<1>3. BaseInv' /\ Step(c, c) /\ pc'[c] = "credited"
  BY <1>1, <1>2, GoOnKeepsBase DEF Running, Resolved
<1>4. /\ CreditsOf(j)' \subseteq CreditsOf(j) \cup {c} /\ c \in CreditsOf(j)'
      /\ Existing(j)' = Existing(j)
  BY <1>1, <1>2, <1>3, OwnJob
<1>5. ASSUME TurnInv(j), AtWork(c, j)
      PROVE  CreditsOf(j)' = {c} /\ Existing(j) \subseteq {call[c].req}
  BY <1>1, <1>4, <1>5 DEF AtWork
<1>6. ASSUME TurnInv(j), AtWork(c, j) PROVE AtWork(c, j)'
  BY <1>1, <1>2, <1>3, <1>4, <1>5, <1>6 DEF AtWork
<1>7. ASSUME TurnInv(j), AtWork(c, j) PROVE Shown(j)'
  <2>1. ASSUME call[c].kind = "override", j \in jobs PROVE refund[c] = "approved" /\ c \in Existing(j)
    BY <1>1, <1>7, <2>1 DEF AtWork, BaseInv, Fits, Existing, Resolved
  <2> QED
    BY <1>1, <1>2, <1>3, <1>4, <1>5, <1>7, <2>1 DEF Shown
<1>9. ASSUME TurnInv(j) PROVE \A q, s \in Existing(j)' : q = s
  BY <1>4, <1>9 DEF TurnInv
<1> QED
  BY <1>1, <1>2, <1>3, <1>4, <1>5, <1>6, <1>7, <1>9, HandlerTurn DEF Running

LEMMA BookKeeps ==
    ASSUME BaseInv, TurnsInv, NEW c \in Calls, Book(c) PROVE BaseInv' /\ TurnsInv' /\ VerdictStays
<1> DEFINE j == call[c].job
<1>1. /\ j \in Jobs /\ pc[c] = "credited" /\ c \in credited /\ j \in jobs
      /\ call[c].kind \in {"approve", "override"}
      /\ call[c].kind = "override" => call[c].req = c
  BY DEF Book, BaseInv, Fits
<1>2. /\ Goto(c, IF call[c].kind = "approve" THEN "mark" ELSE "done")
      /\ UNCHANGED <<users, jobs, call, refund, credited, met>>
  BY DEF Book
<1>3. BaseInv' /\ Step(c, c) /\ pc'[c] = IF call[c].kind = "approve" THEN "mark" ELSE "done"
  <2>1. CASE call[c].kind = "approve"
    BY <1>1, <1>2, <2>1, GoOnKeepsBase DEF Running, Resolved
  <2>2. CASE call[c].kind = "override"
    BY <1>1, <1>2, <2>2, GoOnKeepsBase DEF Running, Resolved
  <2> QED
    BY <1>1, <2>1, <2>2
<1>4. CreditsOf(j)' = CreditsOf(j) /\ Existing(j)' = Existing(j) /\ c \in CreditsOf(j)
  BY <1>1, <1>2, <1>3, OwnJob
<1>5. ASSUME TurnInv(j), AtWork(c, j) PROVE About(c, j)' => AtWork(c, j)'
  BY <1>1, <1>2, <1>3, <1>4, <1>5 DEF AtWork, About, Running
<1>6. ASSUME TurnInv(j), AtWork(c, j) PROVE Shown(j)'
  <2>1. ASSUME call[c].kind = "override" PROVE refund[c] = "approved" /\ c \in Existing(j)
    BY <1>1, <1>6, <2>1 DEF AtWork, BaseInv, Fits, Existing, Resolved
  <2>2. CreditsOf(j) \subseteq {c}
    BY <1>6 DEF AtWork
  <2> QED
    BY <1>1, <1>2, <1>3, <1>4, <2>1, <2>2 DEF Shown
<1>9. ASSUME TurnInv(j) PROVE \A q, s \in Existing(j)' : q = s
  BY <1>4, <1>9 DEF TurnInv
<1> QED
  BY <1>1, <1>2, <1>3, <1>4, <1>5, <1>6, <1>9, HandlerTurn DEF Running

\* A call that ends, or that finds its job gone.
LEMMA CreditRefusedKeeps ==
    ASSUME BaseInv, TurnsInv, NEW c \in Calls, CreditRefused(c) PROVE BaseInv' /\ TurnsInv' /\ VerdictStays
<1> DEFINE j == call[c].job
<1>1. /\ j \in Jobs /\ pc[c] = "credit" /\ c \notin credited
      /\ call[c].kind \in {"approve", "override"} /\ call[c].req \in Calls
      /\ call[c].kind = "override" => call[c].req = c /\ refund[c] # "none"
  BY DEF CreditRefused, BaseInv, Fits
<1>2. /\ Goto(c, "refused") /\ UNCHANGED <<users, jobs, call, credited, met>>
      /\ refund' = IF call[c].kind = "override" THEN [refund EXCEPT ![c] = "gone"] ELSE refund
  BY DEF CreditRefused
<1>3. j \notin jobs
  BY <1>1 DEF CreditRefused, CanAdjust, BaseInv, RowsHaveJobs
<1>4. /\ BaseInv' /\ Step(c, c) /\ pc'[c] = "refused"
      /\ refund' = refund \/ refund'[c] = "gone"
  <2>1. CASE call[c].kind = "approve"
    BY <1>1, <1>2, <2>1, GoOnKeepsBase DEF Running, Resolved
  <2>2. CASE call[c].kind = "override"
    <3>1. refund' = [refund EXCEPT ![c] = "gone"] /\ refund'[c] = "gone"
      BY <1>2, <2>2 DEF BaseInv, RefundType
    <3> QED
      BY <1>1, <1>2, <2>2, <3>1, GoOnKeepsBase DEF Running, Resolved
  <2> QED
    BY <1>1, <2>1, <2>2
<1>5. CreditsOf(j)' = CreditsOf(j) /\ Existing(j)' \subseteq Existing(j)
  BY <1>1, <1>2, <1>4, OwnJob
<1>6. Shown(j)'
  BY <1>2, <1>3 DEF Shown
<1> QED
  BY <1>1, <1>2, <1>3, <1>4, <1>5, <1>6, HandlerTurn, ZenonT(60) DEF Running, TurnInv, About

LEMMA NothingToCreditKeeps ==
    ASSUME BaseInv, TurnsInv, NEW c \in Calls, NothingToCredit(c) PROVE BaseInv' /\ TurnsInv' /\ VerdictStays
<1> DEFINE j == call[c].job
<1>1. /\ j \in Jobs \ jobs /\ pc[c] = "credit" /\ c \notin credited /\ call[c].kind = "approve"
      /\ call[c].req \in Calls /\ refund[call[c].req] # "none" /\ call[call[c].req].job = j
  BY DEF NothingToCredit, BaseInv, Fits
<1>2. /\ Goto(c, "mark") /\ UNCHANGED <<users, jobs, call, refund, credited, met>>
      /\ refund[call[c].req] = "gone"
  BY <1>1 DEF NothingToCredit, BaseInv, RowsHaveJobs
<1>3. BaseInv' /\ Step(c, c) /\ pc'[c] = "mark"
  BY <1>1, <1>2, GoOnKeepsBase DEF Running, Resolved
<1>4. CreditsOf(j)' = CreditsOf(j) /\ Existing(j)' = Existing(j)
  BY <1>1, <1>2, <1>3, OwnJob
<1>5. ASSUME TurnInv(j), AtWork(c, j) PROVE AtWork(c, j)' /\ Shown(j)'
  BY <1>1, <1>2, <1>3, <1>4, <1>5 DEF AtWork, Shown
<1>9. ASSUME TurnInv(j) PROVE \A q, s \in Existing(j)' : q = s
  BY <1>4, <1>9 DEF TurnInv
<1> QED
  BY <1>1, <1>2, <1>3, <1>4, <1>5, <1>9, HandlerTurn DEF Running

LEMMA DeathKeeps ==
    ASSUME BaseInv, TurnsInv, NEW c \in Calls, RowGone(c) \/ HandlerDies(c)
    PROVE  BaseInv' /\ TurnsInv' /\ VerdictStays
<1>1. pc[c] \in Running
  BY DEF RowGone, HandlerDies, InFlight, BaseInv, RefundType, Steps, Running
<1>2. Goto(c, "dead") /\ UNCHANGED <<users, jobs, call, refund, credited, met>> /\ call[c].job \in Jobs
  BY <1>1 DEF RowGone, HandlerDies, BaseInv, Fits, Running
<1>3. BaseInv' /\ Step(c, c) /\ pc'[c] = "dead"
  BY <1>1, <1>2, GoOnKeepsBase DEF Resolved
<1> QED
  BY <1>1, <1>2, <1>3, HandlerTurn

-----------------------------------------------------------------------------
\* Jobs go, with their requests.
LEMMA DropJobsKeeps ==
    ASSUME BaseInv, TurnsInv, NEW gone \in SUBSET jobs, DropJobs(gone), users' \subseteq users,
           \A j \in jobs \ gone : Owner[j] \in users', UNCHANGED <<pc, call, credited, met>>
    PROVE  BaseInv' /\ TurnsInv' /\ VerdictStays
<1>1. /\ jobs' = jobs \ gone
      /\ \A r \in Calls : refund'[r] = IF call[r].job \in gone /\ refund[r] # "none"
                                      THEN "gone" ELSE refund[r]
  BY DEF DropJobs
<1>2. RefundType' /\ Onward
  BY <1>1 DEF DropJobs, BaseInv, RefundType, Onward
<1>3. RowsHaveJobs'
  BY <1>1 DEF BaseInv, RowsHaveJobs
<1>4. ApprovedIsCredited'
  BY <1>1 DEF BaseInv, ApprovedIsCredited
<1>5. BaseInv'
  BY <1>1, <1>2, <1>3, <1>4, OthersFit DEF BaseInv
<1>6. ASSUME NEW j \in Jobs, InTurn(j)' PROVE TurnInv(j)'
  <2>1. TurnInv(j)
    BY <1>6 DEF InTurn, TurnsInv
  <2>2. CreditsOf(j)' = CreditsOf(j) /\ Existing(j)' \subseteq Existing(j)
    BY <1>1 DEF CreditsOf, Existing, Open, Resolved
  <2>3. j \in jobs' => /\ j \in jobs /\ Existing(j)' = Existing(j)
                        /\ \A r \in Calls : call[r].job = j => refund'[r] = refund[r]
    BY <1>1 DEF Existing
  <2>4. ASSUME NEW c \in Calls, About(c, j)' PROVE AtWork(c, j)'
    <3>1. About(c, j) /\ AtWork(c, j)
      BY <2>1, <2>4 DEF About, TurnInv
    <3>2. pc[c] # "create" => /\ call[c].req \in Calls /\ refund'[call[c].req] \in {refund[call[c].req], "gone"}
                             /\ call[call[c].req].job = j
      BY <1>1, <3>1 DEF BaseInv, Fits, About, Running
    <3> QED
      BY <2>2, <2>3, <3>1, <3>2 DEF AtWork
  <2>5. Shown(j)'
    BY <2>1, <2>2, <2>3 DEF Shown, TurnInv, Existing
  <2> QED
    BY <2>1, <2>2, <2>4, <2>5 DEF TurnInv, About
<1>7. VerdictStays
  BY <1>1 DEF VerdictStays
<1> QED
  BY <1>5, <1>6, <1>7 DEF TurnsInv

LEMMA RefundNext == BaseInv /\ TurnsInv /\ [Next]_vars => BaseInv' /\ TurnsInv' /\ VerdictStays
<1> SUFFICES ASSUME BaseInv, TurnsInv, [Next]_vars PROVE BaseInv' /\ TurnsInv' /\ VerdictStays
  OBVIOUS
<1>1. CASE UNCHANGED vars
  BY <1>1 DEF vars, BaseInv, RefundType, RowsHaveJobs, ApprovedIsCredited, Fits, TurnsInv, TurnInv, InTurn,
              About, AtWork, Existing, CreditsOf, Shown, VerdictStays
<1>2. ASSUME NEW c \in Calls, Handler(c) \/ HandlerDies(c) PROVE BaseInv' /\ TurnsInv' /\ VerdictStays
  BY <1>2, DropKeeps, CreateKeeps, MarkKeeps, CreditKeeps, BookKeeps, CreditRefusedKeeps,
     NothingToCreditKeeps, DeathKeeps DEF Handler
<1>3. ASSUME NEW gone \in SUBSET Jobs, DeletePrinter(gone) PROVE BaseInv' /\ TurnsInv' /\ VerdictStays
  BY <1>3, DropJobsKeeps DEF DeletePrinter, BaseInv, RowsHaveJobs
<1>4. ASSUME NEW u \in Users, DeleteUser(u) PROVE BaseInv' /\ TurnsInv' /\ VerdictStays
  BY <1>4, DropJobsKeeps DEF DeleteUser, BaseInv, RowsHaveJobs
<1> QED
  BY <1>1, <1>2, <1>3, <1>4, CallsBegin DEF Next

-----------------------------------------------------------------------------
\* A request shown as approved has moved money, for any calls, jobs and overlaps.
THEOREM ApprovedMovedMoney == Spec => []ApprovedIsCredited
<1>1. BaseInv => ApprovedIsCredited
  BY DEF BaseInv
<1> QED
  BY <1>1, BaseInit, TurnsInit, RefundNext, PTL DEF Spec

\* Invocations that take turns refund a job at most once.
THEOREM OneRefund == Spec => []RefundedOnceInTurn
<1>1. TurnsInv => RefundedOnceInTurn
  <2> SUFFICES ASSUME NEW j \in Jobs, \A c, d \in CreditsOf(j) : c = d
               PROVE  Cardinality(CreditsOf(j)) <= 1
    BY DEF TurnsInv, TurnInv, RefundedOnceInTurn
  <2>1. CASE CreditsOf(j) = {}
    BY <2>1, FS_EmptySet
  <2>2. ASSUME NEW c \in CreditsOf(j) PROVE Cardinality(CreditsOf(j)) <= 1
    <3>1. CreditsOf(j) = {c}
      BY <2>2
    <3> QED
      BY <3>1, FS_Singleton
  <2> QED
    BY <2>1, <2>2
<1> QED
  BY <1>1, BaseInit, TurnsInit, RefundNext, PTL DEF Spec

\* In turn, a verdict is final.
THEOREM VerdictsStand == Spec => VerdictStands
<1>1. BaseInv /\ TurnsInv /\ [Next]_vars =>
         [\A r \in Calls : refund[r] \in Resolved /\ InTurn(call[r].job)' =>
             \/ refund'[r] = refund[r]
             \/ refund'[r] = "gone" /\ (refund[r] = "approved" => call[r].job \notin jobs')]_vars
  BY RefundNext DEF VerdictStays
<1> QED
  BY <1>1, BaseInit, TurnsInit, RefundNext, PTL DEF Spec, VerdictStands

-----------------------------------------------------------------------------
(* The ledger.  Every credit is a term of its owner's balance, and has one   *)
(* Transaction row once its call has got past it.                            *)

Price        == [c \in Calls |-> Cost[call[c].job]]
CreditedTo(u) == {c \in credited : Owner[call[c].job] = u}

BalanceInv ==
    /\ IsFiniteSet(credited)
    /\ \A u \in users : balance[u] = InitBalance[u] + SumFunctionOnSet(Price, CreditedTo(u))

BalanceType == balance \in [Users -> Int]

\* Each row is one credit's, and about its job.
TxRows ==
    /\ tx \subseteq [by : Calls, job : Jobs, req : Calls \cup {NoCall}]
    /\ \A t \in tx : t.by \in credited /\ t.job = call[t.by].job
    /\ \A s, t \in tx : s.by = t.by => s = t

HasRow(c) == \E t \in tx : t.by = c

TxFits ==
    \A c \in credited :
       /\ pc[c] = "credited" => ~HasRow(c)
       /\ pc[c] \in {"mark", "done"} /\ Owner[call[c].job] \in users => HasRow(c)

LedgerInv == BalanceType /\ BalanceInv /\ TxRows /\ TxFits

\* What a credit is about is a job with an owner and a cost.
LEMMA CreditsPriced ==
    ASSUME BaseInv
    PROVE  \A c \in credited : /\ c \in Calls /\ call[c].job \in Jobs
                               /\ Price[c] = Cost[call[c].job] /\ Price[c] \in Int
<1> SUFFICES ASSUME NEW c \in credited
             PROVE  /\ c \in Calls /\ call[c].job \in Jobs
                    /\ Price[c] = Cost[call[c].job] /\ Price[c] \in Int
  OBVIOUS
<1>1. c \in Calls /\ Fits(c)
  BY DEF BaseInv, RefundType
<1>2. call[c].job \in Jobs
  BY <1>1 DEF Fits
<1> QED
  BY <1>1, <1>2, RefundAssumption DEF Price

LEMMA CreditSums ==
    ASSUME BaseInv, IsFiniteSet(credited), NEW u
    PROVE  /\ IsFiniteSet(CreditedTo(u)) /\ Ints(Price, CreditedTo(u))
           /\ SumFunctionOnSet(Price, CreditedTo(u)) \in Int
<1>1. CreditedTo(u) \subseteq credited
  BY DEF CreditedTo
<1>2. IsFiniteSet(CreditedTo(u)) /\ Ints(Price, CreditedTo(u))
  BY <1>1, CreditsPriced, FS_Subset DEF Ints
<1> QED
  BY <1>2, SumType

\* A step that credits nobody.
LEMMA NoCredit ==
    ASSUME BaseInv, BalanceType, BalanceInv, UNCHANGED <<balance, credited>>, users' \subseteq users,
           \A c \in credited : call'[c].job = call[c].job
    PROVE  BalanceType' /\ BalanceInv'
<1> SUFFICES ASSUME NEW u \in users
             PROVE  balance[u] = InitBalance[u] + SumFunctionOnSet(Price', CreditedTo(u)')
  BY DEF BalanceType, BalanceInv
<1>1. CreditedTo(u)' = CreditedTo(u)
  BY DEF CreditedTo
<1>2. \A c \in CreditedTo(u) : Price[c] = Price'[c]
  BY CreditsPriced DEF CreditedTo, Price
<1>3. SumFunctionOnSet(Price, CreditedTo(u)) = SumFunctionOnSet(Price', CreditedTo(u))
  BY <1>2, CreditSums, SumEqual DEF BalanceInv
<1> QED
  BY <1>1, <1>3 DEF BalanceInv

\* A step that books nothing: rows go only with the owner of their job.
LEMMA NoBooking ==
    ASSUME BaseInv, TxRows, TxFits, TxRows', credited' = credited, users' \subseteq users,
           \A c \in credited : /\ call'[c].job = call[c].job
                               /\ pc'[c] \in {pc[c], "dead"} \/ (pc[c] = "mark" /\ pc'[c] = "done")
                               /\ HasRow(c)' => HasRow(c)
                               /\ HasRow(c) /\ Owner[call[c].job] \in users' => HasRow(c)'
    PROVE  TxFits'
BY DEF TxFits

\* Credit: the price joins the balance and what it is explained by.
LEMMA CreditLedger ==
    ASSUME BaseInv, LedgerInv, NEW c \in Calls, Credit(c)
    PROVE  LedgerInv'
<1>0. BalanceType /\ BalanceInv /\ TxRows /\ TxFits /\ RefundType /\ Fits(c)
  BY DEF BaseInv, LedgerInv
<1> DEFINE j == call[c].job
<1>1. /\ pc[c] = "credit" /\ pc' = [pc EXCEPT ![c] = "credited"] /\ credited' = credited \cup {c}
      /\ UNCHANGED <<users, call, tx>> /\ Owner[j] \in users
      /\ balance' = [balance EXCEPT ![Owner[j]] = @ + Cost[j]]
  BY DEF Credit, Goto, AdjustBalance, CanAdjust
<1>2. c \notin credited /\ j \in Jobs /\ Cost[j] \in Int /\ users \subseteq Users
  BY <1>0, <1>1, RefundAssumption DEF Fits, RefundType
<1>3. BalanceType'
  BY <1>0, <1>1, <1>2 DEF BalanceType
<1>4. IsFiniteSet(credited')
  <2>1. IsFiniteSet(credited \cup {c})
    BY <1>0, FS_AddElement DEF BalanceInv
  <2> QED
    BY <1>1, <2>1
<1>5. ASSUME NEW u \in users
      PROVE  balance'[u] = InitBalance[u] + SumFunctionOnSet(Price', CreditedTo(u)')
  <2>1. Price' = Price /\ u \in Users
    BY <1>1, <1>2 DEF Price
  <2>2. /\ IsFiniteSet(CreditedTo(u)) /\ Ints(Price, CreditedTo(u))
        /\ SumFunctionOnSet(Price, CreditedTo(u)) \in Int
    BY <1>0, CreditSums DEF BalanceInv
  <2>3. balance[u] = InitBalance[u] + SumFunctionOnSet(Price, CreditedTo(u)) /\ InitBalance[u] \in Int
    BY <1>0, <2>1, RefundAssumption DEF BalanceInv
  <2>4. CASE u = Owner[j]
    <3>1. CreditedTo(u)' = CreditedTo(u) \cup {c}
      BY <1>1, <2>4 DEF CreditedTo
    <3>2. c \notin CreditedTo(u) /\ Price[c] = Cost[j] /\ Price[c] \in Int
      BY <1>2 DEF CreditedTo, Price
    <3>3. \A d \in CreditedTo(u) : Price[d] = Price[d]
      OBVIOUS
    <3>4. SumFunctionOnSet(Price, CreditedTo(u) \cup {c}) = SumFunctionOnSet(Price, CreditedTo(u)) + Price[c]
      <4>1. IsFiniteSet(CreditedTo(u)) /\ Ints(Price, CreditedTo(u)) /\ Price[c] \in Int /\ c \notin CreditedTo(u)
        BY <2>2, <3>2
      <4> QED
        BY <3>3, <4>1, SumAdd
    <3>5. balance'[u] = balance[u] + Cost[j]
      BY <1>0, <1>1, <2>1, <2>4 DEF BalanceType
    <3> QED
      BY <1>2, <2>1, <2>2, <2>3, <3>1, <3>2, <3>4, <3>5
  <2>5. CASE u # Owner[j]
    <3>1. CreditedTo(u)' = CreditedTo(u)
      BY <1>1, <2>5 DEF CreditedTo
    <3>2. balance'[u] = balance[u]
      BY <1>0, <1>1, <2>1, <2>5 DEF BalanceType
    <3> QED
      BY <2>1, <2>3, <3>1, <3>2
  <2> QED
    BY <2>4, <2>5
<1>6. TxRows'
  BY <1>0, <1>1 DEF TxRows
<1>7. TxFits'
  BY <1>0, <1>1, <1>2 DEF TxFits, TxRows, HasRow, RefundType
<1> QED
  BY <1>1, <1>3, <1>4, <1>5, <1>6, <1>7 DEF LedgerInv, BalanceInv

\* Book: the call's one row.
LEMMA BookLedger ==
    ASSUME BaseInv, LedgerInv, NEW c \in Calls, Book(c)
    PROVE  LedgerInv'
<1>0. BalanceType /\ BalanceInv /\ TxRows /\ TxFits /\ RefundType /\ Fits(c)
  BY DEF BaseInv, LedgerInv
<1> DEFINE row == [by |-> c, job |-> call[c].job, req |-> call[c].req]
<1>1. /\ pc[c] = "credited" /\ c \in credited /\ ~HasRow(c) /\ tx' = tx \cup {row}
      /\ UNCHANGED <<users, balance, call, credited>>
      /\ \A d \in Calls \ {c} : pc'[d] = pc[d]
      /\ pc'[c] \in {"mark", "done"}
  BY <1>0 DEF Book, Goto, TxFits, Fits, RefundType
<1>2. row \in [by : Calls, job : Jobs, req : Calls \cup {NoCall}] /\ row.by = c /\ row.job = call[c].job
  BY <1>0, <1>1 DEF Fits, RefundType
<1> HIDE DEF row
<1>3. TxRows'
  BY <1>0, <1>1, <1>2 DEF TxRows, HasRow
<1>4. \A d \in credited : HasRow(d)' <=> HasRow(d) \/ d = c
  BY <1>1, <1>2 DEF HasRow
<1>5. TxFits'
  BY <1>0, <1>1, <1>4 DEF TxFits, RefundType
<1>6. BalanceType' /\ BalanceInv'
  BY <1>0, <1>1, NoCredit
<1> QED
  BY <1>3, <1>5, <1>6 DEF LedgerInv

\* The deletion of a request clears the rows' reference to it, no more.
Unlinked(t) == [t EXCEPT !.req = NoCall]

LEMMA Unlinking ==
    ASSUME TxRows, NEW some \in SUBSET tx,
           tx' = {IF t \in some THEN Unlinked(t) ELSE t : t \in tx},
           UNCHANGED <<call, credited>>
    PROVE  TxRows' /\ \A c \in credited : HasRow(c)' <=> HasRow(c)
<1>1. \A t \in tx : /\ Unlinked(t) \in [by : Calls, job : Jobs, req : Calls \cup {NoCall}]
                     /\ Unlinked(t).by = t.by /\ Unlinked(t).job = t.job
  BY DEF Unlinked, TxRows
<1>2. /\ \A t \in tx' : \E s \in tx : t.by = s.by /\ t.job = s.job /\ t = IF s \in some THEN Unlinked(s) ELSE s
      /\ \A s \in tx : \E t \in tx' : t.by = s.by
      /\ tx' \subseteq [by : Calls, job : Jobs, req : Calls \cup {NoCall}]
  BY <1>1 DEF TxRows
<1>3. \A c \in credited : HasRow(c)' <=> HasRow(c)
  BY <1>2 DEF HasRow
<1>4. \A s, t \in tx' : s.by = t.by => s = t
  BY <1>2 DEF TxRows
<1>5. \A t \in tx' : t.by \in credited /\ t.job = call[t.by].job
  BY <1>2 DEF TxRows
<1> QED
  BY <1>2, <1>3, <1>4, <1>5 DEF TxRows

LEMMA LedgerInit == Init => LedgerInv
<1> SUFFICES ASSUME Init PROVE LedgerInv
  OBVIOUS
<1>1. BalanceType /\ TxRows /\ TxFits /\ IsFiniteSet(credited)
  BY FS_EmptySet, RefundAssumption DEF Init, BalanceType, TxRows, TxFits
<1>2. ASSUME NEW u \in Users
      PROVE  balance[u] = InitBalance[u] + SumFunctionOnSet(Price, CreditedTo(u))
  <2>1. CreditedTo(u) = {} /\ balance[u] = InitBalance[u]
    BY DEF Init, CreditedTo
  <2> QED
    BY <2>1, SumEmpty, RefundAssumption
<1> QED
  BY <1>1, <1>2 DEF Init, LedgerInv, BalanceInv

LEMMA LedgerNext == BaseInv /\ LedgerInv /\ [Next]_vars => LedgerInv'
<1> SUFFICES ASSUME BaseInv, LedgerInv, [Next]_vars PROVE LedgerInv'
  OBVIOUS
<1>0. BalanceType /\ BalanceInv /\ TxRows /\ TxFits /\ RefundType
  BY DEF BaseInv, LedgerInv
<1>1. CASE UNCHANGED vars
  <2>1. UNCHANGED <<users, balance, pc, call, credited, tx>>
    BY <1>1 DEF vars
  <2> QED
    BY <1>0, <2>1, NoCredit DEF LedgerInv, TxRows, TxFits, HasRow
<1>2. ASSUME UNCHANGED <<users, balance, credited, tx>>, \A d \in credited : call'[d].job = call[d].job,
             \A d \in credited : pc'[d] \in {pc[d], "dead"} \/ (pc[d] = "mark" /\ pc'[d] = "done")
      PROVE  LedgerInv'
  <2>1. TxRows' /\ \A d \in credited : HasRow(d)' <=> HasRow(d)
    BY <1>0, <1>2 DEF TxRows, HasRow
  <2>2. TxFits'
    BY <1>0, <1>2, <2>1, NoBooking
  <2>3. BalanceType' /\ BalanceInv'
    BY <1>0, <1>2, NoCredit
  <2> QED
    BY <2>1, <2>2, <2>3 DEF LedgerInv
<1>3. ASSUME NEW c \in Calls, NEW kind, NEW j, NEW r, NEW to, Begin(c, kind, j, r, to)
      PROVE  LedgerInv'
  <2>1. /\ UNCHANGED <<users, balance, credited, tx>> /\ c \notin credited
        /\ \A d \in Calls \ {c} : pc'[d] = pc[d] /\ call'[d] = call[d]
    BY <1>0, <1>3 DEF Begin, Goto, BaseInv, Fits, RefundType
  <2>2. \A d \in credited : pc'[d] = pc[d] /\ call'[d].job = call[d].job
    BY <1>0, <2>1 DEF RefundType
  <2> QED
    BY <1>2, <2>1, <2>2
<1>4. ASSUME NEW c \in Calls,
             \/ Create(c) \/ NothingToCredit(c) \/ Mark(c) \/ CreditRefused(c) \/ RowGone(c) \/ HandlerDies(c)
      PROVE  LedgerInv'
  <2>1. /\ UNCHANGED <<users, balance, credited, tx>>
        /\ \A d \in Calls : call'[d].job = call[d].job
        /\ \A d \in Calls \ {c} : pc'[d] = pc[d]
        /\ pc'[c] = "dead" \/ (pc[c] = "mark" /\ pc'[c] = "done") \/ pc[c] \in {"create", "credit"}
    <3>1. CASE Create(c)
      BY <1>0, <3>1 DEF Create, Goto, RefundType
    <3>2. CASE NothingToCredit(c) \/ Mark(c) \/ CreditRefused(c) \/ RowGone(c) \/ HandlerDies(c)
      BY <1>0, <3>2 DEF NothingToCredit, Mark, CreditRefused, RowGone, HandlerDies, Goto, RefundType
    <3> QED
      BY <1>4, <3>1, <3>2
  <2>2. pc[c] \in {"create", "credit"} => c \notin credited
    BY DEF BaseInv, Fits
  <2>3. \A d \in credited : pc'[d] \in {pc[d], "dead"} \/ (pc[d] = "mark" /\ pc'[d] = "done")
    BY <1>0, <2>1, <2>2 DEF RefundType
  <2>4. \A d \in credited : call'[d].job = call[d].job
    BY <1>0, <2>1 DEF RefundType
  <2> QED
    BY <1>2, <2>1, <2>3, <2>4
<1>5. ASSUME UNCHANGED <<users, balance, credited, call>>, NEW some \in SUBSET tx,
             tx' = {IF t \in some THEN Unlinked(t) ELSE t : t \in tx},
             \A d \in credited : pc'[d] = pc[d]
      PROVE  LedgerInv'
  <2>1. TxRows' /\ \A d \in credited : HasRow(d)' <=> HasRow(d)
    BY <1>0, <1>5, Unlinking
  <2>2. TxFits'
    BY <1>0, <1>5, <2>1, NoBooking
  <2>3. BalanceType' /\ BalanceInv'
    BY <1>0, <1>5, NoCredit
  <2> QED
    BY <2>1, <2>2, <2>3 DEF LedgerInv
<1>6. ASSUME NEW c \in Calls, Drop(c) PROVE LedgerInv'
  <2> DEFINE some == {t \in tx : t.req = call[c].req}
  <2>1. UNCHANGED <<users, balance, credited, call>> /\ \A d \in credited : pc'[d] = pc[d]
    BY <1>0, <1>6 DEF Drop, Goto, BaseInv, Fits, RefundType
  <2>2. some \in SUBSET tx /\ tx' = {IF t \in some THEN Unlinked(t) ELSE t : t \in tx}
    BY <1>6 DEF Drop, Unlinked
  <2> HIDE DEF some
  <2> QED
    BY <1>5, <2>1, <2>2
<1>7. ASSUME NEW gone \in SUBSET Jobs, DeletePrinter(gone) PROVE LedgerInv'
  <2> DEFINE some == {t \in tx : t.job \in gone}
  <2>1. UNCHANGED <<users, balance, credited, call>> /\ \A d \in credited : pc'[d] = pc[d]
    BY <1>7 DEF DeletePrinter
  <2>2. some \in SUBSET tx /\ tx' = {IF t \in some THEN Unlinked(t) ELSE t : t \in tx}
    BY <1>7 DEF DeletePrinter, Unlinked
  <2> HIDE DEF some
  <2> QED
    BY <1>5, <2>1, <2>2
<1>8. ASSUME NEW u \in Users, DeleteUser(u) PROVE LedgerInv'
  <2>1. /\ UNCHANGED <<balance, credited, call, pc>> /\ users' = users \ {u}
        /\ tx' = {t \in tx : Owner[t.job] # u}
    BY <1>8 DEF DeleteUser
  <2>2. TxRows' /\ \A d \in credited : /\ HasRow(d)' => HasRow(d)
                                       /\ HasRow(d) /\ Owner[call[d].job] \in users' => HasRow(d)'
    BY <1>0, <2>1 DEF TxRows, HasRow
  <2>3. TxFits'
    BY <1>0, <2>1, <2>2, NoBooking
  <2>4. BalanceType' /\ BalanceInv'
    BY <1>0, <2>1, NoCredit
  <2> QED
    BY <2>2, <2>3, <2>4 DEF LedgerInv
<1> QED
  BY <1>1, <1>3, <1>4, <1>6, <1>7, <1>8, CreditLedger, BookLedger DEF Next, Handler, Ask, Resolve, ResolveRefused

\* Whenever every refund of a user's jobs has got past its Transaction, the
\* transactions explain the balance, also when a job was refunded twice.
THEOREM LedgerExplains == Spec => []LedgerExplainsBalance
<1>1. ASSUME BaseInv, LedgerInv PROVE LedgerExplainsBalance
  <2> SUFFICES ASSUME NEW u \in users,
                      \A c \in credited : Owner[call[c].job] = u => pc[c] \notin {"credited", "dead"}
               PROVE  balance[u] = InitBalance[u] + SumFunctionOnSet(Booked, TxOf(u))
    BY DEF LedgerExplainsBalance
  <2> DEFINE rowOf == [c \in CreditedTo(u) |-> CHOOSE t \in tx : t.by = c]
  <2>1. ASSUME NEW c \in CreditedTo(u)
        PROVE  rowOf[c] \in tx /\ rowOf[c].by = c /\ rowOf[c].job = call[c].job
    <3>1. c \in credited /\ Owner[call[c].job] = u /\ Fits(c)
      BY <1>1 DEF CreditedTo, BaseInv, RefundType
    <3>2. HasRow(c)
      BY <1>1, <3>1 DEF Fits, LedgerInv, TxFits
    <3> QED
      BY <1>1, <3>2 DEF HasRow, LedgerInv, TxRows
  <2>2. ASSUME NEW t \in TxOf(u) PROVE t.by \in CreditedTo(u) /\ rowOf[t.by] = t
    <3>1. t.by \in CreditedTo(u) /\ t \in tx
      BY <1>1 DEF TxOf, CreditedTo, LedgerInv, TxRows
    <3> QED
      BY <1>1, <2>1, <3>1 DEF LedgerInv, TxRows
  <2>3. ASSUME NEW c \in CreditedTo(u) PROVE Booked[rowOf[c]] = Price[c] /\ rowOf[c] \in TxOf(u)
    <3>1. rowOf[c] \in tx /\ rowOf[c].job = call[c].job /\ c \in credited /\ Owner[call[c].job] = u
      BY <2>1 DEF CreditedTo
    <3> HIDE DEF rowOf
    <3> QED
      BY <1>1, <3>1, CreditsPriced DEF Booked, TxOf
  <2> HIDE DEF rowOf
  <2>4. {rowOf[c] : c \in CreditedTo(u)} = TxOf(u)
    BY <2>2, <2>3
  <2>5. \A c, d \in CreditedTo(u) : rowOf[c] = rowOf[d] => c = d
    BY <2>1
  <2>6. IsFiniteSet(CreditedTo(u)) /\ Ints(Price, CreditedTo(u))
    BY <1>1, CreditSums DEF LedgerInv, BalanceInv
  <2>7. \A c \in CreditedTo(u) : Booked[rowOf[c]] = Price[c]
    BY <2>3
  <2>8. SumFunctionOnSet(Booked, {rowOf[c] : c \in CreditedTo(u)}) = SumFunctionOnSet(Price, CreditedTo(u))
    BY <2>5, <2>6, <2>7, SumReindex
  <2> QED
    BY <1>1, <2>4, <2>8 DEF LedgerInv, BalanceInv
<1> QED
  BY <1>1, BaseInit, TurnsInit, RefundNext, LedgerInit, LedgerNext, PTL DEF Spec
=============================================================================
