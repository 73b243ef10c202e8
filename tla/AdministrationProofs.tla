------------------------ MODULE AdministrationProofs ------------------------
(***************************************************************************)
(* Theorems about what administrators keep and see: Members, Groups and    *)
(* Reports.                                                                *)
(*                                                                         *)
(* Both properties of Members compare requests with those that had ended   *)
(* before they began.  LoginInv says what that relation means, and that    *)
(* the address a login binds to was set by a request that overlaps it;     *)
(* ImportInv that whoever gets an account of the name of a person still to *)
(* be imported overlaps the import.                                        *)
(*                                                                         *)
(* Fair costs need no more than GroupType, the rows that the tables hold.  *)
(* The figures of Reports need that every balance is what the events made  *)
(* of it (ReportInv), and the ones a user is shown also that a verdict is  *)
(* about a job that was completed, once (FigureInv).  Both are about sums  *)
(* over a history as long as one likes: where it is added up, the proofs   *)
(* take the first place at which an equation would fail.                   *)
(***************************************************************************)
EXTENDS Members, Reports, SumProofs, SequenceTheorems, TLAPS

-----------------------------------------------------------------------------
(* Accounts: the directory and its imports.                                  *)

Rows    == [name : Names, mail : Mails \cup {None}, local : BOOLEAN, by : Requests]
Objects == [server : Configs, domain : Configs, base : Configs]
Ops     == {None, "register", "update", "login", "import", "preview"}
Steps   == {"idle", "mail", "name", "write", "config", "server", "domain", "base", "bind", "connect",
            "search", "find", "found", "create", "preview", "existing", "next", "done", "refused", "failed"}
Finals  == {"done", "refused", "failed"}

\* The steps at which the address of the shared object is one that some request has set.
Configured == {"domain", "base", "bind", "connect"}

Reqs    == [op : Ops, pc : Steps, name : Names \cup {None}, mail : Mails \cup {None},
            id : (Requests \X Names) \cup {None}, cfg : Configs, domain : Configs, server : Configs,
            todo : SUBSET Names]

AccountType ==
    /\ DOMAIN accounts \subseteq Requests \X Names
    /\ accounts \in [DOMAIN accounts -> Rows]

\* A server that was configured while some request ran that had not ended when r began.
Vouched(server, r) == \E q \in Requests : <<q, r>> \notin before /\ server \in inForce[q]

\* The operations that come to a step.
StepOp(q) ==
    /\ q.pc = "idle" => q.op = None
    /\ q.op \in {"register", "login"} => q.name \in Names
    /\ q.pc \in {"mail", "name", "write"} => q.op \in {"register", "update"}
    /\ q.pc \in {"config", "server", "domain", "base", "bind", "connect", "search"}
         => q.op \in {"login", "import", "preview"}
    /\ q.pc \in {"find", "found", "create"} => q.op = "login"
    /\ q.pc = "preview" => q.op \in {"import", "preview"}
    /\ q.pc \in {"existing", "next"} => q.op = "import"

\* What is so of a request r that has come to q.
Fits(r, q) ==
    /\ q \in Reqs /\ StepOp(q)
    /\ q.pc = "idle" => inForce[r] = {}
    /\ q.pc \notin Finals \cup {"idle"} => config \in inForce[r]
    /\ q.pc \in {"server", "domain", "base", "bind"} => q.cfg \in Servers \cap inForce[r]
    /\ q.pc \in Configured /\ q.op = "login"
         => assistant["auth"].server \in Servers /\ Vouched(assistant["auth"].server, r)
    /\ q.pc \in Configured /\ q.op # "login" => assistant["settings"].server \in Servers
    /\ q.pc = "search" => q.server \in Servers
    /\ q.pc \in {"search", "find", "found", "create", "done", "failed"} /\ q.op = "login"
         => Vouched(q.server, r)

BeforeInv ==
    \A q, r \in Requests : <<q, r>> \in before => q # r /\ req[q].pc \in Finals /\ req[r].pc # "idle"

LoginInv ==
    /\ AccountType /\ config \in Configs /\ assistant \in [Assistants -> Objects]
    /\ inForce \in [Requests -> SUBSET Configs]
    /\ req \in [Requests -> Reqs]
    /\ BeforeInv
    /\ \A r \in Requests : Fits(r, req[r])

LEMMA LoginInit == Init => LoginInv
BY MemberAssumption
   DEF Init, LoginInv, AccountType, Objects, Assistants, Configs, Off, Reqs, Idle, Ops, Steps, Finals,
       Configured, BeforeInv, Fits, StepOp

-----------------------------------------------------------------------------
\* A request that runs goes on: it fits where it comes to, and others do not notice.
LEMMA MoveKeeps ==
    ASSUME LoginInv, NEW r \in Requests, Active(r), AccountType',
           req' \in [Requests -> Reqs], \A q \in Requests \ {r} : req'[q] = req[q],
           Fits(r, req'[r]), req'[r].pc # "idle", UNCHANGED <<config, assistant, requestHistory>>
    PROVE  LoginInv'
<1>1. BeforeInv'
  BY DEF LoginInv, BeforeInv, Active, Ended, Finals, requestHistory
<1>2. ASSUME NEW q \in Requests PROVE Fits(q, req[q])' 
  <2>1. Fits(q, req'[q])
    BY DEF LoginInv
  <2> QED
    BY <2>1 DEF Fits, Vouched, requestHistory
<1> QED
  BY <1>1, <1>2 DEF LoginInv, requestHistory

\* A request that is one step.
LEMMA OnceKeeps ==
    ASSUME LoginInv, NEW r \in Requests, Once(r), AccountType', UNCHANGED <<config, assistant, requestHistory>>
    PROVE  LoginInv'
<1> USE DEF LoginInv, Once, Goto, requestHistory
<1>1. req' \in [Requests -> Reqs] /\ req'[r].op = None /\ req'[r].pc = "done"
  BY DEF Reqs, Steps, Fits, StepOp
<1>2. BeforeInv'
  BY DEF BeforeInv, Finals
<1>4. ASSUME NEW s, NEW q \in Requests, Vouched(s, q) PROVE Vouched(s, q)'
  BY <1>4 DEF Vouched
<1>3. ASSUME NEW q \in Requests PROVE Fits(q, req[q])'
  <2>1. CASE q = r
    BY <1>1, <2>1, MemberAssumption DEF Fits, StepOp, Finals, Configured
  <2>2. CASE q # r
    <3>1. req'[q] = req[q] /\ Fits(q, req[q])
      BY <2>2
    <3> QED
      BY <3>1, <1>4 DEF Fits
  <2> QED
    BY <2>1, <2>2
<1> QED
  BY <1>1, <1>2, <1>3

\* A request begins: those that have ended are before it, and it knows the configuration.
LEMMA BeginKeeps ==
    ASSUME LoginInv, NEW r \in Requests, NEW op \in Ops, NEW pc \in {"mail", "config"},
           NEW name \in Names \cup {None}, NEW mail \in Mails \cup {None},
           NEW id \in (Requests \X Names) \cup {None},
           op \in {"register", "login"} => name \in Names,
           IF pc = "mail" THEN op \in {"register", "update"} ELSE op \in {"login", "import", "preview"},
           Begin(r, op, pc, name, mail, id)
    PROVE  LoginInv'
<1> USE DEF LoginInv, Begin
<1> DEFINE now == [req[r] EXCEPT !.op = op, !.pc = pc, !.name = name, !.mail = mail, !.id = id]
<1>0. now \in Reqs /\ now.op = op /\ now.pc = pc /\ now.name = name
  BY ZenonT(60) DEF Reqs, Steps
<1>1. req' \in [Requests -> Reqs] /\ req'[r].op = op /\ req'[r].pc = pc /\ req'[r].name = name
      /\ config \in Configs
  <2>1. req' = [req EXCEPT ![r] = now]
    OBVIOUS
  <2> HIDE DEF now
  <2> QED
    BY <1>0, <2>1
<1>2. BeforeInv'
  BY <1>1 DEF BeforeInv, Ended, Finals
<1>3. ASSUME NEW s, NEW q \in Requests \ {r}, Vouched(s, q) PROVE Vouched(s, q)'
  <2>1. PICK p \in Requests : <<p, q>> \notin before /\ s \in inForce[p]
    BY <1>3 DEF Vouched
  <2>2. p # r
    BY <2>1 DEF Fits
  <2> QED
    BY <2>1, <2>2 DEF Vouched
<1>4. ASSUME NEW q \in Requests PROVE Fits(q, req[q])'
  <2>1. CASE q = r
    BY <1>1, <2>1 DEF Fits, StepOp, Finals, Configured
  <2>2. CASE q # r
    BY <1>3, <2>2 DEF Fits
  <2> QED
    BY <2>1, <2>2
<1>5. AccountType' /\ inForce' \in [Requests -> SUBSET Configs]
  BY DEF AccountType
<1> QED
  BY <1>1, <1>2, <1>4, <1>5

\* A new configuration is known to whoever runs.
LEMMA PutConfigKeeps == ASSUME LoginInv, NEW r \in Requests, PutConfig(r) PROVE LoginInv'
<1> USE DEF LoginInv, PutConfig
<1>1. PICK c \in Configs :
         /\ Once(r) /\ config' = c
         /\ inForce' = [q \in Requests |-> IF Active(q) THEN inForce[q] \cup {c} ELSE inForce[q]]
         /\ UNCHANGED <<accounts, assistant, before>>
  OBVIOUS
<1>2. req' \in [Requests -> Reqs] /\ req'[r].op = None /\ req'[r].pc = "done"
      /\ \A q \in Requests \ {r} : req'[q] = req[q]
  BY <1>1, SMTT(30) DEF Reqs, Steps, Once, Goto, Fits, StepOp
<1>3. inForce' \in [Requests -> SUBSET Configs] /\ \A q \in Requests : inForce[q] \subseteq inForce'[q]
  BY <1>1
<1>4. BeforeInv'
  BY <1>1, <1>2 DEF BeforeInv, Finals, Once
<1>5. ASSUME NEW s, NEW q \in Requests, Vouched(s, q) PROVE Vouched(s, q)'
  BY <1>1, <1>3, <1>5 DEF Vouched
<1>6. ASSUME NEW q \in Requests PROVE Fits(q, req[q])'
  <2>1. CASE q = r
    BY <1>2, <2>1, MemberAssumption DEF Fits, StepOp, Finals, Configured
  <2>2. CASE q # r
    BY <1>1, <1>2, <1>3, <1>5, <2>2 DEF Fits, Active, Ended, Finals
  <2> QED
    BY <2>1, <2>2
<1> QED
  BY <1>1, <1>2, <1>3, <1>4, <1>6 DEF AccountType

\* An attribute is set to what this request has read, which was in force while it ran: it
\* had not ended when any request began that has not ended yet.
LEMMA ConfigureKeeps ==
    ASSUME LoginInv, NEW r \in Requests,
           NEW at \in {"server", "domain", "base"}, NEW then \in {"domain", "base", "bind"},
           (at = "server" /\ then = "domain") \/ (at # "server"),
           Configure(r, at, then)
    PROVE  LoginInv'
<1> USE DEF LoginInv, Configure, requestHistory
<1> DEFINE o == Assistant(r)
<1>1. /\ req' \in [Requests -> Reqs] /\ req'[r].pc = then /\ req'[r].op = req[r].op
      /\ req'[r].cfg = req[r].cfg /\ req'[r].name = req[r].name
      /\ \A q \in Requests \ {r} : req'[q] = req[q]
  BY DEF Goto, Reqs, Steps
<1>2. req[r].cfg \in Servers \cap inForce[r] /\ req[r].cfg \in Configs /\ o \in Assistants
  BY DEF Fits, Configs, Assistant, Assistants
<1>3. /\ assistant' \in [Assistants -> Objects]
      /\ \A p \in Assistants : assistant'[p].server = IF p = o /\ at = "server" THEN req[r].cfg
                                                      ELSE assistant[p].server
  BY <1>2 DEF Objects
<1>4. BeforeInv'
  BY <1>1 DEF BeforeInv, Finals
<1>5. ASSUME NEW q \in Requests, req'[q].pc \in Configured, req'[q].op = "login"
      PROVE  assistant'["auth"].server \in Servers /\ Vouched(assistant["auth"].server, q)'
  <2>1. CASE at = "server" /\ o = "auth"
    <3>1. <<r, q>> \notin before
      BY DEF BeforeInv, Finals
    <3> QED
      BY <1>2, <1>3, <2>1, <3>1 DEF Vouched, Assistants
  <2>2. CASE ~(at = "server" /\ o = "auth")
    <3>1. assistant'["auth"].server = assistant["auth"].server
      BY <1>3, <2>2 DEF Assistants
    <3>2. req[q].pc \in Configured /\ req[q].op = "login"
      BY <1>1, <1>5, <2>2 DEF Assistant, Configured
    <3> QED
      BY <3>1, <3>2 DEF Fits, Vouched
  <2> QED
    BY <2>1, <2>2
<1>6. ASSUME NEW q \in Requests, req'[q].pc \in Configured, req'[q].op # "login"
      PROVE  assistant'["settings"].server \in Servers
  BY <1>1, <1>2, <1>3, <1>6 DEF Fits, Assistant, Assistants, Configured
<1>7. ASSUME NEW q \in Requests PROVE Fits(q, req[q])'
  <2>1. CASE q = r
    <3>1. Fits(r, req[r])
      OBVIOUS
    <3> QED
      BY <1>1, <1>2, <1>5, <1>6, <2>1, <3>1 DEF Fits, StepOp, Finals, Configured
  <2>2. CASE q # r
    <3>1. Fits(q, req[q]) /\ req'[q] = req[q]
      BY <1>1, <2>2
    <3>2. ASSUME NEW s, Vouched(s, q) PROVE Vouched(s, q)'
      BY <3>2 DEF Vouched
    <3> QED
      BY <3>1, <3>2, <1>5, <1>6 DEF Fits
  <2> QED
    BY <2>1, <2>2
<1> QED
  BY <1>1, <1>3, <1>4, <1>7 DEF AccountType

-----------------------------------------------------------------------------
\* An account that is made, or taken away.
LEMMA InsertType ==
    ASSUME AccountType, NEW r \in Requests, NEW n \in Names, NEW m \in Mails \cup {None},
           NEW local \in BOOLEAN, Insert(r, n, m, local)
    PROVE  AccountType'
BY DEF AccountType, Insert, Rows

\* Accounts that are changed one by one stay accounts.
LEMMA ChangeType ==
    ASSUME AccountType, DOMAIN accounts' = DOMAIN accounts, \A a \in DOMAIN accounts : accounts'[a] \in Rows,
           accounts' \in [DOMAIN accounts -> Rows]
    PROVE  AccountType'
BY DEF AccountType

\* A request that only goes on to another step.
LEMMA GotoMoves ==
    ASSUME req \in [Requests -> Reqs], NEW r \in Requests, NEW to \in Steps, Goto(r, to)
    PROVE  /\ req' \in [Requests -> Reqs] /\ \A q \in Requests \ {r} : req'[q] = req[q]
           /\ req'[r].pc = to /\ req'[r].server = req[r].server
           /\ req'[r].op = req[r].op /\ req'[r].name = req[r].name /\ req'[r].todo = req[r].todo
BY DEF Goto, Reqs

LEMMA RegisterKeeps ==
    ASSUME LoginInv, NEW r \in Requests,
           Register(r) \/ Update(r) \/ Login(r) \/ Import(r) \/ Preview(r)
    PROVE  LoginInv'
<1>1. DOMAIN accounts \subseteq Requests \X Names
  BY DEF LoginInv, AccountType
<1>2. CASE Register(r)
  BY <1>2, BeginKeeps DEF Register, Ops
<1>3. CASE Update(r)
  BY <1>1, <1>3, BeginKeeps DEF Update, Ops
<1>4. CASE Login(r)
  BY <1>4, BeginKeeps DEF Login, Ops
<1>5. CASE Import(r)
  BY <1>5, BeginKeeps, MemberAssumption DEF Import, Ops
<1>6. CASE Preview(r)
  BY <1>6, BeginKeeps, MemberAssumption DEF Preview, Ops
<1> QED
  BY <1>2, <1>3, <1>4, <1>5, <1>6

LEMMA AccountsKeep ==
    ASSUME LoginInv, NEW r \in Requests,
           DeleteUser(r) \/ LocalLogin(r) \/ ChangePassword(r) \/ ResetPassword(r)
    PROVE  LoginInv'
<1>1. AccountType /\ UNCHANGED <<config, assistant, requestHistory>> /\ Once(r)
  BY DEF LoginInv, DeleteUser, LocalLogin, ChangePassword, ResetPassword
<1>2. CASE DeleteUser(r) \/ LocalLogin(r) \/ ChangePassword(r)
  BY <1>1, <1>2, OnceKeeps DEF AccountType, DeleteUser, LocalLogin, ChangePassword
<1>3. CASE ResetPassword(r)
  <2>1. PICK a \in DOMAIN accounts : accounts' = [accounts EXCEPT ![a].local = TRUE]
    BY <1>3 DEF ResetPassword
  <2>2. accounts' \in [DOMAIN accounts -> Rows]
    BY <1>1, <2>1 DEF AccountType, Rows
  <2> QED
    BY <1>1, <2>1, <2>2, OnceKeeps, ChangeType
<1> QED
  BY <1>2, <1>3

\* The steps of registrations and changes.
LEMMA WritesKeep ==
    ASSUME LoginInv, NEW r \in Requests,
           CheckMail(r) \/ CheckName(r) \/ WriteNew(r) \/ WriteUpdate(r) \/ WriteFails(r)
    PROVE  LoginInv'
<1> USE DEF LoginInv
<1>1. req[r] \in Reqs /\ Fits(r, req[r]) /\ Active(r)
  BY DEF CheckMail, CheckName, WriteNew, WriteUpdate, WriteFails, Active, Ended
<1>2. PICK to \in {"name", "write", "refused", "done", "failed"} : Goto(r, to)
  BY DEF CheckMail, CheckName, WriteNew, WriteUpdate, WriteFails
<1>3. /\ req' \in [Requests -> Reqs] /\ \A q \in Requests \ {r} : req'[q] = req[q]
      /\ req'[r].pc = to /\ req'[r].op = req[r].op /\ req'[r].name = req[r].name
  BY <1>1, <1>2 DEF Goto, Reqs, Steps
<1>4. req[r].op \in {"register", "update"}
  BY <1>1 DEF Fits, StepOp, CheckMail, CheckName, WriteNew, WriteUpdate, WriteFails
<1>5. Fits(r, req'[r])
  BY <1>1, <1>3, <1>4 DEF Fits, StepOp, Active, Ended, Finals, Configured
<1>6. AccountType'
  <2>1. CASE CheckMail(r) \/ CheckName(r) \/ WriteFails(r)
    BY <2>1 DEF AccountType, CheckMail, CheckName, WriteFails
  <2>2. CASE WriteNew(r)
    BY <2>2, <1>1, InsertType DEF WriteNew, Fits, StepOp, Reqs
  <2>3. CASE WriteUpdate(r)
    <3> DEFINE id == req[r].id
               now == [accounts[id] EXCEPT !.name = IF req[r].name = None THEN @ ELSE req[r].name,
                                           !.by = IF req[r].name = None THEN @ ELSE r,
                                           !.mail = IF req[r].mail = None THEN @ ELSE req[r].mail]
    <3>1. accounts' = [accounts EXCEPT ![id] = now] /\ id \in DOMAIN accounts
      BY <2>3 DEF WriteUpdate
    <3>2. accounts[id] \in Rows /\ req[r].name \in Names \cup {None} /\ req[r].mail \in Mails \cup {None}
      BY <1>1, <3>1 DEF AccountType, Reqs
    <3>3. now \in Rows
      BY <3>2 DEF Rows
    <3> HIDE DEF now
    <3>4. accounts' \in [DOMAIN accounts -> Rows]
      BY <3>1, <3>3 DEF AccountType
    <3> QED
      BY <3>4, ChangeType
  <2> QED
    BY <2>1, <2>2, <2>3
<1>7. UNCHANGED <<config, assistant, requestHistory>>
  BY DEF CheckMail, CheckName, WriteNew, WriteUpdate, WriteFails
<1> QED
  BY <1>1, <1>3, <1>5, <1>6, <1>7, MoveKeeps

\* The steps at the directory: who is let in was accepted by the server of the moment.
LEMMA DirectoryKeeps ==
    ASSUME LoginInv, NEW r \in Requests, ReadConfig(r) \/ Address(r) \/ Bind(r) \/ Search(r)
    PROVE  LoginInv'
<1> USE DEF LoginInv
<1>1. req[r] \in Reqs /\ Fits(r, req[r]) /\ Active(r)
  BY DEF ReadConfig, Address, Bind, Search, Active, Ended
<1>2. UNCHANGED <<config, assistant, requestHistory>> /\ AccountType'
  BY DEF ReadConfig, Address, Bind, Search, AccountType
<1>3. CASE ReadConfig(r)
  <2>1. /\ req' \in [Requests -> Reqs] /\ \A q \in Requests \ {r} : req'[q] = req[q]
        /\ req'[r].pc = (IF config = Off THEN "refused" ELSE "server") /\ req'[r].cfg = config
        /\ req'[r].op = req[r].op /\ req'[r].name = req[r].name
    BY <1>1, <1>3 DEF ReadConfig, Reqs, Steps
  <2>2. Fits(r, req'[r])
    BY <1>1, <1>3, <2>1 DEF ReadConfig, Fits, StepOp, Finals, Configured, Configs, Off
  <2> QED
    BY <1>1, <1>2, <2>1, <2>2, MoveKeeps
<1>6. CASE Address(r)
  <2>1. assistant[Assistant(r)].domain \in Configs
    BY DEF Assistant, Assistants, Objects
  <2>2. /\ req' \in [Requests -> Reqs] /\ \A q \in Requests \ {r} : req'[q] = req[q]
        /\ req[r].pc = "bind" /\ req'[r].pc = "connect" /\ req'[r].op = req[r].op
        /\ req'[r].name = req[r].name
    BY <1>1, <1>6, <2>1 DEF Address, Reqs, Steps
  <2>3. Fits(r, req'[r])
    BY <1>1, <2>2 DEF Fits, StepOp, Finals, Configured
  <2> QED
    BY <1>1, <1>2, <2>2, <2>3, MoveKeeps
<1>4. CASE Bind(r)
  <2> DEFINE obj == assistant[Assistant(r)]
  <2>1. Assistant(r) \in Assistants /\ obj.server \in Configs
    BY DEF Assistant, Assistants, Objects
  <2>2. /\ req' \in [Requests -> Reqs] /\ \A q \in Requests \ {r} : req'[q] = req[q]
        /\ req'[r].pc \in {"search", "refused"} /\ req'[r].server = obj.server
        /\ req'[r].op = req[r].op /\ req'[r].name = req[r].name
    BY <1>1, <1>4, <2>1 DEF Bind, Reqs, Steps
  <2>3. /\ StepOp(req[r]) /\ config \in inForce[r]
        /\ obj.server \in Servers /\ (req[r].op = "login" => Vouched(obj.server, r))
    BY <1>1, <1>4 DEF Bind, Fits, Finals, Assistant, Configured
  <2>4. StepOp(req'[r]) /\ req'[r] \in Reqs
    BY <1>4, <2>2, <2>3 DEF Bind, StepOp
  <2>5. Fits(r, req'[r])
    BY <2>2, <2>3, <2>4 DEF Fits, Finals, Configured
  <2> QED
    BY <1>1, <1>2, <2>2, <2>5, MoveKeeps
<1>5. CASE Search(r)
  <2>1. People[req[r].server] \subseteq Names
    BY <1>1, <1>5, MemberAssumption DEF Search, Fits
  <2>2. /\ req' \in [Requests -> Reqs] /\ \A q \in Requests \ {r} : req'[q] = req[q]
        /\ req'[r].pc \in {"preview", "find", "refused"} /\ req'[r].server = req[r].server
        /\ req'[r].pc = "preview" <=> req[r].op # "login"
        /\ req'[r].op = req[r].op /\ req'[r].name = req[r].name
    BY <1>1, <1>5, <2>1, SMTT(30) DEF Search, Reqs, Steps
  <2>3. Fits(r, req'[r])
    BY <1>1, <1>5, <2>2 DEF Search, Fits, StepOp, Finals, Configured
  <2> QED
    BY <1>1, <1>2, <2>2, <2>3, MoveKeeps
<1> QED
  BY <1>3, <1>4, <1>5, <1>6

\* The end of a login.
LEMMA LetInKeeps ==
    ASSUME LoginInv, NEW r \in Requests, Find(r) \/ StorePassword(r) \/ CreateAtLogin(r)
    PROVE  LoginInv'
<1> USE DEF LoginInv
<1>1. req[r] \in Reqs /\ Fits(r, req[r]) /\ Active(r)
  BY DEF Find, StorePassword, CreateAtLogin, Active, Ended
<1>2. UNCHANGED <<config, assistant, requestHistory>>
  BY DEF Find, StorePassword, CreateAtLogin
<1>3. /\ req' \in [Requests -> Reqs] /\ \A q \in Requests \ {r} : req'[q] = req[q]
      /\ req'[r].pc \in {"found", "create", "done", "failed"} /\ req'[r].server = req[r].server
      /\ req'[r].op = req[r].op /\ req'[r].name = req[r].name
  <2>1. CASE Find(r)
    <3>1. CASE Goto(r, "create")
      BY <3>1, GotoMoves DEF Steps
    <3>2. ASSUME NEW id \in DOMAIN accounts, req' = [req EXCEPT ![r].id = id, ![r].pc = "found"]
          PROVE  <1>3!:
      BY <1>1, <3>2 DEF Reqs, Steps, AccountType
    <3> QED
      BY <2>1, <3>1, <3>2 DEF Find
  <2>2. CASE StorePassword(r) \/ CreateAtLogin(r)
    <3>1. Goto(r, "done") \/ Goto(r, "failed")
      BY <2>2 DEF StorePassword, CreateAtLogin
    <3> QED
      BY <3>1, GotoMoves DEF Steps
  <2> QED
    BY <2>1, <2>2
<1>4. req[r].op = "login" /\ Vouched(req[r].server, r)
  BY <1>1 DEF Find, StorePassword, CreateAtLogin, Fits, StepOp
<1>5. Fits(r, req'[r])
  BY <1>1, <1>3, <1>4 DEF Fits, StepOp, Finals, Configured, Active, Ended
<1>6. AccountType'
  <2>1. CASE Find(r)
    BY <2>1 DEF AccountType, Find
  <2>2. CASE StorePassword(r)
    <3>1. accounts' \in [DOMAIN accounts -> Rows]
      BY <2>2, ZenonT(60) DEF AccountType, StorePassword, Rows
    <3> QED
      BY <3>1, ChangeType
  <2>3. CASE CreateAtLogin(r)
    BY <1>1, <1>4, <2>3, InsertType DEF CreateAtLogin, Fits, StepOp, AccountType
  <2> QED
    BY <2>1, <2>2, <2>3
<1> QED
  BY <1>1, <1>2, <1>3, <1>5, <1>6, MoveKeeps

\* The steps of an import.
LEMMA ImportKeeps ==
    ASSUME LoginInv, NEW r \in Requests,
           PreviewImport(r) \/ ReadExisting(r) \/ ImportNext(r) \/ ImportEnds(r)
    PROVE  LoginInv'
<1> USE DEF LoginInv
<1>1. req[r] \in Reqs /\ Fits(r, req[r]) /\ Active(r)
  BY DEF PreviewImport, ReadExisting, ImportNext, ImportEnds, Active, Ended
<1>2. UNCHANGED <<config, assistant, requestHistory>>
  BY DEF PreviewImport, ReadExisting, ImportNext, ImportEnds
<1>3. /\ req' \in [Requests -> Reqs] /\ \A q \in Requests \ {r} : req'[q] = req[q]
      /\ req'[r].pc \in {"existing", "next", "done", "failed"}
      /\ req'[r].op = req[r].op /\ req'[r].name = req[r].name
  <2>1. CASE PreviewImport(r) \/ ReadExisting(r)
    BY <1>1, <2>1 DEF PreviewImport, ReadExisting, Reqs, Steps
  <2>2. CASE Goto(r, "done") \/ Goto(r, "failed")
    BY <2>2, GotoMoves DEF Steps
  <2>3. ASSUME NEW n, req' = [req EXCEPT ![r].todo = {m \in @ : Fold[m] # Fold[n]}], ImportNext(r)
        PROVE  <1>3!:
    BY <1>1, <2>3 DEF Reqs, Steps, ImportNext
  <2> QED
    BY <2>1, <2>2, <2>3 DEF ImportNext, ImportEnds
<1>4. req[r].op \in {"import", "preview"}
  BY <1>1 DEF PreviewImport, ReadExisting, ImportNext, ImportEnds, Fits, StepOp
<1>9. req'[r].pc \in {"existing", "next"} => req[r].op = "import"
  <2>1. CASE PreviewImport(r)
    BY <1>1, <1>4, <2>1 DEF PreviewImport, Reqs
  <2>2. CASE ReadExisting(r) \/ ImportNext(r) \/ ImportEnds(r)
    BY <1>1, <2>2 DEF ReadExisting, ImportNext, ImportEnds, Fits, StepOp
  <2> QED
    BY <2>1, <2>2
<1>5. Fits(r, req'[r])
  BY <1>1, <1>3, <1>4, <1>9 DEF Fits, StepOp, Finals, Configured, Active, Ended
<1>6. AccountType'
  <2>1. CASE PreviewImport(r) \/ ReadExisting(r) \/ ImportEnds(r)
    BY <2>1 DEF AccountType, PreviewImport, ReadExisting, ImportEnds
  <2>2. CASE ImportNext(r)
    <3>1. PICK n \in req[r].todo : accounts' = accounts \/ Insert(r, n, None, FALSE)
      BY <2>2 DEF ImportNext
    <3>2. n \in Names
      BY <1>1, <3>1 DEF Reqs
    <3> QED
      BY <3>1, <3>2, InsertType DEF AccountType
  <2> QED
    BY <2>1, <2>2
<1> QED
  BY <1>1, <1>2, <1>3, <1>5, <1>6, MoveKeeps

LEMMA LoginStep == LoginInv /\ [Next]_vars => LoginInv'
<1> SUFFICES ASSUME LoginInv, [Next]_vars PROVE LoginInv'
  OBVIOUS
<1>1. ASSUME NEW r \in Requests,
             Configure(r, "server", "domain") \/ Configure(r, "domain", "base") \/ Configure(r, "base", "bind")
      PROVE  LoginInv'
  BY <1>1, ConfigureKeeps
<1>2. CASE UNCHANGED vars
  <2> USE <1>2 DEF vars, requestHistory
  <2>1. AccountType' /\ BeforeInv'
    BY DEF LoginInv, AccountType, BeforeInv
  <2>2. ASSUME NEW r \in Requests PROVE Fits(r, req[r])'
    BY DEF LoginInv, Fits, Vouched
  <2> QED
    BY <2>1, <2>2 DEF LoginInv
<1> QED
  BY <1>1, <1>2, RegisterKeeps, AccountsKeep, WritesKeep, PutConfigKeeps, DirectoryKeeps, LetInKeeps,
     ImportKeeps DEF Next

LEMMA LoginInvariant == Spec => []LoginInv
BY LoginInit, LoginStep, PTL DEF Spec

\* Whoever a directory lets in was accepted by a server that was configured while the
\* login, or a request it overlaps, was running: for any requests, people and servers,
\* although all logins share one object whose attributes are set one by one.
THEOREM AlwaysCheckedWhereConfigured == Spec => []CheckedWhereConfigured
<1>1. LoginInv => CheckedWhereConfigured
  BY DEF LoginInv, Fits, Vouched, CheckedWhereConfigured
<1> QED
  BY <1>1, LoginInvariant, PTL

-----------------------------------------------------------------------------
\* No account of the name of n is by r, or by a request that had ended before r began.
Clear(n, r) ==
    \A b \in DOMAIN accounts :
       Fold[accounts[b].name] = Fold[n] => accounts[b].by # r /\ <<accounts[b].by, r>> \notin before

\* The people still to be imported are clear once the usernames were read again.
ImportsFit ==
    \A r \in Requests :
       req[r].pc = "next" /\ req[r].op = "import" => \A n \in req[r].todo : Clear(n, r)

ImportInv ==
    /\ \A a \in DOMAIN accounts : req[accounts[a].by].pc # "idle"
    /\ ImportsFit /\ ImportsKeepPeopleApart

\* Requests keep what they are for, and none is before one that runs but those that were.
Onward ==
    /\ \A q \in Requests : req[q].pc # "idle" => req'[q].op = req[q].op /\ req'[q].pc # "idle"
    /\ \A q, r \in Requests : <<q, r>> \in before' => <<q, r>> \in before \/ req[r].pc = "idle"

LEMMA ImportInit == Init => ImportInv
BY DEF Init, ImportInv, ImportsFit, ImportsKeepPeopleApart, Idle

\* A step that gives nobody a name.
LEMMA QuietKeeps ==
    ASSUME LoginInv, ImportInv, Onward, ImportsFit',
           \A a \in DOMAIN accounts' : /\ a \in DOMAIN accounts
                                       /\ accounts'[a].name = accounts[a].name
                                       /\ accounts'[a].by = accounts[a].by
    PROVE  ImportInv'
<1>1. \A a \in DOMAIN accounts : accounts[a].by \in Requests /\ req[accounts[a].by].pc # "idle"
  BY DEF LoginInv, AccountType, Rows, ImportInv
<1>2. \A a \in DOMAIN accounts' : req'[accounts'[a].by].pc # "idle"
  BY <1>1 DEF Onward
<1>3. ImportsKeepPeopleApart'
  BY <1>1 DEF ImportInv, ImportsKeepPeopleApart, Onward
<1> QED
  BY <1>2, <1>3 DEF ImportInv

\* A person stays clear when no account gets the name.
LEMMA ClearKeeps ==
    ASSUME LoginInv, Onward, NEW r \in Requests, req[r].pc # "idle", NEW n, Clear(n, r),
           \A a \in DOMAIN accounts' : /\ a \in DOMAIN accounts
                                       /\ accounts'[a].name = accounts[a].name
                                       /\ accounts'[a].by = accounts[a].by
    PROVE  Clear(n, r)'
BY DEF Clear, Onward, LoginInv, AccountType, Rows

\* A request that runs, but is not an import, gives an account its name.
LEMMA NamingKeeps ==
    ASSUME LoginInv, ImportInv, NEW r \in Requests, Active(r), req[r].op # "import",
           Onward, before' = before, \A q \in Requests \ {r} : req'[q] = req[q],
           req'[r].pc \in Finals, NEW x,
           x \in DOMAIN accounts' => accounts'[x].by = r,
           \A a \in DOMAIN accounts' \ {x} : /\ a \in DOMAIN accounts
                                             /\ accounts'[a].name = accounts[a].name
                                             /\ accounts'[a].by = accounts[a].by
    PROVE  ImportInv'
<1>1. \A a \in DOMAIN accounts : accounts[a].by \in Requests /\ req[accounts[a].by].pc # "idle"
  BY DEF LoginInv, AccountType, Rows, ImportInv
<1>2. \A q \in Requests : <<r, q>> \notin before'
  BY DEF LoginInv, BeforeInv, Active, Ended, Finals
<1>3. \A a \in DOMAIN accounts' : req'[accounts'[a].by].pc # "idle"
  BY <1>1 DEF Onward, Active
<1>4. req'[r].op # "import"
  BY DEF Onward, Active
<1>5. ImportsKeepPeopleApart'
  BY <1>1, <1>2, <1>4 DEF ImportInv, ImportsKeepPeopleApart, Onward
<1>6. ASSUME NEW q \in Requests, req'[q].pc = "next", req'[q].op = "import", NEW n \in req'[q].todo
      PROVE  Clear(n, q)'
  <2>1. q # r /\ Clear(n, q)
    BY <1>4, <1>6 DEF ImportInv, ImportsFit
  <2> QED
    BY <1>2, <2>1 DEF Clear
<1>7. ImportsFit'
  BY <1>6 DEF ImportInv, ImportsFit, Finals
<1> QED
  BY <1>3, <1>5, <1>7 DEF ImportInv

\* An import gives a person an account: the person was clear, and no other of the name
\* is left.
LEMMA ImportNextKeeps ==
    ASSUME LoginInv, ImportInv, NEW r \in Requests, ImportNext(r), req[r].op = "import"
    PROVE  ImportInv'
<1>1. req \in [Requests -> Reqs] /\ Active(r) /\ before' = before
  BY DEF LoginInv, ImportNext, Active, Ended, requestHistory
<1>2. CASE Goto(r, "failed") /\ UNCHANGED accounts
  <2>1. Onward
    BY <1>1, <1>2, GotoMoves DEF Onward, Steps
  <2>2. \A q \in Requests : req'[q].pc = "failed" \/ req'[q] = req[q]
    BY <1>1, <1>2, GotoMoves DEF Steps
  <2>3. ImportsFit'
    BY <1>1, <1>2, <2>2 DEF ImportInv, ImportsFit, Clear
  <2> QED
    BY <1>2, <2>1, <2>3, QuietKeeps
<1>3. ASSUME NEW n \in req[r].todo, Insert(r, n, None, FALSE),
             req' = [req EXCEPT ![r].todo = {m \in @ : Fold[m] # Fold[n]}]
      PROVE  ImportInv'
  <2> DEFINE x == <<r, n>>
  <2>1. /\ \A q \in Requests \ {r} : req'[q] = req[q]
        /\ req'[r].pc = "next" /\ req'[r].op = "import"
        /\ req'[r].todo = {m \in req[r].todo : Fold[m] # Fold[n]}
    BY <1>1, <1>3 DEF Reqs, ImportNext
  <2>2. /\ DOMAIN accounts' = DOMAIN accounts \cup {x}
        /\ accounts'[x].name = n /\ accounts'[x].by = r
        /\ \A a \in DOMAIN accounts \ {x} : accounts'[a] = accounts[a]
    BY <1>3 DEF Insert
  <2> HIDE DEF x
  <2>3. Clear(n, r)
    BY DEF ImportInv, ImportsFit, ImportNext
  <2>4. \A q \in Requests : <<r, q>> \notin before
    BY <1>1 DEF LoginInv, BeforeInv, Active, Ended, Finals
  <2>5. \A a \in DOMAIN accounts : accounts[a].by \in Requests /\ req[accounts[a].by].pc # "idle"
    BY DEF LoginInv, AccountType, Rows, ImportInv
  <2>6. \A q \in Requests : req'[q].op = req[q].op /\ (req'[q].pc = req[q].pc)
    BY <2>1 DEF ImportNext
  <2>7. \A a \in DOMAIN accounts' : req'[accounts'[a].by].pc # "idle"
    BY <2>2, <2>5, <2>6, <1>1 DEF Active
  <2>8. ImportsKeepPeopleApart'
    <3> SUFFICES ASSUME NEW a \in DOMAIN accounts', NEW b \in DOMAIN accounts', a # b,
                        Fold[accounts'[a].name] = Fold[accounts'[b].name],
                        req'[accounts'[a].by].op = "import"
                 PROVE  /\ accounts'[b].by # accounts'[a].by
                        /\ <<accounts'[b].by, accounts'[a].by>> \notin before
      BY <1>1 DEF ImportsKeepPeopleApart
    <3>1. CASE a = x
      BY <2>2, <2>3, <3>1 DEF Clear
    <3>2. CASE b = x
      BY <2>2, <2>3, <2>4, <2>5, <3>2 DEF Clear
    <3>3. CASE a # x /\ b # x
      BY <2>2, <2>5, <2>6, <3>3 DEF ImportInv, ImportsKeepPeopleApart
    <3> QED
      BY <3>1, <3>2, <3>3
  <2>9. ASSUME NEW q \in Requests, req'[q].pc = "next", req'[q].op = "import", NEW m \in req'[q].todo
        PROVE  Clear(m, q)'
    <3>1. Clear(m, q) /\ (q = r => Fold[m] # Fold[n])
      <4>1. CASE q = r
        BY <2>1, <2>9, <4>1 DEF ImportInv, ImportsFit, ImportNext
      <4>2. CASE q # r
        BY <2>1, <2>9, <4>2 DEF ImportInv, ImportsFit
      <4> QED
        BY <4>1, <4>2
    <3> QED
      BY <1>1, <2>2, <2>4, <3>1 DEF Clear
  <2>10. ImportsFit'
    BY <2>9 DEF ImportsFit
  <2> QED
    BY <2>7, <2>8, <2>10 DEF ImportInv
<1> QED
  BY <1>2, <1>3 DEF ImportNext

\* A step after which a request has nobody to import.
LEMMA OtherKeeps ==
    ASSUME LoginInv, ImportInv, NEW r \in Requests, Onward,
           \A q \in Requests \ {r} : req'[q] = req[q],
           req'[r].pc # "next",
           \A a \in DOMAIN accounts' : /\ a \in DOMAIN accounts
                                       /\ accounts'[a].name = accounts[a].name
                                       /\ accounts'[a].by = accounts[a].by
    PROVE  ImportInv'
<1>1. ASSUME NEW q \in Requests, req'[q].pc = "next", req'[q].op = "import", NEW n \in req'[q].todo
      PROVE  Clear(n, q)'
  BY <1>1, ClearKeeps DEF ImportInv, ImportsFit
<1>2. ImportsFit'
  BY <1>1 DEF ImportInv, ImportsFit
<1> QED
  BY <1>2, QuietKeeps

\* Most steps: a request goes on, or begins, and nobody gets a name.
LEMMA StepsKeepNames ==
    ASSUME LoginInv, ImportInv, NEW r \in Requests,
           \/ CheckMail(r) \/ CheckName(r) \/ WriteFails(r) \/ DeleteUser(r)
           \/ PutConfig(r) \/ LocalLogin(r) \/ ChangePassword(r) \/ ResetPassword(r)
           \/ ReadConfig(r) \/ Configure(r, "server", "domain") \/ Configure(r, "domain", "base")
           \/ Configure(r, "base", "bind") \/ Address(r) \/ Bind(r) \/ Find(r) \/ StorePassword(r)
           \/ ImportEnds(r)
    PROVE  ImportInv'
<1> USE DEF LoginInv
<1>1. req[r] \in Reqs /\ before' = before
  BY DEF CheckMail, CheckName, WriteFails, DeleteUser, PutConfig, LocalLogin, ChangePassword,
         ResetPassword, ReadConfig, Configure, Address, Bind, Find, StorePassword, ImportEnds, requestHistory
<1>2. \A a \in DOMAIN accounts' : /\ a \in DOMAIN accounts
                                  /\ accounts'[a].name = accounts[a].name
                                  /\ accounts'[a].by = accounts[a].by
  <2>1. CASE UNCHANGED accounts
    BY <2>1
  <2>2. CASE DeleteUser(r)
    BY <2>2 DEF DeleteUser
  <2>3. CASE ResetPassword(r)
    <3>1. PICK a \in DOMAIN accounts : accounts' = [accounts EXCEPT ![a].local = TRUE]
      BY <2>3 DEF ResetPassword
    <3> QED
      BY <3>1 DEF AccountType, Rows
  <2>4. CASE StorePassword(r)
    BY <2>4 DEF StorePassword, AccountType, Rows
  <2> QED
    BY <2>1, <2>2, <2>3, <2>4
       DEF CheckMail, CheckName, WriteFails, PutConfig, LocalLogin, ChangePassword,
           ReadConfig, Configure, Address, Bind, Find, ImportEnds
<1>3. /\ \A q \in Requests \ {r} : req'[q] = req[q]
      /\ req'[r].pc \notin {"idle", "next"} /\ req'[r].op = req[r].op
  <2>1. ASSUME NEW to \in Steps \ {"idle", "next"}, Goto(r, to)
        PROVE  <1>3!:
    BY <2>1, GotoMoves
  <2>2. CASE \/ CheckMail(r) \/ CheckName(r) \/ WriteFails(r) \/ DeleteUser(r) \/ PutConfig(r)
             \/ LocalLogin(r) \/ ChangePassword(r) \/ ResetPassword(r) \/ StorePassword(r) \/ ImportEnds(r)
    <3>1. Goto(r, "name") \/ Goto(r, "write") \/ Goto(r, "refused") \/ Goto(r, "failed") \/ Goto(r, "done")
      BY <2>2 DEF CheckMail, CheckName, WriteFails, DeleteUser, PutConfig, LocalLogin, ChangePassword,
                  ResetPassword, StorePassword, ImportEnds, Once
    <3> QED
      BY <2>1, <3>1 DEF Steps
  <2>3. CASE Configure(r, "server", "domain") \/ Configure(r, "domain", "base") \/ Configure(r, "base", "bind")
    BY <2>1, <2>3 DEF Configure, Steps
  <2>4. CASE ReadConfig(r) \/ Address(r) \/ Bind(r)
    BY <1>1, <2>4 DEF ReadConfig, Address, Bind, Reqs
  <2>5. CASE Find(r)
    <3>1. ASSUME NEW id \in DOMAIN accounts, req' = [req EXCEPT ![r].id = id, ![r].pc = "found"]
          PROVE  <1>3!:
      BY <1>1, <3>1 DEF Reqs
    <3> QED
      BY <2>1, <2>5, <3>1 DEF Find, Steps
  <2> QED
    BY <2>2, <2>3, <2>4, <2>5
<1>4. Onward
  BY <1>1, <1>3 DEF Onward
<1> QED
  BY <1>2, <1>3, <1>4, OtherKeeps

LEMMA BeginKeepsNames ==
    ASSUME LoginInv, ImportInv, NEW r \in Requests, NEW op, NEW pc \in {"mail", "config"},
           NEW name, NEW mail, NEW id, Begin(r, op, pc, name, mail, id)
    PROVE  ImportInv'
<1>1. /\ \A q \in Requests \ {r} : req'[q] = req[q]
      /\ req'[r].pc = pc /\ UNCHANGED accounts /\ req[r].pc = "idle"
  BY DEF Begin, LoginInv, Reqs
<1>2. Onward
  BY <1>1 DEF Onward, Begin
<1> QED
  BY <1>1, <1>2, OtherKeeps

LEMMA BeginsKeepNames ==
    ASSUME LoginInv, ImportInv, NEW r \in Requests,
           Register(r) \/ Update(r) \/ Login(r) \/ Import(r) \/ Preview(r)
    PROVE  ImportInv'
<1>1. CASE Register(r)
  <2>1. PICK n \in Names, m \in Mails : Begin(r, "register", "mail", n, m, None)
    BY <1>1 DEF Register
  <2> QED
    BY <2>1, BeginKeepsNames
<1>2. CASE Update(r)
  <2>1. PICK id \in DOMAIN accounts, n \in Names \cup {None}, m \in Mails \cup {None} :
           Begin(r, "update", "mail", n, m, id)
    BY <1>2 DEF Update
  <2> QED
    BY <2>1, BeginKeepsNames
<1>3. CASE Login(r)
  <2>1. PICK n \in Names : Begin(r, "login", "config", n, None, None)
    BY <1>3 DEF Login
  <2> QED
    BY <2>1, BeginKeepsNames
<1>4. CASE Import(r) \/ Preview(r)
  BY <1>4, BeginKeepsNames DEF Import, Preview
<1> QED
  BY <1>1, <1>2, <1>3, <1>4

\* Steps by which an account gets its name from a request that is no import.
LEMMA NamesKeep ==
    ASSUME LoginInv, ImportInv, NEW r \in Requests, WriteNew(r) \/ WriteUpdate(r) \/ CreateAtLogin(r)
    PROVE  ImportInv'
<1> USE DEF LoginInv
<1>1. Active(r) /\ before' = before /\ req[r] \in Reqs
  BY DEF WriteNew, WriteUpdate, CreateAtLogin, Active, Ended, requestHistory
<1>2. req[r].op # "import"
  BY DEF WriteNew, WriteUpdate, CreateAtLogin, Fits, StepOp
<1>3. Goto(r, "done") \/ (Goto(r, "failed") /\ UNCHANGED accounts)
  BY DEF WriteNew, WriteUpdate, CreateAtLogin
<1>4. /\ \A q \in Requests \ {r} : req'[q] = req[q]
      /\ req'[r].pc \in {"done", "failed"} /\ req'[r].op = req[r].op
  BY <1>3, GotoMoves DEF Steps
<1>5. Onward
  BY <1>1, <1>4 DEF Onward
<1>6. CASE UNCHANGED accounts
  BY <1>4, <1>5, <1>6, OtherKeeps
<1>7. ASSUME NEW n, NEW m, NEW local, Insert(r, n, m, local) PROVE ImportInv'
  <2> DEFINE x == <<r, n>>
  <2>1. /\ accounts'[x].by = r
        /\ \A a \in DOMAIN accounts' \ {x} : a \in DOMAIN accounts /\ accounts'[a] = accounts[a]
    BY <1>7 DEF Insert
  <2> HIDE DEF x
  <2> QED
    BY <1>1, <1>2, <1>4, <1>5, <2>1, NamingKeeps DEF Finals
<1>8. CASE WriteUpdate(r)
  <2> DEFINE id == req[r].id
  <2>1. /\ id \in DOMAIN accounts /\ DOMAIN accounts' = DOMAIN accounts
        /\ \A a \in DOMAIN accounts \ {id} : accounts'[a] = accounts[a]
        /\ IF req[r].name = None
           THEN accounts'[id].name = accounts[id].name /\ accounts'[id].by = accounts[id].by
           ELSE accounts'[id].by = r
    BY <1>8 DEF WriteUpdate, AccountType, Rows
  <2>2. CASE req[r].name = None
    BY <1>4, <1>5, <2>1, <2>2, OtherKeeps
  <2>3. CASE req[r].name # None
    BY <1>1, <1>2, <1>4, <1>5, <2>1, <2>3, NamingKeeps DEF Finals
  <2> QED
    BY <2>2, <2>3
<1> QED
  BY <1>6, <1>7, <1>8 DEF WriteNew, CreateAtLogin

\* Once the usernames were read, those who are left have no account at all.
LEMMA ListsKeep ==
    ASSUME LoginInv, ImportInv, NEW r \in Requests, Search(r) \/ PreviewImport(r) \/ ReadExisting(r)
    PROVE  ImportInv'
<1> USE DEF LoginInv
<1>1. Active(r) /\ before' = before /\ UNCHANGED accounts /\ req[r] \in Reqs /\ Fits(r, req[r])
  BY DEF Search, PreviewImport, ReadExisting, Active, Ended, requestHistory
<1>2. /\ \A q \in Requests \ {r} : req'[q] = req[q]
      /\ req'[r].op = req[r].op
      /\ req'[r].pc \in {"preview", "find", "refused", "done", "existing", "next"}
  BY <1>1 DEF Search, PreviewImport, ReadExisting, Reqs
<1>3. Onward
  BY <1>1, <1>2 DEF Onward
<1>5. ASSUME req'[r].pc = "next", NEW n \in req'[r].todo PROVE Clear(n, r)
  <2>1. ReadExisting(r)
    BY <1>1, <1>5 DEF Search, PreviewImport, Reqs
  <2>2. Fold[n] \notin Folds
    BY <1>1, <1>5, <2>1 DEF ReadExisting, Reqs
  <2> QED
    BY <2>2 DEF Clear, Folds
<1>6. ASSUME NEW q \in Requests, req'[q].pc = "next", req'[q].op = "import", NEW n \in req'[q].todo
      PROVE  Clear(n, q)'
  <2>1. Clear(n, q)
    BY <1>2, <1>5, <1>6 DEF ImportInv, ImportsFit
  <2> QED
    BY <1>1, <2>1 DEF Clear
<1>7. ImportsFit'
  BY <1>6 DEF ImportsFit
<1> QED
  BY <1>1, <1>3, <1>7, QuietKeeps

LEMMA ImportStep == LoginInv /\ ImportInv /\ [Next]_vars => ImportInv'
<1> SUFFICES ASSUME LoginInv, ImportInv, [Next]_vars PROVE ImportInv'
  OBVIOUS
<1>1. ASSUME NEW r \in Requests, ImportNext(r) PROVE ImportInv'
  <2>1. req[r].op = "import"
    BY <1>1 DEF LoginInv, Fits, StepOp, ImportNext
  <2> QED
    BY <1>1, <2>1, ImportNextKeeps
<1>2. CASE UNCHANGED vars
  BY <1>2 DEF vars, requestHistory, ImportInv, ImportsFit, Clear, ImportsKeepPeopleApart
<1> QED
  BY <1>1, <1>2, StepsKeepNames, BeginsKeepNames, NamesKeep, ListsKeep DEF Next

\* An import joins nobody's account of before it with a second one, nor makes two itself,
\* for any requests, however names are spelt.
THEOREM PeopleKeptApart == Spec => []ImportsKeepPeopleApart
<1>1. ImportInv => ImportsKeepPeopleApart
  BY DEF ImportInv
<1> QED
  BY <1>1, LoginInvariant, ImportInit, ImportStep, PTL DEF Spec

-----------------------------------------------------------------------------
(* Groups and prices.                                                        *)

\* The least of some numbers.
LEMMA LeastNumber ==
    ASSUME NEW S \in SUBSET Nat, S # {}
    PROVE  Min(S) \in S /\ \A n \in S : Min(S) <= n
<1>1. \E m \in S : \A n \in S : ~(<<n, m>> \in OpToRel(<, Nat))
  BY NatLessThanWellFounded, WFMin
<1>2. PICK m \in S : \A n \in S : ~(n < m)
  BY <1>1 DEF OpToRel
<1>3. \A n \in S : m <= n
  BY <1>2
<1> QED
  BY <1>2, <1>3 DEF Min

\* Products grow with their factors.
LEMMA Multiplied ==
    ASSUME NEW a \in Nat, NEW b \in Nat, NEW c \in Nat, a <= b
    PROVE  a * c \in Nat /\ a * c <= b * c /\ c * a <= c * b /\ c * a \in Nat
OBVIOUS

\* A division rounds up to no less for more.
LEMMA RoundedUp ==
    ASSUME NEW a \in Nat, NEW b \in Nat, NEW n \in Nat \ {0}, a <= b
    PROVE  (a + n - 1) \div n \in Nat /\ (a + n - 1) \div n <= (b + n - 1) \div n
OBVIOUS

\* Amounts are rounded to no less for more.
LEMMA Rounded ==
    ASSUME NEW a \in Nat, NEW b \in Nat, a <= b
    PROVE  RoundMoney(a) \in Nat /\ RoundMoney(a) <= RoundMoney(b)
BY DEF RoundMoney

\* Ranges cover no more pages than a file has: those beyond its end count for nothing.
LEMMA PagesWithin ==
    ASSUME NEW ranges \in SUBSET (Int \X Int), NEW total \in Nat
    PROVE  PagesOf(ranges, total) \in Nat /\ PagesOf(ranges, total) <= total
<1> DEFINE pages == UNION {r[1] .. r[2] : r \in ranges}
<1>1. CASE \E r \in ranges : r[1] > r[2] \/ r[1] < 1 \/ r[2] > total
  BY <1>1 DEF PagesOf, CountPages
<1>2. CASE ~ \E r \in ranges : r[1] > r[2] \/ r[1] < 1 \/ r[2] > total
  <2>1. pages \subseteq 1 .. total
    BY <1>2
  <2>2. IsFiniteSet(1 .. total) /\ Cardinality(1 .. total) = total
    BY FS_Interval
  <2>3. IsFiniteSet(pages) /\ Cardinality(pages) <= total /\ Cardinality(pages) \in Nat
    BY <2>1, <2>2, FS_Subset, FS_CardinalityType
  <2> QED
    BY <1>2, <2>3 DEF PagesOf, CountPages
<1> QED
  BY <1>1, <1>2

\* What the tables hold, and that a row goes with those it refers to.
GroupType ==
    /\ people \subseteq AllUsers /\ groups \subseteq AllGroups
    /\ members \subseteq people \X groups
    /\ DOMAIN printers \subseteq AllPrinters
    /\ printers \in [DOMAIN printers -> Settings]
    /\ DOMAIN permits \subseteq groups \X DOMAIN printers
    /\ permits \in [DOMAIN permits -> PriceLists]

\* The empty tables are of the type.
LEMMA GroupTypeInit == GroupInit => GroupType
BY DEF GroupInit, GroupType

\* Every route of groups keeps the rows of its tables together.
LEMMA GroupTypeNext == GroupType /\ [GroupNext]_groupVars => GroupType'
<1> SUFFICES ASSUME GroupType, [GroupNext]_groupVars PROVE GroupType'
  OBVIOUS
<1> USE DEF GroupType
<1>1. ASSUME NEW g \in AllGroups, CreateGroup(g) PROVE GroupType'
  BY <1>1 DEF CreateGroup
<1>2. ASSUME NEW g \in AllGroups, DeleteGroup(g) PROVE GroupType'
  <2>1. members' \subseteq people' \X groups'
    BY <1>2 DEF DeleteGroup
  <2>2. permits' = [k \in {k \in DOMAIN permits : k[1] # g} |-> permits[k]]
    BY <1>2 DEF DeleteGroup, Without
  <2> QED
    BY <1>2, <2>1, <2>2 DEF DeleteGroup
<1>3. ASSUME NEW g \in AllGroups, NEW u \in AllUsers, AddMember(g, u) \/ RemoveMember(g, u)
      PROVE  GroupType'
  BY <1>3 DEF AddMember, RemoveMember
<1>4. ASSUME NEW g \in AllGroups, NEW p \in AllPrinters, NEW list \in PriceLists, SetPermit(g, p, list)
      PROVE  GroupType'
  BY <1>4 DEF SetPermit
<1>5. ASSUME NEW g \in AllGroups, NEW p \in AllPrinters, RemovePermit(g, p) PROVE GroupType'
  BY <1>5 DEF RemovePermit, Without
<1>6. ASSUME NEW p \in AllPrinters, NEW s \in Settings, UpdatePrinter(p, s) PROVE GroupType'
  BY <1>6 DEF UpdatePrinter
<1>7. ASSUME NEW p \in AllPrinters, RemovePrinter(p) PROVE GroupType'
  <2>1. permits' = [k \in {k \in DOMAIN permits : k[2] # p} |-> permits[k]]
    BY <1>7 DEF RemovePrinter, Without
  <2>2. printers' = [q \in DOMAIN printers \ {p} |-> printers[q]]
    BY <1>7 DEF RemovePrinter, Without
  <2> QED
    BY <1>7, <2>1, <2>2 DEF RemovePrinter
<1>8. ASSUME NEW u \in AllUsers, RemoveUser(u) PROVE GroupType'
  BY <1>8 DEF RemoveUser
<1>9. CASE UNCHANGED groupVars
  BY <1>9 DEF groupVars
<1> QED
  BY <1>1, <1>2, <1>3, <1>4, <1>5, <1>6, <1>7, <1>8, <1>9 DEF GroupNext

\* What a user pays for a page: the least of the custom prices, or the printer's.
LEMMA PriceIsFair ==
    ASSUME GroupType, NEW u, NEW p \in DOMAIN printers, NEW mode \in Modes
    PROVE  /\ Price(u, p, mode) \in Nat
           /\ \A k \in PermitsOf(u, p) :
                 permits[k][mode] # NoPrice => permits[k][mode] \in Nat /\ Price(u, p, mode) <= permits[k][mode]
           /\ (\A k \in PermitsOf(u, p) : permits[k][mode] = NoPrice) => Price(u, p, mode) = printers[p].price[mode]
<1> DEFINE own == CustomPrices(u, p, mode)
<1>1. \A k \in DOMAIN permits : permits[k][mode] \in Nat \cup {NoPrice}
  BY GroupAssumption DEF GroupType
<1>2. own \in SUBSET Nat
  BY <1>1 DEF CustomPrices, PermitsOf
<1>3. printers[p].price[mode] \in Nat
  BY GroupAssumption DEF GroupType
<1>4. \A k \in PermitsOf(u, p) : permits[k][mode] # NoPrice => permits[k][mode] \in own
  BY DEF CustomPrices
<1>5. CASE own = {}
  BY <1>3, <1>4, <1>5 DEF Price
<1>6. CASE own # {}
  <2>1. Price(u, p, mode) = Min(own)
    BY <1>6 DEF Price
  <2>2. Min(own) \in own /\ \A n \in own : Min(own) <= n
    BY <1>2, <1>6, LeastNumber
  <2>3. \E k \in PermitsOf(u, p) : permits[k][mode] # NoPrice
    BY <1>6 DEF CustomPrices
  <2> HIDE DEF own
  <2> QED
    BY <1>2, <1>4, <2>1, <2>2, <2>3
<1> QED
  BY <1>5, <1>6

\* A job prints no more pages than its whole file has.
LEMMA JobWithinFile ==
    ASSUME NEW d \in Documents, NEW o \in Options
    PROVE  /\ JobPages(o, d) \in Nat
           /\ ((d + o.up - 1) \div o.up) * o.copies \in Nat
           /\ JobPages(o, d) <= ((d + o.up - 1) \div o.up) * o.copies
<1>1. d \in Nat /\ o.up \in Nat \ {0} /\ o.copies \in Nat /\ o.ranges \in SUBSET (Int \X Int)
  BY GroupAssumption
<1>2. PICK n : n = PagesOf(o.ranges, d)
  OBVIOUS
<1>3. n \in Nat /\ n <= d
  BY <1>1, <1>2, PagesWithin
<1>4. JobPages(o, d) = ((n + o.up - 1) \div o.up) * o.copies
  BY <1>2 DEF JobPages
<1>5. /\ (n + o.up - 1) \div o.up \in Nat /\ (d + o.up - 1) \div o.up \in Nat
      /\ (n + o.up - 1) \div o.up <= (d + o.up - 1) \div o.up
  <2>1. /\ (n + o.up - 1) \div o.up \in Nat
        /\ (n + o.up - 1) \div o.up <= (d + o.up - 1) \div o.up
    BY <1>1, <1>3, RoundedUp
  <2>2. (d + o.up - 1) \div o.up \in Nat
    BY <1>1, RoundedUp
  <2> QED
    BY <2>1, <2>2
<1> QED
  BY <1>1, <1>4, <1>5, Multiplied

\* What the tables hold is enough for fair costs.
LEMMA TypeKeepsCostsFair == GroupType => NobodyOverpays
<1> SUFFICES ASSUME GroupType, NEW u \in people, NEW p \in DOMAIN printers
             PROVE  /\ p \in Listed(u) => MayPrint(u, p, "bw")
                    /\ \A d \in Documents, o \in Options :
                          LET whole  == ((d + o.up - 1) \div o.up) * o.copies
                              priced == {k \in DOMAIN permits : /\ <<u, k[1]>> \in members /\ k[2] = p
                                                                /\ permits[k][o.mode] # NoPrice}
                          IN  /\ \A k \in priced : Cost(u, p, d, o) <= RoundMoney(whole * permits[k][o.mode])
                              /\ priced = {} => Cost(u, p, d, o) <= RoundMoney(whole * printers[p].price[o.mode])
  BY DEF NobodyOverpays
<1>1. p \in Listed(u) => MayPrint(u, p, "bw")
  BY DEF Listed, MayPrint
<1>2. ASSUME NEW d \in Documents, NEW o \in Options
      PROVE  LET whole  == ((d + o.up - 1) \div o.up) * o.copies
                 priced == {k \in DOMAIN permits : /\ <<u, k[1]>> \in members /\ k[2] = p
                                                   /\ permits[k][o.mode] # NoPrice}
             IN  /\ \A k \in priced : Cost(u, p, d, o) <= RoundMoney(whole * permits[k][o.mode])
                 /\ priced = {} => Cost(u, p, d, o) <= RoundMoney(whole * printers[p].price[o.mode])
  <2> DEFINE whole  == ((d + o.up - 1) \div o.up) * o.copies
             priced == {k \in DOMAIN permits : /\ <<u, k[1]>> \in members /\ k[2] = p
                                               /\ permits[k][o.mode] # NoPrice}
  <2>1. o.mode \in Modes
    BY GroupAssumption
  <2>2. JobPages(o, d) \in Nat /\ whole \in Nat /\ JobPages(o, d) <= whole
    BY JobWithinFile
  <2>3. priced = {k \in PermitsOf(u, p) : permits[k][o.mode] # NoPrice}
    BY DEF PermitsOf
  <2>4. Price(u, p, o.mode) \in Nat
    BY <2>1, PriceIsFair
  <2>5. ASSUME NEW n \in Nat, Price(u, p, o.mode) <= n
        PROVE  Cost(u, p, d, o) <= RoundMoney(whole * n)
    <3> HIDE DEF whole
    <3>1. JobPages(o, d) * Price(u, p, o.mode) <= whole * Price(u, p, o.mode)
      BY <2>2, <2>4, Multiplied
    <3>2. whole * Price(u, p, o.mode) <= whole * n
      BY <2>2, <2>4, <2>5, Multiplied
    <3>3. /\ JobPages(o, d) * Price(u, p, o.mode) \in Nat /\ whole * n \in Nat
          /\ whole * Price(u, p, o.mode) \in Nat
      BY <2>2, <2>4, Multiplied
    <3>4. JobPages(o, d) * Price(u, p, o.mode) <= whole * n
      BY <3>1, <3>2, <3>3
    <3> QED
      BY <3>3, <3>4, Rounded DEF Cost
  <2>6. ASSUME NEW k \in priced PROVE Cost(u, p, d, o) <= RoundMoney(whole * permits[k][o.mode])
    BY <2>1, <2>3, <2>5, PriceIsFair
  <2>7. CASE priced = {}
    <3>1. Price(u, p, o.mode) = printers[p].price[o.mode]
      <4>1. \A k \in PermitsOf(u, p) : permits[k][o.mode] = NoPrice
        BY <2>3, <2>7
      <4> QED
        BY <2>1, <4>1, PriceIsFair
    <3> QED
      BY <2>4, <2>5, <2>7, <3>1
  <2> QED
    BY <2>6, <2>7
<1> QED
  BY <1>1, <1>2

\* Groups move by the routes of groups only.
LEMMA ReportsKeepGroups == [ReportNext]_reportVars => [GroupNext]_groupVars
<1> SUFFICES ASSUME [ReportNext]_reportVars PROVE [GroupNext]_groupVars
  OBVIOUS
<1>1. CASE UNCHANGED reportVars
  BY <1>1 DEF reportVars
<1>2. CASE ChangeGroups
  BY <1>2 DEF ChangeGroups
<1>3. ASSUME NEW what, NEW u, NEW amount, NEW delta, NEW details, Happens(what, u, amount, delta, details)
      PROVE  UNCHANGED groupVars
  BY <1>3 DEF Happens
<1>4. ASSUME NEW u, NEW a, \/ Recharge(u, a) \/ Fulfilled(u, a) \/ Rejected(u, a)
                           \/ Spend(u, a) \/ Adjust(u, a) \/ Patch(u, a)
      PROVE  UNCHANGED groupVars
  BY <1>3, <1>4 DEF Recharge, Fulfilled, Rejected, Spend, Adjust, Patch
<1>5. ASSUME NEW u, NEW p, NEW d, NEW o, NEW end, Printed(u, p, d, o, end) PROVE UNCHANGED groupVars
  BY <1>3, <1>5, Zenon DEF Printed
<1>6. ASSUME NEW i, NEW v, ResolveRefund(i, v) PROVE UNCHANGED groupVars
  BY <1>3, <1>6, Zenon DEF ResolveRefund
<1> QED
  BY <1>1, <1>2, <1>4, <1>5, <1>6 DEF ReportNext

\* Whatever groups, permits and prices become, a user pays for a job no more than any of
\* the permits they hold asks for the whole file (permission_resolver.py, print_pricing.py),
\* and may print where they see a printer.
THEOREM NobodyPaysMore == ReportSpec => []NobodyOverpays
<1>1. ReportInit => GroupType
  BY GroupTypeInit DEF ReportInit
<1>2. GroupType /\ [ReportNext]_reportVars => GroupType'
  BY GroupTypeNext, ReportsKeepGroups
<1> QED
  BY <1>1, <1>2, TypeKeepsCostsFair, PTL DEF ReportSpec

-----------------------------------------------------------------------------
(* The history.                                                              *)

Kinds == {"recharge", "adjustment", "fulfilled", "rejected", "patched", "expense",
          "completed", "failed", "approved", "denied"}

Details == [job : Nat] \cup [printer : AllPrinters]
Records == [what : Kinds, who : AllUsers, amount : Int, after : Int, details : Details]

\* The kinds of events whose amount may be negative.
Signed == {"recharge", "adjustment", "patched"}

HistoryType ==
    /\ funds \in [AllUsers -> Int]
    /\ history \in Seq(Records)
    /\ \A i \in Events : history[i].what \notin Signed => history[i].amount \in Nat

\* How an event moved the balance of the user it is about.
Moved(i) == IF history[i].what \in {"recharge", "adjustment", "patched", "approved"} THEN Amount(i)
            ELSE IF history[i].what \in {"fulfilled", "completed"} THEN 0 - Amount(i) ELSE 0

\* Every balance is what the events made of it.
BalancesFollow ==
    /\ \A u \in AllUsers : funds[u] = HeldBy(u, Len(history))
    /\ \A i \in Events : history[i].after = HeldBy(history[i].who, i - 1) + Moved(i)

ReportInv == GroupType /\ HistoryType /\ BalancesFollow

\* A number of a set that none exceeds.
LEMMA Last ==
    ASSUME NEW S \in SUBSET Int, NEW n \in S, \A m \in S : m <= n
    PROVE  Max(S) = n
<1>1. \A m \in S : n >= m
  OBVIOUS
<1>2. PICK x : x = Max(S)
  OBVIOUS
<1>3. x \in S /\ \A m \in S : x >= m
  BY <1>1, <1>2 DEF Max
<1>4. x >= n /\ n >= x /\ x \in Int /\ n \in Int
  BY <1>1, <1>3
<1> QED
  BY <1>2, <1>4

\* The greatest of some numbers.
LEMMA GreatestOf ==
    ASSUME NEW n \in Nat, NEW S \in SUBSET (0 .. n), S # {}
    PROVE  Max(S) \in S /\ \A m \in S : m <= Max(S)
<1> DEFINE B == {n - m : m \in S}
<1>1. B \in SUBSET Nat /\ B # {}
  <2>1. \A m \in S : m \in Nat /\ n - m \in Nat
    OBVIOUS
  <2> QED
    BY <2>1
<1>2. Min(B) \in B /\ \A k \in B : Min(B) <= k
  <2> HIDE DEF B
  <2> QED
    BY <1>1, LeastNumber
<1>3. PICK m \in S : Min(B) = n - m
  BY <1>2
<1>4. \A k \in S : k <= m
  <2> TAKE k \in S
  <2>1. n - m <= n - k
    BY <1>2, <1>3
  <2> QED
    BY <2>1
<1> QED
  BY <1>4, Last

\* The events one by one.
LEMMA EventType ==
    ASSUME HistoryType
    PROVE  /\ Events = 1 .. Len(history) /\ Len(history) \in Nat
           /\ \A i \in 1 .. Len(history) :
                 /\ history[i].what \in Kinds /\ history[i].who \in AllUsers
                 /\ history[i].amount \in Int /\ history[i].after \in Int
<1>1. history \in Seq(Records)
  BY DEF HistoryType
<1>2. /\ DOMAIN history = 1 .. Len(history) /\ Len(history) \in Nat
      /\ \A i \in 1 .. Len(history) : history[i] \in Records
  BY <1>1
<1> QED
  BY <1>2 DEF Records, Events

\* Before the first event, nobody has anything.
LEMMA NothingHeld == \A u : HeldBy(u, 0) = 0
BY DEF HeldBy

\* An event says what its user has, and leaves the others what they had.
LEMMA HeldStep ==
    ASSUME NEW u, NEW n \in Nat
    PROVE  HeldBy(u, n + 1) = IF history[n + 1].who = u THEN history[n + 1].after ELSE HeldBy(u, n)
<1> DEFINE mine(k) == {i \in 1 .. k : history[i].who = u}
<1>1. CASE history[n + 1].who = u
  <2>1. n + 1 \in mine(n + 1) /\ mine(n + 1) \in SUBSET Int /\ \A m \in mine(n + 1) : m <= n + 1
    BY <1>1
  <2>2. Max(mine(n + 1)) = n + 1
    <3> HIDE DEF mine
    <3> QED
      BY <2>1, Last
  <2> QED
    BY <1>1, <2>1, <2>2 DEF HeldBy
<1>2. CASE history[n + 1].who # u
  <2>1. mine(n + 1) = mine(n)
    BY <1>2
  <2> QED
    BY <1>2, <2>1, Zenon DEF HeldBy
<1> QED
  BY <1>1, <1>2

\* What somebody has is a number.
LEMMA HeldType ==
    ASSUME HistoryType, NEW u, NEW n \in 0 .. Len(history)
    PROVE  HeldBy(u, n) \in Int
<1> DEFINE B == {k \in 0 .. n : HeldBy(u, k) \notin Int}
<1>1. B \in SUBSET Nat
  OBVIOUS
<1>2. SUFFICES ASSUME B # {} PROVE FALSE
  BY DEF HistoryType
<1>3. Min(B) \in B /\ \A k \in B : Min(B) <= k
  <2> HIDE DEF B
  <2> QED
    BY <1>1, <1>2, LeastNumber
<1>4. PICK k : k = Min(B)
  OBVIOUS
<1>5. k \in B /\ \A j \in B : k <= j
  BY <1>3, <1>4
<1>6. k # 0
  BY <1>5, NothingHeld
<1>7. k - 1 \in 0 .. n /\ k - 1 \notin B
  BY <1>5, <1>6
<1>8. HeldBy(u, k) = IF history[k].who = u THEN history[k].after ELSE HeldBy(u, k - 1)
  <2>1. k - 1 \in Nat /\ (k - 1) + 1 = k
    BY <1>5, <1>7
  <2>2. PICK j : j = k - 1
    OBVIOUS
  <2>3. HeldBy(u, j + 1) = IF history[j + 1].who = u THEN history[j + 1].after ELSE HeldBy(u, j)
    BY <2>1, <2>2, HeldStep
  <2>4. j + 1 = k
    BY <2>1, <2>2
  <2> QED
    BY <2>2, <2>3, <2>4
<1>9. history[k].after \in Int
  <2>1. k \in 1 .. Len(history)
    BY <1>5, <1>6 DEF HistoryType
  <2> QED
    BY <2>1, EventType
<1> QED
  BY <1>5, <1>7, <1>8, <1>9

\* What a new event leaves of the past.
LEMMA PastStays ==
    ASSUME HistoryType, NEW e, history' = Append(history, e), NEW u, NEW n \in 0 .. Len(history)
    PROVE  HeldBy(u, n)' = HeldBy(u, n)
<1>1. n \in Nat
  BY EventType
<1>2. \A i \in 1 .. n : history'[i] = history[i]
  BY DEF HistoryType
<1> DEFINE mine  == {i \in 1 .. n : history[i].who = u}
           mine1 == {i \in 1 .. n : history'[i].who = u}
<1>3. mine = mine1
  BY <1>2
<1>4. mine # {} => Max(mine) \in 1 .. n
  <2>1. SUFFICES ASSUME mine # {} PROVE Max(mine) \in mine
    OBVIOUS
  <2>2. mine \in SUBSET (0 .. n)
    OBVIOUS
  <2> HIDE DEF mine
  <2> QED
    BY <2>1, <2>2, <1>1, GreatestOf
<1> HIDE DEF mine, mine1
<1>5. (IF mine = {} THEN 0 ELSE history[Max(mine)].after)
         = (IF mine1 = {} THEN 0 ELSE history'[Max(mine1)].after)
  BY <1>2, <1>3, <1>4
<1> QED
  BY <1>5 DEF HeldBy, mine, mine1

-----------------------------------------------------------------------------
(* The figures.                                                              *)

\* The part of what happened in T that is of some kinds, as a function on T.
Part(kinds, T) == [i \in T |-> IF history[i].what \in kinds THEN Amount(i) ELSE 0]

\* Such a part adds up to what its events cost.
LEMMA PartSum ==
    ASSUME HistoryType, NEW T \in SUBSET Events, NEW kinds
    PROVE  /\ IsFiniteSet(T) /\ Ints(Part(kinds, T), T) /\ CostOf(Of(kinds, T)) \in Int
           /\ SumFunctionOnSet(Part(kinds, T), T) = CostOf(Of(kinds, T))
<1> DEFINE U == Of(kinds, T)
           f == [i \in U |-> Amount(i)]
           g == Part(kinds, T)
<1>1. IsFiniteSet(T)
  <2>1. IsFiniteSet(1 .. Len(history))
    BY EventType, FS_Interval
  <2> QED
    BY <2>1, EventType, FS_Subset
<1>2. \A i \in T : Amount(i) \in Int
  BY EventType DEF Amount
<1>3. U \in SUBSET T /\ IsFiniteSet(U)
  BY <1>1, FS_Subset DEF Of
<1>4. Ints(f, U) /\ Ints(g, T)
  BY <1>2, <1>3 DEF Ints, Part
<1>5. (\A i \in U : g[i] = f[i]) /\ (\A i \in T \ U : g[i] = 0)
  BY <1>3 DEF Part, Of
<1>6. CostOf(U) = SumFunctionOnSet(f, U)
  BY DEF CostOf, SumFunction
<1> HIDE DEF U, f, g
<1>7. SumFunctionOnSet(g, T) = SumFunctionOnSet(f, U) /\ SumFunctionOnSet(f, U) \in Int
  BY <1>1, <1>3, <1>4, <1>5, SumExtend, SumType
<1> QED
  BY <1>1, <1>4, <1>6, <1>7 DEF U, g

\* What pos_sum leaves out are the negative amounts.
LEMMA PositivePart ==
    ASSUME HistoryType, NEW T \in SUBSET Events, NEW kinds
    PROVE  PosSum([i \in Of(kinds, T) |-> Amount(i)]) + CostOf({i \in Of(kinds, T) : Amount(i) < 0})
              = CostOf(Of(kinds, T))
<1> DEFINE S    == Of(kinds, T)
           N    == {i \in S : Amount(i) < 0}
           all  == [i \in S |-> Amount(i)]
           pos  == [i \in S |-> IF Amount(i) > 0 THEN Amount(i) ELSE 0]
           neg  == [i \in S |-> IF Amount(i) < 0 THEN Amount(i) ELSE 0]
           part == [i \in N |-> Amount(i)]
<1>1. S \in SUBSET Events
  BY DEF Of
<1>2. IsFiniteSet(S) /\ N \in SUBSET S /\ IsFiniteSet(N)
  BY <1>1, PartSum, FS_Subset
<1>3. \A i \in S : Amount(i) \in Int
  BY <1>1, EventType DEF Amount
<1>4. Ints(all, S) /\ Ints(pos, S) /\ Ints(neg, S) /\ Ints(part, N)
  BY <1>3 DEF Ints
<1>5. /\ \A i \in S : all[i] = pos[i] + neg[i]
      /\ \A i \in N : neg[i] = part[i]
      /\ \A i \in S \ N : neg[i] = 0
  BY <1>3
<1>6. PosSum([i \in S |-> Amount(i)]) = SumFunctionOnSet(pos, S)
  <2>1. [i \in DOMAIN all |-> IF all[i] > 0 THEN all[i] ELSE 0] = pos
    OBVIOUS
  <2> QED
    BY <2>1 DEF PosSum, SumFunction
<1>7. CostOf(S) = SumFunctionOnSet(all, S) /\ CostOf(N) = SumFunctionOnSet(part, N)
  BY DEF CostOf, SumFunction
<1> HIDE DEF S, N, all, pos, neg, part
<1>8. SumFunctionOnSet(all, S) = SumFunctionOnSet(pos, S) + SumFunctionOnSet(neg, S)
  BY <1>2, <1>4, <1>5, SumPlus
<1>9. SumFunctionOnSet(neg, S) = SumFunctionOnSet(part, N)
  BY <1>2, <1>4, <1>5, SumExtend
<1> QED
  BY <1>6, <1>7, <1>8, <1>9 DEF S, N

\* Each figure is the sum of the amounts of some kinds of events.
LEMMA Figures ==
    ASSUME HistoryType, NEW W \in SUBSET Events
    PROVE  LET T == W \cap OfPeople
               f == Finance(W)
           IN  /\ f.recharged + CostOf({i \in Of({"recharge"}, T) : Amount(i) < 0}) = CostOf(Of({"recharge"}, T))
               /\ f.adjusted  = CostOf(Of({"adjustment"}, T))
               /\ f.refunded  = CostOf(Of({"failed", "approved", "rejected"}, T))
               /\ f.printed   = CostOf(Of({"completed", "failed"}, T))
               /\ f.bought    = CostOf(Of({"fulfilled", "rejected"}, T))
               /\ f.spent     = CostOf(Of({"expense"}, W))
<1> DEFINE T == W \cap OfPeople
<1>1. \A i \in W : /\ Amount(i) \in Int
                   /\ history[i].what \notin Signed => Amount(i) \in Nat
  BY EventType DEF HistoryType, Amount
<1>2. T \subseteq W
  OBVIOUS
<1> DEFINE On(kinds, S) == [i \in Of(kinds, S) |-> Amount(i)]
           Less(kinds, S) == [i \in Of(kinds, S) |-> -Amount(i)]
<1>3. /\ TxOf("recharge", W) = On({"recharge"}, T)
      /\ TxOf("adjustment", W) = On({"adjustment"}, T)
      /\ TxOf("refund", W) = On({"failed", "approved", "rejected"}, T)
      /\ TxOf("print", W) = Less({"completed", "failed"}, T)
      /\ TxOf("purchase", W) = Less({"fulfilled", "rejected"}, T)
      /\ TxOf("expense", W) = Less({"expense"}, W)
  BY DEF TxOf
<1>4. ASSUME NEW kinds, NEW S \in SUBSET W, kinds \cap Signed = {}
      PROVE  PosSum(On(kinds, S)) = CostOf(Of(kinds, S)) /\ AbsSum(Less(kinds, S)) = CostOf(Of(kinds, S))
  <2> DEFINE U == Of(kinds, S)
  <2>1. \A i \in U : Amount(i) \in Nat
    <3> TAKE i \in U
    <3>1. i \in W /\ history[i].what \in kinds
      BY DEF Of
    <3>2. history[i].what \notin Signed
      BY <3>1, <1>4
    <3> QED
      BY <1>1, <3>1, <3>2
  <2> HIDE DEF U
  <2>2. DOMAIN On(kinds, S) = U /\ DOMAIN Less(kinds, S) = U
    BY DEF U
  <2>3. /\ \A i \in U : On(kinds, S)[i] = Amount(i) /\ Less(kinds, S)[i] = -Amount(i)
    BY DEF U
  <2> HIDE DEF On, Less
  <2>4. [i \in DOMAIN On(kinds, S) |-> IF On(kinds, S)[i] > 0 THEN On(kinds, S)[i] ELSE 0]
           = [i \in U |-> Amount(i)]
    BY <2>1, <2>2, <2>3
  <2>5. [i \in DOMAIN Less(kinds, S) |-> IF Less(kinds, S)[i] < 0 THEN -Less(kinds, S)[i] ELSE Less(kinds, S)[i]]
           = [i \in U |-> Amount(i)]
    BY <2>1, <2>2, <2>3
  <2> QED
    BY <2>4, <2>5 DEF PosSum, AbsSum, CostOf, U
<1>5. RawSum(On({"adjustment"}, T)) = CostOf(Of({"adjustment"}, T))
  BY DEF RawSum, CostOf
<1>6. PosSum(On({"recharge"}, T)) + CostOf({i \in Of({"recharge"}, T) : Amount(i) < 0})
         = CostOf(Of({"recharge"}, T))
  BY <1>2, PositivePart
<1> HIDE DEF On, Less
<1>7. PosSum(On({"failed", "approved", "rejected"}, T)) = CostOf(Of({"failed", "approved", "rejected"}, T))
  BY <1>2, <1>4 DEF Signed
<1>8. AbsSum(Less({"completed", "failed"}, T)) = CostOf(Of({"completed", "failed"}, T))
  BY <1>2, <1>4 DEF Signed
<1>9. AbsSum(Less({"fulfilled", "rejected"}, T)) = CostOf(Of({"fulfilled", "rejected"}, T))
  BY <1>2, <1>4 DEF Signed
<1>10. AbsSum(Less({"expense"}, W)) = CostOf(Of({"expense"}, W))
  BY <1>4 DEF Signed
<1> QED
  BY <1>3, <1>5, <1>6, <1>7, <1>8, <1>9, <1>10 DEF Finance

\* What is positive of the recharges, and what is not, are numbers.
LEMMA RechargedType ==
    ASSUME HistoryType, NEW W \in SUBSET Events
    PROVE  /\ Finance(W).recharged \in Int
           /\ CostOf({i \in Of({"recharge"}, W \cap OfPeople) : Amount(i) < 0}) \in Int
<1> DEFINE T   == W \cap OfPeople
           S   == Of({"recharge"}, T)
           N   == {i \in S : Amount(i) < 0}
           pos == [i \in S |-> IF Amount(i) > 0 THEN Amount(i) ELSE 0]
           part == [i \in N |-> Amount(i)]
<1>1. S \in SUBSET Events /\ N \in SUBSET S
  BY DEF Of
<1>2. IsFiniteSet(S) /\ IsFiniteSet(N)
  BY <1>1, PartSum, FS_Subset
<1>3. Ints(pos, S) /\ Ints(part, N)
  <2>1. \A i \in S : Amount(i) \in Int
    BY <1>1, EventType DEF Amount
  <2> QED
    BY <2>1 DEF Ints
<1>4. CostOf(N) = SumFunctionOnSet(part, N)
  BY DEF CostOf, SumFunction
<1>5. Finance(W).recharged = SumFunctionOnSet(pos, S)
  <2>1. TxOf("recharge", W) = [i \in S |-> Amount(i)]
    BY DEF TxOf
  <2>2. [i \in DOMAIN TxOf("recharge", W) |-> IF TxOf("recharge", W)[i] > 0 THEN TxOf("recharge", W)[i] ELSE 0] = pos
    BY <2>1
  <2> QED
    BY <2>2 DEF Finance, PosSum, SumFunction
<1> HIDE DEF pos, part, S, N
<1>6. SumFunctionOnSet(pos, S) \in Int /\ SumFunctionOnSet(part, N) \in Int
  BY <1>2, <1>3, SumType
<1> QED
  BY <1>4, <1>5, <1>6 DEF S, N

\* The exported sheets add up to the amounts of their events.
LEMMA Sheets ==
    ASSUME HistoryType, NEW W \in SUBSET Events
    PROVE  /\ RawSum(RechargesSheet(W)) = CostOf(Of({"recharge"}, W \cap OfPeople))
           /\ RawSum(ExpensesSheet(W)) = CostOf(Of({"expense"}, W))
<1>1. DOMAIN TxOf("recharge", W) = Of({"recharge"}, W \cap OfPeople)
  BY DEF TxOf
<1> QED
  BY <1>1 DEF RawSum, RechargesSheet, ExpensesSheet, CostOf

MovesOf(T) == [i \in T |-> Moved(i)]

\* What moved is what the figures say, kind by kind.
LEMMA FiguresAddUp ==
    ASSUME HistoryType, NEW T \in SUBSET Events
    PROVE  /\ SumFunctionOnSet(MovesOf(T), T) \in Int
           /\ SumFunctionOnSet(MovesOf(T), T) - CostOf(Of({"patched"}, T)) =
                 CostOf(Of({"recharge"}, T)) + CostOf(Of({"adjustment"}, T))
                    + CostOf(Of({"failed", "approved", "rejected"}, T))
                    - CostOf(Of({"completed", "failed"}, T)) - CostOf(Of({"fulfilled", "rejected"}, T))
<1> DEFINE pat == Part({"patched"}, T)
           rec == Part({"recharge"}, T)
           adj == Part({"adjustment"}, T)
           ref == Part({"failed", "approved", "rejected"}, T)
           pri == Part({"completed", "failed"}, T)
           buy == Part({"fulfilled", "rejected"}, T)
           mov == MovesOf(T)
           l1  == [i \in T |-> mov[i] + pri[i]]
           l2  == [i \in T |-> l1[i] + buy[i]]
           r1  == [i \in T |-> pat[i] + rec[i]]
           r2  == [i \in T |-> r1[i] + adj[i]]
           r3  == [i \in T |-> r2[i] + ref[i]]
<1>1. \A i \in T : history[i].what \in Kinds /\ Amount(i) \in Int
  BY EventType DEF Amount
<1>2. IsFiniteSet(T)
  BY PartSum
<1>3. Ints(pat, T) /\ Ints(rec, T) /\ Ints(adj, T) /\ Ints(ref, T) /\ Ints(pri, T) /\ Ints(buy, T)
  BY <1>1 DEF Ints, Part
<1>4. Ints(mov, T)
  BY <1>1 DEF Ints, MovesOf, Moved
<1>5. \A i \in T : mov[i] + pri[i] + buy[i] = pat[i] + rec[i] + adj[i] + ref[i]
  BY <1>1 DEF Part, MovesOf, Moved, Kinds
<1> HIDE DEF pat, rec, adj, ref, pri, buy, mov
<1>6. Ints(l1, T) /\ Ints(l2, T) /\ Ints(r1, T) /\ Ints(r2, T) /\ Ints(r3, T) /\ \A i \in T : l2[i] = r3[i]
  BY <1>3, <1>4, <1>5 DEF Ints
<1>7. \A i \in T : /\ l1[i] = mov[i] + pri[i] /\ l2[i] = l1[i] + buy[i]
                   /\ r1[i] = pat[i] + rec[i] /\ r2[i] = r1[i] + adj[i] /\ r3[i] = r2[i] + ref[i]
  OBVIOUS
<1> HIDE DEF l1, l2, r1, r2, r3
<1>8. SumFunctionOnSet(l1, T) = SumFunctionOnSet(mov, T) + SumFunctionOnSet(pri, T)
  BY <1>2, <1>3, <1>4, <1>7, SumPlus
<1>9. SumFunctionOnSet(l2, T) = SumFunctionOnSet(l1, T) + SumFunctionOnSet(buy, T)
  BY <1>2, <1>3, <1>6, <1>7, SumPlus
<1>10. SumFunctionOnSet(r1, T) = SumFunctionOnSet(pat, T) + SumFunctionOnSet(rec, T)
  BY <1>2, <1>3, <1>7, SumPlus
<1>11. SumFunctionOnSet(r2, T) = SumFunctionOnSet(r1, T) + SumFunctionOnSet(adj, T)
  BY <1>2, <1>3, <1>6, <1>7, SumPlus
<1>12. SumFunctionOnSet(r3, T) = SumFunctionOnSet(r2, T) + SumFunctionOnSet(ref, T)
  BY <1>2, <1>3, <1>6, <1>7, SumPlus
<1>13. SumFunctionOnSet(l2, T) = SumFunctionOnSet(r3, T)
  BY <1>2, <1>6, SumEqual
<1>14. SumFunctionOnSet(mov, T) \in Int
  BY <1>2, <1>4, SumType
<1>15. /\ SumFunctionOnSet(pat, T) = CostOf(Of({"patched"}, T))
       /\ SumFunctionOnSet(rec, T) = CostOf(Of({"recharge"}, T))
       /\ SumFunctionOnSet(adj, T) = CostOf(Of({"adjustment"}, T))
       /\ SumFunctionOnSet(ref, T) = CostOf(Of({"failed", "approved", "rejected"}, T))
       /\ SumFunctionOnSet(pri, T) = CostOf(Of({"completed", "failed"}, T))
       /\ SumFunctionOnSet(buy, T) = CostOf(Of({"fulfilled", "rejected"}, T))
  BY PartSum DEF pat, rec, adj, ref, pri, buy
<1>16. /\ SumFunctionOnSet(pat, T) \in Int /\ SumFunctionOnSet(rec, T) \in Int
       /\ SumFunctionOnSet(adj, T) \in Int /\ SumFunctionOnSet(ref, T) \in Int
       /\ SumFunctionOnSet(pri, T) \in Int /\ SumFunctionOnSet(buy, T) \in Int
  BY <1>2, <1>3, SumType
<1>17. SumFunctionOnSet(mov, T) - SumFunctionOnSet(pat, T) =
          SumFunctionOnSet(rec, T) + SumFunctionOnSet(adj, T) + SumFunctionOnSet(ref, T)
             - SumFunctionOnSet(pri, T) - SumFunctionOnSet(buy, T)
  BY <1>8, <1>9, <1>10, <1>11, <1>12, <1>13, <1>14, <1>16
<1> QED
  BY <1>14, <1>15, <1>17 DEF mov

-----------------------------------------------------------------------------
(* How balances moved.                                                       *)

Holdings(n) == [u \in people |-> HeldBy(u, n)]
Window(a, b) == ((a + 1) .. b) \cap OfPeople

\* What everybody has, as a sum over the users of today.
LEMMA HeldIsSum ==
    ASSUME ReportInv, NEW n \in 0 .. Len(history)
    PROVE  /\ IsFiniteSet(people) /\ Ints(Holdings(n), people) /\ Held(n) \in Int
           /\ Held(n) = SumFunctionOnSet(Holdings(n), people)
<1>1. IsFiniteSet(people)
  BY ReportAssumption, FS_Subset DEF ReportInv, GroupType
<1>2. Ints(Holdings(n), people)
  BY HeldType DEF ReportInv, Ints, Holdings
<1>3. Held(n) = SumFunctionOnSet(Holdings(n), people)
  BY DEF Held, Holdings, SumFunction
<1> QED
  BY <1>1, <1>2, <1>3, SumType

\* An event moves what everybody has by what it moved, when its user is left.
LEMMA HeldMovesOnce ==
    ASSUME ReportInv, NEW b \in 1 .. Len(history)
    PROVE  Held(b) = Held(b - 1) + (IF history[b].who \in people THEN Moved(b) ELSE 0)
<1> DEFINE f == Holdings(b - 1)
           g == Holdings(b)
           w == history[b].who
<1>1. b \in Events /\ w \in AllUsers /\ history[b].after = HeldBy(w, b - 1) + Moved(b)
  BY EventType DEF ReportInv, BalancesFollow
<1>2. b - 1 \in 0 .. Len(history) /\ b \in 0 .. Len(history) /\ b - 1 \in Nat
  BY EventType DEF ReportInv
<1>3. \A u : HeldBy(u, b) = IF w = u THEN history[b].after ELSE HeldBy(u, b - 1)
  <2> TAKE u
  <2>1. PICK j : j = b - 1
    OBVIOUS
  <2>2. j \in Nat /\ j + 1 = b
    BY <1>2, <2>1
  <2>3. HeldBy(u, j + 1) = IF history[j + 1].who = u THEN history[j + 1].after ELSE HeldBy(u, j)
    BY <2>2, HeldStep
  <2> QED
    BY <2>1, <2>2, <2>3
<1>4. /\ IsFiniteSet(people) /\ Ints(f, people) /\ Ints(g, people) /\ Held(b - 1) \in Int
      /\ Held(b - 1) = SumFunctionOnSet(f, people) /\ Held(b) = SumFunctionOnSet(g, people)
  BY <1>2, HeldIsSum
<1>5. \A u \in people : u # w => g[u] = f[u]
  BY <1>3 DEF Holdings
<1>6. CASE w \in people
  <2>1. g[w] = f[w] + Moved(b) /\ f[w] \in Int /\ g[w] \in Int
    <3>1. g[w] = f[w] + Moved(b)
      BY <1>1, <1>3, <1>6 DEF Holdings
    <3> QED
      BY <1>4, <1>6, <3>1 DEF Ints
  <2> HIDE DEF f, g, w
  <2>2. SumFunctionOnSet(g, people) = SumFunctionOnSet(f, people) + g[w] - f[w]
    BY <1>4, <1>5, <1>6, <2>1, SumChange
  <2>3. Moved(b) \in Int
    BY <1>1, EventType DEF ReportInv, Moved, Amount
  <2> QED
    BY <1>4, <1>6, <2>1, <2>2, <2>3 DEF w
<1>7. CASE w \notin people
  <2>1. \A u \in people : f[u] = g[u]
    BY <1>5, <1>7
  <2> HIDE DEF f, g
  <2>2. SumFunctionOnSet(f, people) = SumFunctionOnSet(g, people)
    BY <1>4, <2>1, SumEqual
  <2> QED
    BY <1>4, <1>7, <2>2
<1> QED
  BY <1>6, <1>7

\* The moves of one more event.
LEMMA MovesAdd ==
    ASSUME NEW S, IsFiniteSet(S), NEW b, b \notin S, \A i \in S \cup {b} : Moved(i) \in Int
    PROVE  SumFunctionOnSet(MovesOf(S \cup {b}), S \cup {b}) = SumFunctionOnSet(MovesOf(S), S) + Moved(b)
<1> DEFINE f == MovesOf(S)
           g == MovesOf(S \cup {b})
<1>1. Ints(f, S) /\ g[b] = Moved(b) /\ g[b] \in Int
  BY DEF Ints, MovesOf
<1>2. \A y \in S : f[y] = g[y]
  BY DEF MovesOf
<1> HIDE DEF f, g
<1>3. IsFiniteSet(S) /\ Ints(f, S) /\ g[b] \in Int /\ b \notin S
  BY <1>1
<1>4. SumFunctionOnSet(g, S \cup {b}) = SumFunctionOnSet(f, S) + g[b]
  BY <1>2, <1>3, SumAdd, SMTT(30)
<1> QED
  BY <1>1, <1>4 DEF f, g

\* A period with one more event.
LEMMA WindowGrows ==
    ASSUME ReportInv, NEW a \in 0 .. Len(history), NEW b \in (a + 1) .. Len(history)
    PROVE  SumFunctionOnSet(MovesOf(Window(a, b)), Window(a, b))
              = SumFunctionOnSet(MovesOf(Window(a, b - 1)), Window(a, b - 1))
                  + (IF history[b].who \in people THEN Moved(b) ELSE 0)
<1> DEFINE S == Window(a, b - 1)
           T == Window(a, b)
<1>1. Events = 1 .. Len(history) /\ b \in Events /\ S \in SUBSET Events /\ Len(history) \in Nat /\ b \notin S
  BY EventType DEF ReportInv, Window
<1>2. CASE history[b].who \in people
  <2>1. T = S \cup {b}
    BY <1>1, <1>2 DEF Window, OfPeople
  <2>2. IsFiniteSet(S)
    BY <1>1, PartSum DEF ReportInv
  <2>3. \A i \in S \cup {b} : Moved(i) \in Int
    BY <1>1, EventType DEF ReportInv, Moved, Amount
  <2> HIDE DEF S, T
  <2>4. SumFunctionOnSet(MovesOf(S \cup {b}), S \cup {b}) = SumFunctionOnSet(MovesOf(S), S) + Moved(b)
    BY <1>1, <2>2, <2>3, MovesAdd
  <2> QED
    BY <1>2, <2>1, <2>4 DEF S, T
<1>3. CASE history[b].who \notin people
  <2>1. T = S
    BY <1>1, <1>3 DEF Window, OfPeople
  <2>2. SumFunctionOnSet(MovesOf(S), S) \in Int
    BY <1>1, FiguresAddUp DEF ReportInv
  <2> HIDE DEF S, T
  <2> QED
    BY <1>3, <2>1, <2>2 DEF S, T
<1> QED
  BY <1>2, <1>3

\* Over any period, balances move by what happened in it to the users of today.
LEMMA HeldMoves ==
    ASSUME ReportInv, NEW a \in 0 .. Len(history), NEW b \in a .. Len(history)
    PROVE  Held(b) - Held(a) = SumFunctionOnSet(MovesOf(Window(a, b)), Window(a, b))
<1> DEFINE Sum(k) == SumFunctionOnSet(MovesOf(Window(a, k)), Window(a, k))
           B == {k \in a .. b : Held(k) - Held(a) # Sum(k)}
<1>1. Len(history) \in Nat /\ Events = 1 .. Len(history)
  BY EventType DEF ReportInv
<1>2. B \in SUBSET Nat
  BY <1>1
<1>3. SUFFICES ASSUME B # {} PROVE FALSE
  BY <1>1
<1>4. PICK k : k \in B /\ \A j \in B : k <= j
  <2> HIDE DEF B
  <2> QED
    BY <1>2, <1>3, LeastNumber
<1>5. \A j \in a .. b : Held(j) \in Int
  BY <1>1, HeldIsSum
<1>6. CASE k = a
  <2>1. Window(a, k) = {}
    BY <1>1, <1>6 DEF Window
  <2>2. Sum(k) = 0
    BY <2>1, SumEmpty
  <2> HIDE DEF Sum
  <2> QED
    BY <1>1, <1>4, <1>5, <1>6, <2>2
<1>7. CASE k # a
  <2>1. k \in (a + 1) .. Len(history) /\ k \in 1 .. Len(history) /\ k - 1 \in a .. b /\ k - 1 \notin B
    BY <1>1, <1>4, <1>7
  <2>2. Held(k) = Held(k - 1) + (IF history[k].who \in people THEN Moved(k) ELSE 0)
    BY <2>1, HeldMovesOnce
  <2>3. Sum(k) = Sum(k - 1) + (IF history[k].who \in people THEN Moved(k) ELSE 0)
    BY <2>1, WindowGrows
  <2>4. Sum(k - 1) \in Int
    <3>1. Window(a, k - 1) \in SUBSET Events
      BY <1>1, <2>1 DEF Window
    <3> QED
      BY <3>1, FiguresAddUp DEF ReportInv
  <2>5. Moved(k) \in Int
    BY <1>1, <2>1, EventType DEF ReportInv, Moved, Amount
  <2>6. Held(k - 1) - Held(a) = Sum(k - 1) /\ Held(k) - Held(a) # Sum(k)
    BY <1>4, <2>1
  <2>7. Held(k - 1) \in Int /\ Held(a) \in Int /\ Held(k) \in Int
    BY <1>1, <1>4, <1>5, <2>1
  <2> HIDE DEF Sum, B
  <2> QED
    BY <2>2, <2>3, <2>4, <2>5, <2>6, <2>7
<1> QED
  BY <1>6, <1>7

\* After all that happened, it is the sum of the balances.
LEMMA HeldIsLive ==
    ASSUME ReportInv
    PROVE  Held(Len(history)) = CurrentBalance
<1>1. Len(history) \in 0 .. Len(history)
  BY EventType DEF ReportInv
<1> DEFINE f == Holdings(Len(history))
<1>2. IsFiniteSet(people) /\ Ints(f, people) /\ Held(Len(history)) = SumFunctionOnSet(f, people)
  BY <1>1, HeldIsSum
<1>3. \A u \in people : f[u] = funds[u]
  BY DEF ReportInv, GroupType, BalancesFollow, Holdings
<1> HIDE DEF f
<1> QED
  BY <1>2, <1>3, SumEqual DEF CurrentBalance

\* When balances follow the events, the figures explain them.
LEMMA InvExplainsBalances == ReportInv => FinanceExplainsBalances
<1> SUFFICES ASSUME ReportInv, NEW a \in 0 .. Len(history), NEW b \in 0 .. Len(history), a <= b
             PROVE  LET W       == (a + 1) .. b
                        f       == Finance(W)
                        patched == CostOf(Of({"patched"}, W \cap OfPeople))
                        dropped == CostOf({i \in Of({"recharge"}, W \cap OfPeople) : Amount(i) < 0})
                    IN  /\ Held(b) - Held(a) =
                              f.recharged + f.adjusted + f.refunded - f.printed - f.bought
                                 + patched + dropped
                        /\ b = Len(history) => Held(b) = CurrentBalance
                        /\ RawSum(RechargesSheet(W)) = f.recharged + dropped
                        /\ RawSum(ExpensesSheet(W)) = f.spent
  BY DEF FinanceExplainsBalances
<1> DEFINE W == (a + 1) .. b
           T == W \cap OfPeople
           f == Finance(W)
           N == {i \in Of({"recharge"}, T) : Amount(i) < 0}
<1>1. Len(history) \in Nat /\ W \in SUBSET Events /\ T \in SUBSET Events /\ HistoryType
  BY EventType DEF ReportInv
<1>2. Held(b) - Held(a) = SumFunctionOnSet(MovesOf(T), T)
  BY <1>1, HeldMoves DEF Window
<1> HIDE DEF W
<1>3. SumFunctionOnSet(MovesOf(T), T) - CostOf(Of({"patched"}, T)) =
         CostOf(Of({"recharge"}, T)) + CostOf(Of({"adjustment"}, T))
            + CostOf(Of({"failed", "approved", "rejected"}, T))
            - CostOf(Of({"completed", "failed"}, T)) - CostOf(Of({"fulfilled", "rejected"}, T))
  BY <1>1, FiguresAddUp
<1>4. /\ f.recharged + CostOf(N) = CostOf(Of({"recharge"}, T))
      /\ f.adjusted = CostOf(Of({"adjustment"}, T))
      /\ f.refunded = CostOf(Of({"failed", "approved", "rejected"}, T))
      /\ f.printed = CostOf(Of({"completed", "failed"}, T))
      /\ f.bought = CostOf(Of({"fulfilled", "rejected"}, T))
      /\ f.spent = CostOf(Of({"expense"}, W))
  BY <1>1, Figures
<1>5. RawSum(RechargesSheet(W)) = f.recharged + CostOf(N) /\ RawSum(ExpensesSheet(W)) = f.spent
  BY <1>1, <1>4, Sheets
<1>6. b = Len(history) => Held(b) = CurrentBalance
  BY HeldIsLive
<1>7. f.recharged \in Int /\ CostOf(N) \in Int
  <2>1. T \in SUBSET W
    OBVIOUS
  <2> QED
    BY <1>1, <2>1, RechargedType
<1>8. /\ SumFunctionOnSet(MovesOf(T), T) \in Int /\ CostOf(Of({"patched"}, T)) \in Int
      /\ CostOf(Of({"adjustment"}, T)) \in Int /\ CostOf(Of({"failed", "approved", "rejected"}, T)) \in Int
      /\ CostOf(Of({"completed", "failed"}, T)) \in Int /\ CostOf(Of({"fulfilled", "rejected"}, T)) \in Int
  BY <1>1, FiguresAddUp, PartSum
<1>9. Held(b) - Held(a) =
         f.recharged + f.adjusted + f.refunded - f.printed - f.bought + CostOf(Of({"patched"}, T)) + CostOf(N)
  <2>1. PICK moves \in Int : moves = SumFunctionOnSet(MovesOf(T), T)
    BY <1>8
  <2>2. PICK patched \in Int, adjusted \in Int, refunded \in Int, printed \in Int, bought \in Int :
           /\ patched = CostOf(Of({"patched"}, T))
           /\ adjusted = CostOf(Of({"adjustment"}, T))
           /\ refunded = CostOf(Of({"failed", "approved", "rejected"}, T))
           /\ printed = CostOf(Of({"completed", "failed"}, T))
           /\ bought = CostOf(Of({"fulfilled", "rejected"}, T))
    BY <1>8
  <2>3. PICK recharged \in Int, dropped \in Int : recharged = f.recharged /\ dropped = CostOf(N)
    BY <1>7
  <2> HIDE DEF f, N, T
  <2>4. moves - patched = recharged + dropped + adjusted + refunded - printed - bought
    BY <1>3, <1>4, <2>1, <2>2, <2>3
  <2>5. Held(b) - Held(a) = moves
    BY <1>2, <2>1
  <2>6. moves = recharged + adjusted + refunded - printed - bought + patched + dropped
    BY <2>4
  <2> QED
    BY <1>4, <2>2, <2>3, <2>5, <2>6
<1> QED
  BY <1>5, <1>6, <1>9 DEF W

-----------------------------------------------------------------------------
(* Every event leaves ReportInv.                                             *)

HeldSteps ==
    \A u : \A n \in Nat :
       HeldBy(u, n + 1) = IF history[n + 1].who = u THEN history[n + 1].after ELSE HeldBy(u, n)

\* What was held follows the events one by one.  (Said of every n, so that it holds of the
\* next state's history too.)
LEMMA HeldAlwaysSteps == HeldSteps
BY HeldStep DEF HeldSteps

Before(i) == HeldBy(history[i].who, i - 1)

\* Nothing has happened, and every balance is 0.
LEMMA ReportInvInit == ReportInit => ReportInv
<1> SUFFICES ASSUME ReportInit PROVE ReportInv
  OBVIOUS
<1>1. GroupType
  BY GroupTypeInit DEF ReportInit
<1>2. history = <<>> /\ Len(history) = 0 /\ DOMAIN history = {} /\ funds = [u \in AllUsers |-> 0]
  BY DEF ReportInit
<1>3. HistoryType
  BY <1>2 DEF HistoryType, Events
<1>4. BalancesFollow
  BY <1>2, NothingHeld DEF BalancesFollow, Events
<1> QED
  BY <1>1, <1>3, <1>4 DEF ReportInv

\* An event that moves the balance by what its kind says.
LEMMA HappensKeeps ==
    ASSUME ReportInv, NEW what \in Kinds, NEW u \in AllUsers, NEW amount \in Int, NEW delta,
           NEW details \in Details, Happens(what, u, amount, delta, details),
           what \notin Signed => amount \in Nat,
           delta = IF what \in {"recharge", "adjustment", "patched", "approved"} THEN amount
                   ELSE IF what \in {"fulfilled", "completed"} THEN 0 - amount ELSE 0
    PROVE  ReportInv'
<1>0. PICK n : n = Len(history)
  OBVIOUS
<1> DEFINE e == [what |-> what, who |-> u, amount |-> amount, details |-> details, after |-> funds'[u]]
<1>1. /\ n \in Nat /\ Events = 1 .. n /\ history \in Seq(Records) /\ funds \in [AllUsers -> Int]
      /\ HistoryType
  BY <1>0, EventType DEF ReportInv, HistoryType
<1>2. delta \in Int
  OBVIOUS
<1>3. funds' = [funds EXCEPT ![u] = @ + delta] /\ history' = Append(history, e) /\ UNCHANGED groupVars
  BY DEF Happens
<1>4. funds' \in [AllUsers -> Int] /\ funds'[u] = funds[u] + delta /\ \A w \in AllUsers : w # u => funds'[w] = funds[w]
  BY <1>1, <1>2, <1>3
<1>5. e \in Records
  BY <1>4 DEF Records
<1>6. e.what = what /\ e.who = u /\ e.amount = amount /\ e.after = funds[u] + delta
  BY <1>4
<1> HIDE DEF e
<1>7. /\ history' \in Seq(Records) /\ Len(history') = n + 1 /\ Events' = 1 .. n + 1
      /\ \A i \in 1 .. n : history'[i] = history[i]
      /\ history'[n + 1] = e
  BY <1>1, <1>3, <1>5 DEF Events
<1>8. HistoryType'
  <2>1. ASSUME NEW i \in Events', history'[i].what \notin Signed
        PROVE  history'[i].amount \in Nat
    <3>1. CASE i \in 1 .. n
      BY <1>1, <1>7, <2>1, <3>1 DEF HistoryType
    <3>2. CASE i = n + 1
      BY <1>6, <1>7, <2>1, <3>2
    <3> QED
      BY <1>1, <1>7, <3>1, <3>2
  <2> QED
    BY <1>4, <1>7, <2>1 DEF HistoryType
<1>9. GroupType'
  BY <1>3, GroupTypeNext DEF ReportInv
<1>10. ASSUME NEW w, NEW k \in 0 .. n PROVE HeldBy(w, k)' = HeldBy(w, k)
  BY <1>0, <1>1, <1>3, PastStays
<1>11. ASSUME NEW w PROVE HeldBy(w, n + 1)' = IF u = w THEN funds[u] + delta ELSE HeldBy(w, n)
  <2>1. HeldSteps'
    BY HeldAlwaysSteps, PTL
  <2>2. HeldBy(w, n + 1)' = IF history'[n + 1].who = w THEN history'[n + 1].after ELSE HeldBy(w, n)'
    BY <1>1, <2>1 DEF HeldSteps
  <2> QED
    BY <1>1, <1>6, <1>7, <1>10, <2>2
<1>12. BalancesFollow'
  <2>1. ASSUME NEW w \in AllUsers PROVE funds'[w] = HeldBy(w, n + 1)'
    BY <1>0, <1>4, <1>11 DEF ReportInv, BalancesFollow
  <2>2. ASSUME NEW i \in 1 .. n PROVE history'[i].after = Before(i)' + Moved(i)'
    <3>1. history'[i] = history[i] /\ i - 1 \in 0 .. n
      BY <1>1, <1>7
    <3>3. Moved(i)' = Moved(i)
      BY <3>1 DEF Moved, Amount
    <3>4. history[i].after = HeldBy(history[i].who, i - 1) + Moved(i)
      BY <1>1 DEF ReportInv, BalancesFollow
    <3>5. PICK w : w = history[i].who
      OBVIOUS
    <3>6. HeldBy(w, i - 1)' = HeldBy(w, i - 1)
      BY <1>10, <3>1
    <3>7. Before(i)' = HeldBy(w, i - 1)'
      BY <3>1, <3>5 DEF Before
    <3> QED
      BY <3>1, <3>3, <3>4, <3>5, <3>6, <3>7
  <2>3. history'[n + 1].after = Before(n + 1)' + Moved(n + 1)'
    <3>1. Moved(n + 1)' = delta
      BY <1>6, <1>7 DEF Moved, Amount
    <3>2. HeldBy(u, n)' = funds[u]
      BY <1>0, <1>1, <1>10 DEF ReportInv, BalancesFollow
    <3>3. Before(n + 1)' = HeldBy(u, n)'
      <4>1. history'[n + 1].who = u /\ (n + 1) - 1 = n
        BY <1>1, <1>6, <1>7
      <4> QED
        BY <4>1 DEF Before
    <3> QED
      BY <1>6, <1>7, <3>1, <3>2, <3>3
  <2> QED
    BY <1>1, <1>7, <2>1, <2>2, <2>3 DEF BalancesFollow, Before
<1> QED
  BY <1>8, <1>9, <1>12 DEF ReportInv

\* A job costs no less than nothing.
LEMMA CostIsMoney ==
    ASSUME ReportInv, NEW u, NEW p \in DOMAIN printers, NEW d \in Documents, NEW o \in Options
    PROVE  Cost(u, p, d, o) \in Nat
<1>1. o.mode \in Modes
  BY GroupAssumption
<1>2. JobPages(o, d) \in Nat /\ Price(u, p, o.mode) \in Nat
  BY <1>1, JobWithinFile, PriceIsFair DEF ReportInv
<1>3. JobPages(o, d) * Price(u, p, o.mode) \in Nat
  BY <1>2, Multiplied
<1> QED
  BY <1>3, Rounded DEF Cost

\* A recharge, by whatever amount.
LEMMA RechargeKeeps ==
    ASSUME ReportInv, NEW u \in AllUsers, NEW a \in Recharges, Recharge(u, a)
    PROVE  ReportInv'
<1>1. NoJob \in Details /\ a \in Int
  BY ReportAssumption DEF NoJob, Details
<1> QED
  BY <1>1, HappensKeeps DEF Recharge, Kinds, Signed

\* Whatever else is no job and no verdict.
LEMMA PlainEventsKeep ==
    ASSUME ReportInv, NEW u \in AllUsers, NEW a \in Amounts,
           Fulfilled(u, a) \/ Rejected(u, a) \/ Spend(u, a) \/ Adjust(u, a) \/ Patch(u, a)
    PROVE  ReportInv'
<1> USE DEF Signed
<1>1. NoJob \in Details /\ a \in Nat /\ a \in Int /\ a - funds[u] \in Int /\ 0 \in Int
  BY ReportAssumption DEF NoJob, Details, ReportInv, HistoryType
<1>2. CASE Fulfilled(u, a)
  <2>1. Happens("fulfilled", u, a, -a, NoJob) /\ -a = 0 - a
    BY <1>1, <1>2 DEF Fulfilled
  <2> QED
    BY <1>1, <2>1, HappensKeeps DEF Kinds
<1>3. CASE Rejected(u, a)
  BY <1>1, <1>3, HappensKeeps DEF Rejected, Kinds
<1>4. CASE Spend(u, a)
  BY <1>1, <1>4, HappensKeeps DEF Spend, Kinds
<1>5. CASE Adjust(u, a)
  BY <1>1, <1>5, HappensKeeps DEF Adjust, Kinds
<1>6. CASE Patch(u, a)
  BY <1>1, <1>6, HappensKeeps DEF Patch, Kinds
<1> QED
  BY <1>2, <1>3, <1>4, <1>5, <1>6

\* A job that was printed or failed.
LEMMA PrintedKeeps ==
    ASSUME ReportInv, NEW u \in AllUsers, NEW p \in AllPrinters, NEW d \in Documents, NEW o \in Options,
           NEW end \in {"completed", "failed"}, Printed(u, p, d, o, end)
    PROVE  ReportInv'
<1> DEFINE cost == Cost(u, p, d, o)
           job  == [printer |-> p]
<1>1. Happens(end, u, cost, IF end = "completed" THEN -cost ELSE 0, job) /\ p \in DOMAIN printers
  BY DEF Printed, MayPrint
<1>2. cost \in Nat
  BY <1>1, CostIsMoney
<1>3. job \in Details
  BY DEF Details
<1> HIDE DEF cost, job
<1>4. cost \in Int /\ -cost = 0 - cost
  BY <1>2
<1>5. PICK delta : delta = IF end = "completed" THEN -cost ELSE 0
  OBVIOUS
<1>6. end \in Kinds /\ Happens(end, u, cost, delta, job)
  BY <1>1, <1>5 DEF Kinds
<1>7. delta = IF end \in {"recharge", "adjustment", "patched", "approved"} THEN cost
              ELSE IF end \in {"fulfilled", "completed"} THEN 0 - cost ELSE 0
  BY <1>4, <1>5
<1> QED
  BY <1>2, <1>3, <1>4, <1>6, <1>7, HappensKeeps DEF Signed

\* A refund that was approved or denied.
LEMMA VerdictKeeps ==
    ASSUME ReportInv, NEW i \in 1 .. MaxHistory, NEW v \in {"approved", "denied"}, ResolveRefund(i, v)
    PROVE  ReportInv'
<1> DEFINE u   == history[i].who
           job == [job |-> i]
<1>1. i \in Events /\ history[i].what = "completed"
  BY DEF ResolveRefund, Jobs, HasJob, OfPeople
<1>2. u \in AllUsers /\ history[i].amount \in Nat /\ history[i].amount \in Int
  BY <1>1, EventType DEF ReportInv, HistoryType, Signed
<1>3. job \in Details
  <2>1. i \in Nat
    BY ReportAssumption
  <2> QED
    BY <2>1 DEF Details
<1>4. PICK delta : delta = IF v = "approved" THEN history[i].amount ELSE 0
  OBVIOUS
<1>5. Happens(v, u, history[i].amount, delta, job) /\ v \in Kinds
  BY <1>4 DEF ResolveRefund, Kinds
<1>6. delta = IF v \in {"recharge", "adjustment", "patched", "approved"} THEN history[i].amount
              ELSE IF v \in {"fulfilled", "completed"} THEN 0 - history[i].amount ELSE 0
  BY <1>4
<1> HIDE DEF u, job
<1> QED
  BY <1>2, <1>3, <1>5, <1>6, HappensKeeps

\* Every step.
LEMMA ReportInvNext == ReportInv /\ [ReportNext]_reportVars => ReportInv'
<1> SUFFICES ASSUME ReportInv, [ReportNext]_reportVars PROVE ReportInv'
  OBVIOUS
<1>1. CASE UNCHANGED <<history, funds>> /\ [GroupNext]_groupVars
  <2>1. GroupType'
    BY <1>1, GroupTypeNext DEF ReportInv
  <2>2. HistoryType'
    BY <1>1 DEF ReportInv, HistoryType, Events
  <2>3. ASSUME NEW w \in AllUsers PROVE (funds[w] = HeldBy(w, Len(history)))'
    BY <1>1 DEF ReportInv, BalancesFollow, HeldBy
  <2>4. ASSUME NEW i \in Events PROVE (history[i].after = HeldBy(history[i].who, i - 1) + Moved(i))'
    BY <1>1 DEF ReportInv, BalancesFollow, HeldBy, Moved, Amount
  <2>5. BalancesFollow'
    BY <1>1, <2>3, <2>4 DEF BalancesFollow, Events
  <2> QED
    BY <2>1, <2>2, <2>5 DEF ReportInv
<1>2. CASE UNCHANGED reportVars
  BY <1>1, <1>2 DEF reportVars
<1>3. CASE ChangeGroups
  BY <1>1, <1>3 DEF ChangeGroups
<1>4. ASSUME NEW u \in AllUsers, NEW a \in Amounts,
             Fulfilled(u, a) \/ Rejected(u, a) \/ Spend(u, a) \/ Adjust(u, a) \/ Patch(u, a)
      PROVE  ReportInv'
  BY <1>4, PlainEventsKeep
<1>5. ASSUME NEW u \in AllUsers, NEW p \in AllPrinters, NEW d \in Documents, NEW o \in Options,
             NEW end \in {"completed", "failed"}, Printed(u, p, d, o, end)
      PROVE  ReportInv'
  BY <1>5, PrintedKeeps
<1>6. ASSUME NEW i \in 1 .. MaxHistory, NEW v \in {"approved", "denied"}, ResolveRefund(i, v)
      PROVE  ReportInv'
  BY <1>6, VerdictKeeps
<1> QED
  BY <1>2, <1>3, <1>4, <1>5, <1>6, RechargeKeeps DEF ReportNext

\* The figures and sheets that administrators see of any period (get_stats_overview,
\* build_finance_workbook) account for every move of the balances of the users of today in
\* it but for balances set directly and negative recharges, and are off by exactly these,
\* whatever happened, in which order, and whoever and whatever was deleted since.
THEOREM FinanceIsWhole == ReportSpec => []FinanceExplainsBalances
BY ReportInvInit, ReportInvNext, InvExplainsBalances, PTL DEF ReportSpec

-----------------------------------------------------------------------------
(* Jobs and their refunds.                                                   *)

JobDetails == [printer : AllPrinters]

\* A verdict is about an earlier completed job of the same user and of the same amount,
\* and no job is refunded twice.
RefundsFollow ==
    /\ \A i \in Events : history[i].what \in {"completed", "failed"} => history[i].details \in JobDetails
    /\ \A k \in Events :
          history[k].what \in {"approved", "denied"} =>
             /\ history[k].details.job \in Events
             /\ LET job == history[history[k].details.job]
                IN  job.what = "completed" /\ job.who = history[k].who /\ job.amount = history[k].amount
             /\ history[k].details.job < k
    /\ \A k, l \in Events :
          /\ history[k].what = "approved" /\ history[l].what = "approved"
          /\ history[k].details.job = history[l].details.job
          => k = l

FigureInv == ReportInv /\ RefundsFollow

\* There are no jobs and no verdicts yet.
LEMMA RefundsFollowFirst == ReportInit => RefundsFollow
BY DEF ReportInit, RefundsFollow, Events

\* An event that is no job and no verdict, or a job, or the verdict of a job without one.
LEMMA HappensKeepsRefunds ==
    ASSUME ReportInv, RefundsFollow, NEW what, NEW u, NEW amount, NEW delta, NEW details,
           Happens(what, u, amount, delta, details),
           what \in {"completed", "failed"} => details \in JobDetails,
           what \in {"approved", "denied"} =>
              /\ details.job \in Events
              /\ LET job == history[details.job]
                 IN  job.what = "completed" /\ job.who = u /\ job.amount = amount,
           what = "approved" =>
              \A k \in Events : history[k].what = "approved" => history[k].details.job # details.job
    PROVE  RefundsFollow'
<1>0. PICK n : n = Len(history)
  OBVIOUS
<1>1. PICK e : e = [what |-> what, who |-> u, amount |-> amount, details |-> details, after |-> funds'[u]]
  OBVIOUS
<1>2. e.what = what /\ e.who = u /\ e.amount = amount /\ e.details = details
  BY <1>1
<1>3. n \in Nat /\ Events = 1 .. n /\ history \in Seq(Records)
  BY <1>0, EventType DEF ReportInv, HistoryType
<1>4. history' = Append(history, e)
  BY <1>1 DEF Happens
<1>5. /\ Events' = 1 .. n + 1
      /\ \A i \in 1 .. n : history'[i] = history[i]
      /\ history'[n + 1] = e
  BY <1>0, <1>3, <1>4 DEF Events
<1>6. ASSUME NEW i \in 1 .. n + 1 PROVE i \in 1 .. n \/ i = n + 1
  BY <1>3
<1>7. \A i \in Events' : history'[i].what \in {"completed", "failed"} => history'[i].details \in JobDetails
  BY <1>2, <1>3, <1>5, <1>6 DEF RefundsFollow
<1>8. ASSUME NEW k \in Events', history'[k].what \in {"approved", "denied"}
      PROVE  /\ history'[k].details.job \in Events'
             /\ LET job == history'[history'[k].details.job]
                IN  job.what = "completed" /\ job.who = history'[k].who /\ job.amount = history'[k].amount
             /\ history'[k].details.job < k
  <2>1. PICK j : j = history'[k].details.job
    OBVIOUS
  <2>2. /\ j \in Events
        /\ history[j].what = "completed" /\ history[j].who = history'[k].who
        /\ history[j].amount = history'[k].amount /\ j < k
    <3>1. CASE k \in 1 .. n
      <4>1. k \in Events /\ history'[k] = history[k]
        BY <1>3, <1>5, <3>1
      <4> QED
        BY <1>8, <2>1, <4>1 DEF RefundsFollow
    <3>2. CASE k = n + 1
      BY <1>2, <1>3, <1>5, <1>8, <2>1, <3>2
    <3> QED
      BY <1>5, <1>6, <3>1, <3>2
  <2>3. j \in Events' /\ history'[j] = history[j]
    BY <1>3, <1>5, <2>2
  <2> QED
    BY <2>1, <2>2, <2>3
<1>9. ASSUME NEW k \in Events', NEW l \in Events',
             history'[k].what = "approved", history'[l].what = "approved",
             history'[k].details.job = history'[l].details.job
      PROVE  k = l
  <2>1. CASE k \in 1 .. n /\ l \in 1 .. n
    BY <1>3, <1>5, <1>9, <2>1 DEF RefundsFollow
  <2>2. CASE k = n + 1 /\ l \in 1 .. n
    BY <1>2, <1>3, <1>5, <1>9, <2>2
  <2>3. CASE l = n + 1 /\ k \in 1 .. n
    BY <1>2, <1>3, <1>5, <1>9, <2>3
  <2>4. CASE l = n + 1 /\ k = n + 1
    BY <2>4
  <2> QED
    BY <1>5, <1>6, <2>1, <2>2, <2>3, <2>4
<1> QED
  BY <1>7, <1>8, <1>9 DEF RefundsFollow

\* Every step.
LEMMA RefundsFollowNext == FigureInv /\ [ReportNext]_reportVars => FigureInv'
<1> SUFFICES ASSUME FigureInv, [ReportNext]_reportVars PROVE FigureInv'
  OBVIOUS
<1>0. ReportInv /\ RefundsFollow
  BY DEF FigureInv
<1>1. ReportInv'
  BY <1>0, ReportInvNext
<1>2. CASE UNCHANGED history
  BY <1>0, <1>1, <1>2 DEF RefundsFollow, Events, FigureInv
<1>3. CASE UNCHANGED reportVars
  BY <1>2, <1>3 DEF reportVars
<1>4. CASE ChangeGroups
  BY <1>2, <1>4 DEF ChangeGroups
<1>5. ASSUME NEW u, NEW a, NEW what, NEW amount, NEW delta, Happens(what, u, amount, delta, NoJob),
             what \notin {"completed", "failed", "approved", "denied"}
      PROVE  RefundsFollow'
  BY <1>0, <1>5, HappensKeepsRefunds
<1>6. ASSUME NEW u, NEW a, \/ Recharge(u, a) \/ Fulfilled(u, a) \/ Rejected(u, a)
                           \/ Spend(u, a) \/ Adjust(u, a) \/ Patch(u, a)
      PROVE  RefundsFollow'
  BY <1>5, <1>6 DEF Recharge, Fulfilled, Rejected, Spend, Adjust, Patch
<1>7. ASSUME NEW u, NEW p, NEW d \in Documents, NEW o \in Options,
             NEW end \in {"completed", "failed"}, Printed(u, p, d, o, end)
      PROVE  RefundsFollow'
  <2> DEFINE cost == Cost(u, p, d, o)
             job  == [printer |-> p]
  <2>1. Happens(end, u, cost, IF end = "completed" THEN -cost ELSE 0, job) /\ p \in DOMAIN printers
    BY <1>7 DEF Printed, MayPrint
  <2>2. p \in AllPrinters
    BY <1>0, <2>1 DEF ReportInv, GroupType
  <2>3. job \in JobDetails
    BY <2>2 DEF JobDetails
  <2>4. end # "approved" /\ end # "denied"
    OBVIOUS
  <2> HIDE DEF cost, job
  <2> QED
    BY <1>0, <2>1, <2>3, <2>4, HappensKeepsRefunds
<1>8. ASSUME NEW i, NEW v \in {"approved", "denied"}, ResolveRefund(i, v)
      PROVE  RefundsFollow'
  <2>1. PICK job : job = [job |-> i]
    OBVIOUS
  <2>2. job.job = i
    BY <2>1
  <2>3. PICK delta : Happens(v, history[i].who, history[i].amount, delta, job)
    BY <1>8, <2>1 DEF ResolveRefund
  <2>4. i \in Events /\ history[i].what = "completed"
    BY <1>8 DEF ResolveRefund, Jobs, HasJob, OfPeople
  <2>5. v = "approved" => \A k \in Events : history[k].what = "approved" => history[k].details.job # i
    BY <1>8 DEF ResolveRefund, VerdictsOn
  <2>6. v # "completed" /\ v # "failed"
    OBVIOUS
  <2> QED
    BY <1>0, <2>2, <2>3, <2>4, <2>5, <2>6, HappensKeepsRefunds
<1> QED
  BY <1>1, <1>3, <1>4, <1>6, <1>7, <1>8 DEF ReportNext, FigureInv

-----------------------------------------------------------------------------
(* What a user is told of money.                                             *)

\* Some of the events cost no more than all of them.
LEMMA CostWithin ==
    ASSUME HistoryType, NEW S \in SUBSET Events, NEW T \in SUBSET S,
           \A i \in S : history[i].what \notin Signed
    PROVE  CostOf(T) \in Nat /\ CostOf(S) \in Nat /\ CostOf(T) <= CostOf(S)
<1> DEFINE f == [i \in S |-> Amount(i)]
           g == [i \in T |-> Amount(i)]
<1>1. IsFiniteSet(S) /\ IsFiniteSet(T)
  BY PartSum, FS_Subset
<1>2. \A i \in S : f[i] \in Nat
  BY EventType DEF HistoryType, Amount
<1>3. CostOf(S) = SumFunctionOnSet(f, S) /\ CostOf(T) = SumFunctionOnSet(g, T)
  BY DEF CostOf, SumFunction
<1>4. Ints(g, T) /\ \A i \in T : g[i] = f[i]
  BY <1>2 DEF Ints
<1> HIDE DEF f, g
<1>5. SumFunctionOnSet(g, T) = SumFunctionOnSet(f, T)
  BY <1>1, <1>4, SumEqual
<1>6. /\ SumFunctionOnSet(f, T) \in Nat /\ SumFunctionOnSet(f, S) \in Nat
      /\ SumFunctionOnSet(f, T) <= SumFunctionOnSet(f, S)
  BY <1>1, <1>2, SumWithin
<1> QED
  BY <1>3, <1>5, <1>6

\* The approved refunds of some jobs of a user, each of another one, come to no more than
\* the jobs.
LEMMA RefundsWithinJobs ==
    ASSUME FigureInv, NEW u, NEW W,
           NEW R \in SUBSET {k \in Of({"approved"}, OfPeople) : history[k].details.job \in JobsOf(u, W)}
    PROVE  CostOf(R) <= CostOf(JobsOf(u, W)) /\ CostOf(R) \in Nat /\ CostOf(JobsOf(u, W)) \in Nat
<1> DEFINE h == [k \in R |-> history[k].details.job]
           J == {h[k] : k \in R}
           f == [k \in R |-> Amount(k)]
           g == [i \in J |-> Amount(i)]
<1>1. R \in SUBSET Events /\ HistoryType /\ JobsOf(u, W) \in SUBSET Events
  BY DEF Of, OfPeople, FigureInv, ReportInv, JobsOf, Jobs
<1>2. ASSUME NEW k \in R
      PROVE  /\ k \in Events /\ history[k].what = "approved" /\ h[k] \in JobsOf(u, W)
             /\ Amount(h[k]) = Amount(k)
  BY <1>2 DEF Of, OfPeople, FigureInv, RefundsFollow, Amount
<1>3. \A k, l \in R : h[k] = h[l] => k = l
  BY <1>2 DEF FigureInv, RefundsFollow
<1>4. J \in SUBSET JobsOf(u, W)
  BY <1>2
<1>5. \A i \in JobsOf(u, W) : history[i].what \notin Signed
  BY DEF JobsOf, Jobs, Signed
<1>6. IsFiniteSet(R) /\ Ints(f, R) /\ \A k \in R : g[h[k]] = f[k]
  <2>1. IsFiniteSet(R)
    BY <1>1, PartSum
  <2>2. Ints(f, R)
    BY <1>1, EventType DEF Ints, Amount
  <2>3. \A k \in R : h[k] \in J
    OBVIOUS
  <2> HIDE DEF h, J
  <2> QED
    BY <1>2, <2>1, <2>2, <2>3
<1>7. CostOf(R) = SumFunctionOnSet(f, R) /\ CostOf(J) = SumFunctionOnSet(g, J)
  BY DEF CostOf, SumFunction
<1>8. CostOf(J) = CostOf(R)
  <2>1. SumFunctionOnSet(g, {h[k] : k \in R}) = SumFunctionOnSet(f, R)
    <3> HIDE DEF f, g, h, J
    <3> QED
      BY <1>3, <1>6, SumReindex
  <2> QED
    BY <1>7, <2>1
<1> HIDE DEF J
<1>9. CostOf(J) \in Nat /\ CostOf(JobsOf(u, W)) \in Nat /\ CostOf(J) <= CostOf(JobsOf(u, W))
  BY <1>1, <1>4, <1>5, CostWithin
<1> QED
  BY <1>8, <1>9

\* What is below 0 is shown as 0.
LEMMA Larger ==
    ASSUME NEW n \in Int
    PROVE  Max({0, n}) = IF n > 0 THEN n ELSE 0
<1>1. CASE n > 0
  BY <1>1, Last
<1>2. CASE ~(n > 0)
  BY <1>2, Last
<1> QED
  BY <1>1, <1>2

\* What get_my_stats says was spent in a period is no more than what was, but for refunds
\* made later.
LEMMA SpendingIsHonest ==
    ASSUME FigureInv, NEW u \in people, NEW a \in 0 .. Len(history), NEW b \in 0 .. Len(history)
    PROVE  LET W       == (a + 1) .. b
               refunds == {k \in Of({"approved"}, OfPeople) : history[k].details.job \in JobsOf(u, W)}
               spent   == CostOf(JobsOf(u, W)) - CostOf({k \in refunds : k <= b})
           IN  /\ TotalSpent(u, W) <= spent
               /\ RefundsOf(u, W) \subseteq refunds => TotalSpent(u, W) = spent
<1> DEFINE W       == (a + 1) .. b
           refunds == {k \in Of({"approved"}, OfPeople) : history[k].details.job \in JobsOf(u, W)}
           inTime  == {k \in refunds : k <= b}
           all     == RefundsOf(u, W)
<1>1. all = {k \in Of({"failed", "approved", "rejected"}, W \cap OfPeople) : history[k].who = u}
  <2>1. DOMAIN TxOf("refund", W) = Of({"failed", "approved", "rejected"}, W \cap OfPeople)
    BY DEF TxOf
  <2> QED
    BY <2>1 DEF RefundsOf
<1>2. HistoryType /\ Len(history) \in Nat /\ Events = 1 .. Len(history)
  BY EventType DEF FigureInv, ReportInv
<1>3. ASSUME NEW k \in inTime PROVE k \in all
  <2>1. /\ k \in Events /\ k \in OfPeople /\ history[k].what = "approved" /\ k <= b
        /\ history[k].details.job \in JobsOf(u, W)
    BY DEF Of, OfPeople
  <2>2. PICK i : i = history[k].details.job
    OBVIOUS
  <2>3. i \in W /\ i \in Events /\ history[i].who = u
    BY <2>1, <2>2 DEF JobsOf, Jobs
  <2>4. i < k /\ history[k].who = u
    BY <2>1, <2>2, <2>3 DEF FigureInv, RefundsFollow
  <2>5. k \in W
    BY <1>2, <2>1, <2>3, <2>4
  <2> QED
    BY <1>1, <2>1, <2>4, <2>5 DEF Of
<1>4. inTime \in SUBSET all /\ all \in SUBSET Events
  BY <1>1, <1>3 DEF Of, OfPeople
<1>5. all \subseteq refunds => all = inTime
  <2>1. all \subseteq W
    BY <1>1 DEF Of
  <2>2. \A k \in W : k <= b
    BY <1>2
  <2> QED
    BY <1>4, <2>1, <2>2
<1>6. \A i \in all : history[i].what \notin Signed
  BY <1>1 DEF Of, Signed
<1>7. CostOf(inTime) <= CostOf(JobsOf(u, W)) /\ CostOf(inTime) \in Nat /\ CostOf(JobsOf(u, W)) \in Nat
  <2>1. inTime \in SUBSET {k \in Of({"approved"}, OfPeople) : history[k].details.job \in JobsOf(u, W)}
    OBVIOUS
  <2> HIDE DEF inTime, W
  <2> QED
    BY <2>1, RefundsWithinJobs
<1>8. TotalSpent(u, W) = Max({0, CostOf(JobsOf(u, W)) - CostOf(all)})
  BY DEF TotalSpent
<1> HIDE DEF W, refunds, inTime, all
<1>9. CostOf(all) \in Nat /\ CostOf(inTime) <= CostOf(all)
  BY <1>2, <1>4, <1>6, CostWithin
<1>10. PICK n : n = CostOf(JobsOf(u, W)) - CostOf(all)
  OBVIOUS
<1>11. n \in Int /\ TotalSpent(u, W) = IF n > 0 THEN n ELSE 0
  BY <1>7, <1>8, <1>9, <1>10, Larger
<1>12. TotalSpent(u, W) <= CostOf(JobsOf(u, W)) - CostOf(inTime)
  BY <1>7, <1>9, <1>10, <1>11
<1>13. all \subseteq refunds => TotalSpent(u, W) = CostOf(JobsOf(u, W)) - CostOf(inTime)
  BY <1>5, <1>7, <1>9, <1>10, <1>11
<1> QED
  BY <1>12, <1>13 DEF W, refunds, inTime, all

\* What a user is told of their spending in any period (get_my_stats) is never more than the
\* jobs completed in it cost less the refunds of them made by its end, and exactly that
\* where nothing else was refunded in it, whatever was printed, refunded, overridden or
\* deleted.
THEOREM FiguresAreHonest == ReportSpec => []OwnFiguresAreHonest
<1>1. ReportInit => FigureInv
  BY ReportInvInit, RefundsFollowFirst DEF FigureInv
<1>2. FigureInv => OwnFiguresAreHonest
  BY SpendingIsHonest DEF OwnFiguresAreHonest
<1> QED
  BY <1>1, <1>2, RefundsFollowNext, PTL DEF ReportSpec

-----------------------------------------------------------------------------
(* The pages of the log.                                                     *)

\* How many are newer is a number, and of fewer entries fewer are.
LEMMA RankBounds ==
    ASSUME NEW S \in SUBSET Nat, IsFiniteSet(S), NEW i
    PROVE  /\ Rank(i, S) \in Nat
           /\ i \in S => Rank(i, S) < Cardinality(S)
           /\ \A T \in SUBSET S : Rank(i, T) <= Rank(i, S)
<1>1. /\ IsFiniteSet({k \in S : k > i}) /\ {k \in S : k > i} \subseteq S
  BY FS_Subset
<1>2. Rank(i, S) \in Nat
  BY <1>1, FS_CardinalityType DEF Rank
<1>3. ASSUME i \in S PROVE Rank(i, S) < Cardinality(S)
  <2>1. {k \in S : k > i} # S
    BY <1>3
  <2> QED
    BY <1>1, <2>1, FS_Subset, FS_CardinalityType DEF Rank
<1>4. ASSUME NEW T \in SUBSET S PROVE Rank(i, T) <= Rank(i, S)
  <2>1. {k \in T : k > i} \subseteq {k \in S : k > i}
    OBVIOUS
  <2> QED
    BY <1>1, <2>1, FS_Subset DEF Rank
<1> QED
  BY <1>2, <1>3, <1>4

\* Of two, the newer one has fewer that are newer.
LEMMA RankFalls ==
    ASSUME NEW S \in SUBSET Nat, IsFiniteSet(S), NEW i \in Nat, NEW j \in S, i < j
    PROVE  Rank(j, S) < Rank(i, S)
<1>1. {k \in S : k > j} \subseteq {k \in S : k > i} /\ {k \in S : k > j} # {k \in S : k > i}
  <2>1. j \in {k \in S : k > i} /\ j \notin {k \in S : k > j}
    OBVIOUS
  <2>2. \A k \in S : k > j => k > i
    OBVIOUS
  <2> QED
    BY <2>1, <2>2
<1>2. IsFiniteSet({k \in S : k > i})
  BY FS_Subset
<1> QED
  BY <1>1, <1>2, FS_Subset, FS_CardinalityType DEF Rank

\* Every place of the order is taken, and by one only.
LEMMA EveryRank ==
    ASSUME NEW S, IsFiniteSet(S), \A x \in S : x \in Nat
    PROVE  \A n \in 0 .. Cardinality(S) - 1 : \E i \in S : Rank(i, S) = n
<1> DEFINE Full(T) == \A k \in 0 .. Cardinality(T) - 1 : \E i \in T : Rank(i, T) = k
           B == {T \in SUBSET S : ~Full(T)}
<1>1. SUFFICES B = {}
  BY Zenon
<1>2. SUFFICES ASSUME B # {} PROVE FALSE
  OBVIOUS
<1>3. PICK T \in B : \A U \in B : ~(U \subseteq T /\ U # T)
  <2>1. B \in SUBSET SUBSET S
    OBVIOUS
  <2> HIDE DEF B, Full
  <2>2. PICK C \in SUBSET SUBSET S : C = B
    BY <2>1
  <2>3. C # {}
    BY <1>2, <2>2
  <2>4. \E T \in C : \A U \in C : ~(U \subseteq T /\ U # T)
    BY <2>3, SmallestSubset
  <2> QED
    BY <2>2, <2>4
<1>4. T \in SUBSET Nat /\ T \in SUBSET S /\ IsFiniteSet(T) /\ ~Full(T)
  BY <1>3, FS_Subset
<1>5. PICK k \in 0 .. Cardinality(T) - 1 : \A i \in T : Rank(i, T) # k
  BY <1>4
<1>6. Cardinality(T) \in Nat /\ T # {}
  BY <1>4, <1>5, FS_CardinalityType, FS_EmptySet
<1>7. PICK m : m \in T /\ \A i \in T : m <= i
  BY <1>4, <1>6, LeastNumber
<1> DEFINE U == T \ {m}
<1>8. IsFiniteSet(U) /\ Cardinality(U) = Cardinality(T) - 1 /\ U \in SUBSET T
  BY <1>4, <1>7, FS_RemoveElement
<1>9. Full(U)
  <2>1. U \in SUBSET S /\ U # T
    BY <1>4, <1>7
  <2>2. U \notin B
    <3> HIDE DEF B
    <3> QED
      BY <1>3, <1>8, <2>1
  <2> QED
    BY <2>1, <2>2
<1>10. {i \in T : i > m} = U
  <2>1. \A i \in T : i > m <=> i # m
    BY <1>4, <1>7
  <2> QED
    BY <2>1
<1>11. Rank(m, T) = Cardinality(T) - 1
  BY <1>8, <1>10 DEF Rank
<1>12. \A i \in U : Rank(i, T) = Rank(i, U)
  <2> TAKE i \in U
  <2>1. {j \in T : j > i} = {j \in U : j > i}
    BY <1>4, <1>7
  <2> QED
    BY <2>1 DEF Rank
<1>13. k # Cardinality(T) - 1
  BY <1>5, <1>7, <1>11
<1>14. k \in 0 .. Cardinality(U) - 1
  BY <1>6, <1>8, <1>13
<1>15. PICK i \in U : Rank(i, U) = k
  BY <1>9, <1>14
<1> QED
  BY <1>5, <1>8, <1>12, <1>15

\* No two entries have the same place.
LEMMA OneOfARank ==
    ASSUME NEW S \in SUBSET Nat, IsFiniteSet(S), NEW i \in S, NEW j \in S, Rank(i, S) = Rank(j, S)
    PROVE  i = j
<1>1. CASE i < j
  BY <1>1, RankFalls, RankBounds
<1>2. CASE j < i
  BY <1>2, RankFalls, RankBounds
<1> QED
  BY <1>1, <1>2

\* The entry at a place.
LEMMA NthOf ==
    ASSUME NEW S \in SUBSET Nat, IsFiniteSet(S), NEW k \in 1 .. Cardinality(S)
    PROVE  /\ Descending(S)[k] \in S /\ Rank(Descending(S)[k], S) = k - 1
<1>1. Cardinality(S) \in Nat
  BY FS_CardinalityType
<1>2. k - 1 \in 0 .. Cardinality(S) - 1
  BY <1>1
<1>3. \E i \in S : Rank(i, S) = k - 1
  BY <1>2, EveryRank
<1>4. Descending(S)[k] = CHOOSE i \in S : Rank(i, S) = k - 1
  BY DEF Descending
<1> QED
  BY <1>3, <1>4

\* Two sets of entries that have the same first n.
LEMMA SameFirst ==
    ASSUME NEW V \in SUBSET Nat, IsFiniteSet(V), NEW U \in SUBSET V, NEW n \in Nat \ {0},
           \A i \in V : Rank(i, V) < n => i \in U
    PROVE  /\ Cardinality(U) \in Nat /\ Cardinality(V) \in Nat
           /\ Cardinality(U) = Cardinality(V) \/ (Cardinality(U) >= n /\ Cardinality(V) >= n)
           /\ \A k \in 1 .. n : k <= Cardinality(U) /\ k <= Cardinality(V)
                                  => Descending(U)[k] = Descending(V)[k]
<1>1. IsFiniteSet(U) /\ U \in SUBSET Nat /\ Cardinality(U) \in Nat /\ Cardinality(V) \in Nat
      /\ Cardinality(U) <= Cardinality(V)
  BY FS_Subset, FS_CardinalityType
<1>2. ASSUME NEW i \in V, Rank(i, V) < n
      PROVE  i \in U /\ Rank(i, U) = Rank(i, V)
  <2>1. \A j \in V : j > i => j \in U
    <3> TAKE j \in V
    <3>1. ASSUME j > i PROVE j \in U
      <4>1. Rank(j, V) < Rank(i, V) /\ Rank(j, V) \in Nat /\ Rank(i, V) \in Nat
        BY <3>1, RankFalls, RankBounds
      <4> QED
        BY <1>2, <4>1
    <3> QED
      BY <3>1
  <2>2. {j \in V : j > i} = {j \in U : j > i}
    BY <2>1
  <2> QED
    BY <1>2, <2>2 DEF Rank
<1>3. ASSUME n <= Cardinality(V)
      PROVE  \E j \in U : Rank(j, V) = n - 1 /\ Rank(j, U) = n - 1
  <2>1. n - 1 \in 0 .. Cardinality(V) - 1
    BY <1>1, <1>3
  <2>2. PICK j \in V : Rank(j, V) = n - 1
    BY <2>1, EveryRank
  <2> QED
    BY <1>2, <2>2
<1>4. Cardinality(U) = Cardinality(V) \/ (Cardinality(U) >= n /\ Cardinality(V) >= n)
  <2>1. CASE n <= Cardinality(V)
    <3>1. PICK j \in U : Rank(j, U) = n - 1
      BY <1>3, <2>1
    <3>2. n - 1 < Cardinality(U)
      BY <1>1, <3>1, RankBounds
    <3> QED
      BY <1>1, <2>1, <3>2
  <2>2. CASE ~(n <= Cardinality(V))
    <3>1. \A i \in V : Rank(i, V) < n
      BY <1>1, <2>2, RankBounds
    <3>2. U = V
      BY <3>1
    <3> QED
      BY <3>2
  <2> QED
    BY <2>1, <2>2
<1>5. ASSUME NEW k \in 1 .. n, k <= Cardinality(U), k <= Cardinality(V)
      PROVE  Descending(U)[k] = Descending(V)[k]
  <2>1. PICK i : i = Descending(V)[k]
    OBVIOUS
  <2>2. i \in V /\ Rank(i, V) = k - 1
    BY <1>1, <1>5, <2>1, NthOf
  <2>3. i \in U /\ Rank(i, U) = k - 1
    BY <1>2, <2>2
  <2>4. PICK j : j = Descending(U)[k]
    OBVIOUS
  <2>5. j \in U /\ Rank(j, U) = k - 1
    BY <1>1, <1>5, <2>4, NthOf
  <2> QED
    BY <1>1, <2>1, <2>3, <2>4, <2>5, OneOfARank
<1> QED
  BY <1>1, <1>4, <1>5

\* Sequences that agree to the end of a cut have the same one.
LEMMA SameCut ==
    ASSUME NEW S, NEW s, NEW t, NEW j \in Nat \ {0}, NEW m \in Nat, \A k \in 1 .. m : s[k] = t[k] /\ s[k] \in S
    PROVE  SubSeq(s, j, m) = SubSeq(t, j, m)
<1>1. \A k \in j .. m : s[k] \in S /\ t[k] \in S
  OBVIOUS
<1> DEFINE a == SubSeq(s, j, m)
           b == SubSeq(t, j, m)
<1>2. /\ a \in Seq(S) /\ Len(a) = IF j <= m THEN m - j + 1 ELSE 0
      /\ \A i \in 1 .. m - j + 1 : a[i] = s[j + i - 1]
  <2>1. j \in Int /\ m \in Int /\ \A i \in j .. m : s[i] \in S
    BY <1>1
  <2> QED
    BY <2>1, SubSeqProperties
<1>3. /\ b \in Seq(S) /\ Len(b) = IF j <= m THEN m - j + 1 ELSE 0
      /\ \A i \in 1 .. m - j + 1 : b[i] = t[j + i - 1]
  <2>1. j \in Int /\ m \in Int /\ \A i \in j .. m : t[i] \in S
    BY <1>1
  <2> QED
    BY <2>1, SubSeqProperties
<1>4. \A i \in 1 .. m - j + 1 : s[j + i - 1] = t[j + i - 1]
  <2> TAKE i \in 1 .. m - j + 1
  <2>1. j + i - 1 \in 1 .. m
    OBVIOUS
  <2> QED
    BY <2>1
<1> HIDE DEF a, b
<1>5. Len(a) = Len(b) /\ Len(a) \in Nat /\ (\A i \in 1 .. Len(a) : a[i] = b[i])
  BY <1>2, <1>3, <1>4
<1> QED
  BY <1>2, <1>3, <1>5, SeqEqual DEF a, b

\* Their pages within the first n are the same.
LEMMA SamePages ==
    ASSUME NEW V \in SUBSET Nat, IsFiniteSet(V), NEW U \in SUBSET V,
           NEW offset \in Nat, NEW limit \in Nat \ {0},
           \A i \in V : Rank(i, V) < offset + limit => i \in U
    PROVE  Page(Descending(U), offset, limit) = Page(Descending(V), offset, limit)
<1>1. PICK n : n = offset + limit
  OBVIOUS
<1>2. n \in Nat \ {0}
  BY <1>1
<1> DEFINE d == Descending(U)
           e == Descending(V)
<1>3. /\ Cardinality(U) \in Nat /\ Cardinality(V) \in Nat
      /\ Cardinality(U) = Cardinality(V) \/ (Cardinality(U) >= n /\ Cardinality(V) >= n)
      /\ \A k \in 1 .. n : k <= Cardinality(U) /\ k <= Cardinality(V) => d[k] = e[k]
  BY <1>1, <1>2, SameFirst
<1>4. IsFiniteSet(U) /\ U \in SUBSET Nat
  BY FS_Subset
<1>5. d \in Seq(Nat) /\ Len(d) = Cardinality(U)
  <2>1. \A k \in 1 .. Cardinality(U) : d[k] \in Nat
    BY <1>4, NthOf
  <2>2. d = [k \in 1 .. Cardinality(U) |-> d[k]]
    BY DEF Descending
  <2> HIDE DEF d
  <2> QED
    BY <1>3, <2>1, <2>2
<1>6. e \in Seq(Nat) /\ Len(e) = Cardinality(V)
  <2>1. \A k \in 1 .. Cardinality(V) : e[k] \in Nat
    BY NthOf
  <2>2. e = [k \in 1 .. Cardinality(V) |-> e[k]]
    BY DEF Descending
  <2> HIDE DEF e
  <2> QED
    BY <1>3, <2>1, <2>2
<1>7. PICK m : m = Min({n, Len(d)})
  OBVIOUS
<1>8. m = Min({n, Len(e)}) /\ m \in Nat /\ m <= n /\ m <= Len(d) /\ m <= Len(e)
  <2>1. \A c \in Nat : Min({n, c}) = IF c < n THEN c ELSE n
    <3> TAKE c \in Nat
    <3>1. {n, c} \in SUBSET Nat /\ {n, c} # {}
      BY <1>2
    <3>2. Min({n, c}) \in {n, c} /\ Min({n, c}) <= n /\ Min({n, c}) <= c
      BY <3>1, LeastNumber
    <3> QED
      BY <1>2, <3>2
  <2> QED
    BY <1>2, <1>3, <1>5, <1>6, <1>7, <2>1, SMTT(30)
<1>9. \A k \in 1 .. m : d[k] = e[k]
  BY <1>2, <1>3, <1>5, <1>6, <1>8
<1> HIDE DEF d, e
<1>10. SubSeq(d, offset + 1, m) = SubSeq(e, offset + 1, m)
  <2>1. PICK j \in Nat \ {0} : j = offset + 1
    OBVIOUS
  <2>2. ASSUME NEW k \in 1 .. m PROVE d[k] = e[k] /\ d[k] \in Nat
    <3>1. k \in 1 .. Len(d)
      BY <1>5, <1>8
    <3> QED
      BY <1>5, <1>9, <3>1
  <2>3. SubSeq(d, j, m) = SubSeq(e, j, m)
    <3>1. m \in Nat /\ j \in Nat \ {0} /\ \A k \in 1 .. m : d[k] = e[k] /\ d[k] \in Nat
      BY <1>8, <2>2
    <3> QED
      BY <3>1, SameCut
  <2> QED
    BY <2>1, <2>3
<1> QED
  BY <1>1, <1>7, <1>8, <1>10 DEF Page, d, e

\* A source that is cut after offset + limit has what the page needs of it.
LEMMA InvKeepsLogWhole == ReportInv => LogPagesAreOfWhole
<1> SUFFICES ASSUME ReportInv, NEW offset \in 0 .. MaxHistory, NEW limit \in 1 .. MaxHistory
             PROVE  LogPage(offset, limit)
                       = Page(Descending(Sources[1] \cup Sources[2] \cup Sources[3]), offset, limit)
  BY DEF LogPagesAreOfWhole
<1> DEFINE n == offset + limit
           U == UNION {Newest(Sources[k], n) : k \in 1 .. 3}
           V == Sources[1] \cup Sources[2] \cup Sources[3]
<1>1. offset \in Nat /\ limit \in Nat \ {0}
  BY ReportAssumption
<1>2. \A k \in 1 .. 3 : Sources[k] \in SUBSET Events
  BY DEF Sources, Of, OfPeople
<1>3. \A k \in 1 .. 3 : Sources[k] \in SUBSET V
  OBVIOUS
<1>4. V \in SUBSET Nat /\ IsFiniteSet(V)
  <2>1. V \in SUBSET Events
    BY <1>2
  <2>2. IsFiniteSet(V)
    BY <2>1, PartSum DEF ReportInv
  <2> QED
    BY <2>1, <2>2, EventType DEF ReportInv
<1>5. U \in SUBSET V
  BY <1>3 DEF Newest
<1>6. ASSUME NEW i \in V, Rank(i, V) < n PROVE i \in U
  <2>1. PICK k \in 1 .. 3 : i \in Sources[k]
    OBVIOUS
  <2>2. Rank(i, Sources[k]) <= Rank(i, V) /\ Rank(i, V) \in Nat
    <3> HIDE DEF V
    <3> QED
      BY <1>3, <1>4, RankBounds
  <2>3. Rank(i, Sources[k]) \in Nat
    <3>1. Sources[k] \in SUBSET Nat /\ IsFiniteSet(Sources[k])
      BY <1>3, <1>4, FS_Subset
    <3> QED
      BY <3>1, RankBounds
  <2> QED
    BY <1>1, <1>6, <2>1, <2>2, <2>3 DEF Newest
<1> HIDE DEF U, V
<1>7. Page(Descending(U), offset, limit) = Page(Descending(V), offset, limit)
  BY <1>1, <1>4, <1>5, <1>6, SamePages
<1> QED
  BY <1>7 DEF LogPage, U, V

\* Every page of the activity log (get_activity_log) is the page of the whole log, although
\* each of its three sources is read to the end of the page only.
THEOREM LogPagesAreWhole == ReportSpec => []LogPagesAreOfWhole
BY ReportInvInit, ReportInvNext, InvKeepsLogWhole, PTL DEF ReportSpec
=============================================================================
