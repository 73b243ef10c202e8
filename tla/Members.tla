------------------------------ MODULE Members ------------------------------
(***************************************************************************)
(* How accounts come to be: registration, the first login of a person of   *)
(* an Active Directory, the import of a directory, and changes by their    *)
(* owners and administrators (api/routes/auth.py, user.py and settings.py, *)
(* core/ldap_assistant.py, db/crud/user.py).  Every request runs in a      *)
(* thread of its own and is taken apart at its reads, its writes and its   *)
(* calls of the directory.  Passwords are left out but for whether an      *)
(* account has one; a directory accepts its people and no others, and      *)
(* compares names without regard to case.                                  *)
(***************************************************************************)
EXTENDS Integers, FiniteSets

CONSTANTS Requests,     \* the requests, each made once
          Names,        \* usernames as they may be spelt
          Fold,         \* str.casefold of each
          Mails,
          Servers,      \* directory servers
          People,       \* the names that each server holds, importable ones only
          None

ASSUME MemberAssumption ==
    /\ People \in [Servers -> SUBSET Names]
    /\ None \notin Mails \cup Servers /\ None \notin {"register", "login", "import"}

\* A configuration is that of a server: its address, its domain and its base.
Off     == None
Configs == Servers \cup {Off}

\* The routes of auth.py and of settings.py have an LDAPAssistant each.
Assistants == {"auth", "settings"}

VARIABLES accounts,   \* User rows, by who made them: <<request, name>> -> name, mail, whether
                      \* there is a local password, and the request that gave the name
          config,     \* the AD configuration in AppConfig
          assistant,  \* the attributes of the two shared objects
          req,        \* where each request is, and what it has read
          inForce,    \* history: the configurations in force during each request
          before      \* history: <<q, r>> when request q had ended before r began

vars == <<accounts, config, assistant, req, inForce, before>>
requestHistory == <<inForce, before>>

Idle == [op |-> None, pc |-> "idle", name |-> None, mail |-> None, id |-> None,
         cfg |-> None, domain |-> None, server |-> None, todo |-> {}]

Init ==
    /\ accounts = [a \in {} |-> Idle]
    /\ config \in Configs
    /\ assistant = [o \in Assistants |-> [server |-> None, domain |-> None, base |-> None]]
    /\ req = [r \in Requests |-> Idle]
    /\ inForce = [r \in Requests |-> {}]
    /\ before = {}

Ended(r)   == req[r].pc \in {"done", "refused", "failed"}
Active(r)  == req[r].pc # "idle" /\ ~Ended(r)
Taken(n)   == \E a \in DOMAIN accounts : accounts[a].name = n
MailHeld(m, id) == \E a \in DOMAIN accounts \ {id} : accounts[a].mail = m
NameHeld(n, id) == \E a \in DOMAIN accounts \ {id} : accounts[a].name = n

\* Mutant: the names are not folded.
NamesAsSpelt == {accounts[a].name : a \in DOMAIN accounts}

\* get_usernames
Folds == {Fold[accounts[a].name] : a \in DOMAIN accounts}

Goto(r, pc)    == req' = [req EXCEPT ![r].pc = pc]
Insert(r, n, m, local) ==
    accounts' = [a \in DOMAIN accounts \cup {<<r, n>>} |->
                    IF a = <<r, n>> THEN [name |-> n, mail |-> m, local |-> local, by |-> r]
                    ELSE accounts[a]]

Begin(r, op, pc, name, mail, id) ==
    /\ req[r].pc = "idle"
    /\ req' = [req EXCEPT ![r] = [@ EXCEPT !.op = op, !.pc = pc, !.name = name, !.mail = mail, !.id = id]]
    /\ before' = before \cup {<<q, r>> : q \in {q \in Requests : Ended(q)}}
    /\ inForce' = [inForce EXCEPT ![r] = {config}]
    /\ UNCHANGED <<accounts, config, assistant>>

\* A request that is one transaction: it overlaps nothing.
Once(r) == req[r].pc = "idle" /\ Goto(r, "done")

-----------------------------------------------------------------------------
(* Registration, and changes of a name or a mail address.                    *)

Register(r) == \E n \in Names, m \in Mails : Begin(r, "register", "mail", n, m, None)

\* None is what a request leaves as it is.
Update(r) ==
    \E id \in DOMAIN accounts, n \in Names \cup {None}, m \in Mails \cup {None} :
       Begin(r, "update", "mail", n, m, id)

\* email_exists and username_exists, without the account itself in an update.
CheckMail(r) ==
    /\ req[r].pc = "mail"
    /\ Goto(r, IF req[r].mail # None /\ MailHeld(req[r].mail, req[r].id) THEN "refused" ELSE "name")
    /\ UNCHANGED <<accounts, config, assistant, requestHistory>>

CheckName(r) ==
    /\ req[r].pc = "name"
    /\ Goto(r, IF req[r].name # None /\ NameHeld(req[r].name, req[r].id) THEN "refused" ELSE "write")
    /\ UNCHANGED <<accounts, config, assistant, requestHistory>>

Unique(r) == /\ req[r].name # None => ~NameHeld(req[r].name, req[r].id)
             /\ req[r].mail # None => ~MailHeld(req[r].mail, req[r].id)

WriteNew(r) ==
    /\ req[r].pc = "write" /\ req[r].op = "register" /\ Unique(r)
    /\ Insert(r, req[r].name, req[r].mail, TRUE)
    /\ Goto(r, "done")
    /\ UNCHANGED <<config, assistant, requestHistory>>

WriteUpdate(r) ==
    LET id == req[r].id
    IN  /\ req[r].pc = "write" /\ req[r].op = "update" /\ id \in DOMAIN accounts /\ Unique(r)
        /\ accounts' = [accounts EXCEPT ![id].name = IF req[r].name = None THEN @ ELSE req[r].name,
                                        ![id].by = IF req[r].name = None THEN @ ELSE r,
                                        ![id].mail = IF req[r].mail = None THEN @ ELSE req[r].mail]
        /\ Goto(r, "done")
        /\ UNCHANGED <<config, assistant, requestHistory>>

\* The account is gone, or the constraints of the table refuse the row.
WriteFails(r) ==
    /\ req[r].pc = "write"
    /\ Unique(r) => (req[r].op = "update" /\ req[r].id \notin DOMAIN accounts)
    /\ Goto(r, "failed")
    /\ UNCHANGED <<accounts, config, assistant, requestHistory>>

DeleteUser(r) ==
    \E id \in DOMAIN accounts :
       /\ Once(r)
       /\ accounts' = [a \in DOMAIN accounts \ {id} |-> accounts[a]]
       /\ UNCHANGED <<config, assistant, requestHistory>>

-----------------------------------------------------------------------------
(* The directory.                                                            *)

PutConfig(r) ==
    \E c \in Configs \ {config} :
       /\ Once(r) /\ config' = c
       /\ inForce' = [q \in Requests |-> IF Active(q) THEN inForce[q] \cup {c} ELSE inForce[q]]
       /\ UNCHANGED <<accounts, assistant, before>>

\* A password that is right for a local account ends the login; else the directory.
LocalLogin(r) ==
    \E a \in DOMAIN accounts : accounts[a].local /\ Once(r)
                               /\ UNCHANGED <<accounts, config, assistant, requestHistory>>

\* change_password asks for the current one; a reset, by a token that was mailed to the
\* account's address, gives a local password to an account that has none, too.
ChangePassword(r) ==
    \E a \in DOMAIN accounts : accounts[a].local /\ Once(r)
                               /\ UNCHANGED <<accounts, config, assistant, requestHistory>>
ResetPassword(r) ==
    \E a \in DOMAIN accounts :
       /\ accounts[a].mail # None /\ Once(r)
       /\ accounts' = [accounts EXCEPT ![a].local = TRUE]
       /\ UNCHANGED <<config, assistant, requestHistory>>

Login(r)   == \E n \in Names : Begin(r, "login", "config", n, None, None)
Import(r)  == Begin(r, "import", "config", None, None, None)
Preview(r) == Begin(r, "preview", "config", None, None, None)

Assistant(r) == IF req[r].op = "login" THEN "auth" ELSE "settings"

\* Mutant: the object is configured for the first request only.
ReadConfigOnce(r) ==
    /\ req[r].pc = "config"
    /\ req' = [req EXCEPT ![r].cfg = config,
                          ![r].pc = IF config = Off THEN "refused"
                                    ELSE IF assistant[Assistant(r)].base = None THEN "server" ELSE "bind"]
    /\ UNCHANGED <<accounts, config, assistant, requestHistory>>

ReadConfig(r) ==
    /\ req[r].pc = "config"
    /\ req' = [req EXCEPT ![r].cfg = config, ![r].pc = IF config = Off THEN "refused" ELSE "server"]
    /\ UNCHANGED <<accounts, config, assistant, requestHistory>>

\* configure() sets the attributes one after the other, for whoever uses the object.
Configure(r, at, then) ==
    /\ req[r].pc = at
    /\ assistant' = [assistant EXCEPT ![Assistant(r)][at] = req[r].cfg]
    /\ Goto(r, then)
    /\ UNCHANGED <<accounts, config, requestHistory>>

Knows(server, n) == \E m \in People[server] : Fold[m] = Fold[n]

\* _authenticate_with_ldap takes the domain of the moment, then the server's address.
Address(r) ==
    /\ req[r].pc = "bind"
    /\ req' = [req EXCEPT ![r].domain = assistant[Assistant(r)].domain, ![r].pc = "connect"]
    /\ UNCHANGED <<accounts, config, assistant, requestHistory>>

\* name@domain must be one of the server's people.  An import uses an account that
\* every server accepts.
Bind(r) ==
    LET at == assistant[Assistant(r)].server
        ok == req[r].domain = at /\ (req[r].op = "login" => Knows(at, req[r].name))
    IN  /\ req[r].pc = "connect"
        /\ req' = [req EXCEPT ![r].server = at, ![r].pc = IF ok THEN "search" ELSE "refused"]
        /\ UNCHANGED <<accounts, config, assistant, requestHistory>>

\* A search below the base of another directory finds nothing.
Search(r) ==
    LET found == assistant[Assistant(r)].base = req[r].server
    IN  /\ req[r].pc = "search"
        /\ req' = [req EXCEPT ![r].todo = IF found /\ req[r].op # "login" THEN People[req[r].server] ELSE {},
                              ![r].pc = IF req[r].op # "login" THEN "preview"
                                        ELSE IF found THEN "find" ELSE "refused"]
        /\ UNCHANGED <<accounts, config, assistant, requestHistory>>

\* _get_or_create_user_in_db: the exact name is looked up, then made or given a password.
Find(r) ==
    /\ req[r].pc = "find"
    /\ \/ \E id \in DOMAIN accounts :
             /\ accounts[id].name = req[r].name
             /\ req' = [req EXCEPT ![r].id = id, ![r].pc = "found"]
       \/ ~Taken(req[r].name) /\ Goto(r, "create")
    /\ UNCHANGED <<accounts, config, assistant, requestHistory>>

StorePassword(r) ==
    /\ req[r].pc = "found"
    /\ accounts' = [a \in DOMAIN accounts |->
                       IF a = req[r].id THEN [accounts[a] EXCEPT !.local = TRUE] ELSE accounts[a]]
    /\ Goto(r, "done")
    /\ UNCHANGED <<config, assistant, requestHistory>>

\* The row is refused when the name was taken meanwhile; UserCreate refuses a name that
\* no account may have, or a person without a first or a last name.
CreateAtLogin(r) ==
    /\ req[r].pc = "create"
    /\ \/ ~Taken(req[r].name) /\ Insert(r, req[r].name, None, TRUE) /\ Goto(r, "done")
       \/ Goto(r, "failed") /\ UNCHANGED accounts
    /\ UNCHANGED <<config, assistant, requestHistory>>

-----------------------------------------------------------------------------
(* The import.                                                               *)

\* preview_import_users: the people without an account; a preview ends here.
PreviewImport(r) ==
    /\ req[r].pc = "preview"
    /\ req' = [req EXCEPT ![r].todo = {n \in @ : Fold[n] \notin Folds},
                          ![r].pc = IF req[r].op = "preview" THEN "done" ELSE "existing"]
    /\ UNCHANGED <<accounts, config, assistant, requestHistory>>

\* import_users: the usernames are read once more.
ReadExisting(r) ==
    /\ req[r].pc = "existing"
    /\ req' = [req EXCEPT ![r].todo = {n \in @ : Fold[n] \notin Folds}, ![r].pc = "next"]
    /\ UNCHANGED <<accounts, config, assistant, requestHistory>>

\* One commit for each, whose name joins those that exist; a name taken meanwhile ends
\* the import, with what it has made.
ImportNext(r) ==
    /\ req[r].pc = "next"
    /\ \E n \in req[r].todo :
          IF Taken(n)
          THEN Goto(r, "failed") /\ UNCHANGED accounts
          ELSE /\ Insert(r, n, None, FALSE)
               /\ req' = [req EXCEPT ![r].todo = {m \in @ : Fold[m] # Fold[n]}]
    /\ UNCHANGED <<config, assistant, requestHistory>>

ImportEnds(r) ==
    /\ req[r].pc = "next" /\ req[r].todo = {}
    /\ Goto(r, "done")
    /\ UNCHANGED <<accounts, config, assistant, requestHistory>>

Next ==
    \E r \in Requests :
       \/ Register(r) \/ Update(r) \/ CheckMail(r) \/ CheckName(r)
       \/ WriteNew(r) \/ WriteUpdate(r) \/ WriteFails(r) \/ DeleteUser(r)
       \/ PutConfig(r) \/ LocalLogin(r) \/ ChangePassword(r) \/ ResetPassword(r)
       \/ Login(r) \/ Import(r) \/ Preview(r)
       \/ ReadConfig(r) \/ Configure(r, "server", "domain") \/ Configure(r, "domain", "base")
       \/ Configure(r, "base", "bind") \/ Address(r) \/ Bind(r) \/ Search(r)
       \/ Find(r) \/ StorePassword(r) \/ CreateAtLogin(r)
       \/ PreviewImport(r) \/ ReadExisting(r) \/ ImportNext(r) \/ ImportEnds(r)

Spec == Init /\ [][Next]_vars

-----------------------------------------------------------------------------
\* An import gives nobody a second account (ldap_assistant.py:50-73): no account that
\* had its name before the import began is joined by one of the same name but for
\* the case, and an import never makes two of them itself.  A registration, a login
\* or a change of name may: they compare names as they are spelt.
ImportsKeepPeopleApart ==
    \A a, b \in DOMAIN accounts :
       LET import == accounts[a].by  other == accounts[b].by
       IN  /\ a # b /\ Fold[accounts[a].name] = Fold[accounts[b].name]
           /\ req[import].op = "import"
           => other # import /\ <<other, import>> \notin before

\* Whoever a directory lets in (auth.py:88-103, ldap_assistant.py:24-48) was accepted
\* by a server that was configured at some time while this login, or one that had not
\* ended when it began, was running: although the attributes are shared and set one
\* by one, nobody is checked against a server given up before.
CheckedWhereConfigured ==
    \A r \in Requests :
       req[r].op = "login" /\ req[r].pc \in {"search", "find", "found", "create", "done", "failed"}
         => \E q \in Requests : <<q, r>> \notin before /\ req[r].server \in inForce[q]
=============================================================================
