------------------------------ MODULE FrontEnd ------------------------------
(* The front end of a node: the service that executes the commands of clients
   (serverExec/service.go Cmd), the server functions it calls
   (server/serverFuncs_cmd_bk1.go) and the accounts (userManage/userManage.go),
   over the table index of the same node (module TableIndex).

   A request names several commands; they are executed in a fixed order, and the
   reply of the last one is returned.  Requests run at once in goroutines of the
   RPC server; the command line (server/cmd.go) calls the same functions.  A step
   is what happens between two calls that take a lock.

   Transactions that pass go to the pools of all nodes; submitted is what some
   block may bring, here in any order.                                          *)
EXTENDS TableIndex

CONSTANTS Handler, Request,  \* goroutines; the requests that come, each once
          Password, Files,   \* passwords; Files[a]: the account files found at the start
          NoFile, Broken     \* no account file; one whose writing was cut off

ASSUME FrontEndAssumption ==
    /\ NoFile \notin Password /\ Broken \notin Password
    /\ Files \in [Account -> Password \cup {NoFile}]

\* The commands in the order in which Cmd looks for them.
Commands == <<"login", "register", "logout", "table", "put", "get">>

ASSUME RequestAssumption ==
    Request \subseteq [commands : SUBSET {Commands[i] : i \in DOMAIN Commands},
                       uid : Account \X Password, table : Table, grants : Grants, key : Key]

VARIABLES file,       \* file[a]: the password in the account file of a
          writing,    \* the account whose file is being written; the lock is held
          signedIn,   \* the keys of EffectiveUser: pairs of account and password
          left,       \* requests that have not come yet
          job,        \* job[h]: the request of h, or Free
          cmd, step,  \* the command h executes, and how far it is
          base,       \* the table blocks behind the permission h has checked
          submitted   \* transactions in the pools

sessions == <<file, writing, signedIn>>
handlers == <<left, job, cmd, step, base>>
vars == <<indexVars, sessions, handlers, submitted>>

Free == [commands |-> {}]
None == {}

FrontTypeOK ==
    /\ TypeOK
    /\ file \in [Account -> Password \cup {NoFile, Broken}]
    /\ writing \subseteq Account /\ signedIn \subseteq Account \X Password
    /\ left \subseteq Request /\ job \in [Handler -> Request \cup {Free}]
    /\ cmd \in [Handler -> 0 .. Len(Commands) + 1]
    /\ step \in [Handler -> {"start", "write", "check", "submit"}]
    /\ base \in [Handler -> SUBSET (1 .. MaxTableBlocks)]
    /\ submitted \subseteq TableTx \cup DataTx

Init ==
    /\ InitIndex
    /\ file = Files /\ writing = None /\ signedIn = {}
    /\ left = Request /\ job = [h \in Handler |-> Free]
    /\ cmd = [h \in Handler |-> 0] /\ step = [h \in Handler |-> "start"]
    /\ base = [h \in Handler |-> {}] /\ submitted = {}

-----------------------------------------------------------------------------
(* An operator with an underscore in its name is a mutant.                     *)

Who(h) == job[h].uid[1]
SignedIn(h) == job[h].uid \in signedIn

\* The next command of a request, and behind the last one the reply.
After(r, i) ==
    LET rest == {j \in i + 1 .. Len(Commands) : Commands[j] \in r.commands}
    IN IF rest = {} THEN Len(Commands) + 1 ELSE CHOOSE j \in rest : \A l \in rest : j <= l

\* Cmd takes the next request.
Cmd(h, r) ==
    /\ ~ down /\ job[h] = Free /\ r \in left
    /\ left' = left \ {r} /\ job' = [job EXCEPT ![h] = r]
    /\ cmd' = [cmd EXCEPT ![h] = After(r, 0)]
    /\ UNCHANGED <<indexVars, sessions, step, base, submitted>>

At(h, c, s) == ~ down /\ cmd[h] \in DOMAIN Commands /\ Commands[cmd[h]] = c /\ step[h] = s
Then(h, s) == step' = [step EXCEPT ![h] = s] /\ UNCHANGED <<left, job, cmd>>
Over(h) == cmd' = [cmd EXCEPT ![h] = After(job[h], @)] /\ step' = [step EXCEPT ![h] = "start"]
           /\ UNCHANGED <<left, job>>
Reply(h) ==
    /\ ~ down /\ cmd[h] = Len(Commands) + 1
    /\ cmd' = [cmd EXCEPT ![h] = 0] /\ job' = [job EXCEPT ![h] = Free]
    /\ base' = [base EXCEPT ![h] = {}]
    /\ UNCHANGED <<indexVars, sessions, left, step, submitted>>

\* UserManage.SignIn: the file must be readable and hold the password.
SignIn(h) ==
    /\ At(h, "login", "start") /\ writing = None /\ Over(h)
    /\ signedIn' = signedIn \cup {uid \in {job[h].uid} : file[uid[1]] = uid[2]}
    /\ UNCHANGED <<indexVars, file, writing, base, submitted>>

Taken_Never(a) == FALSE
Taken(a) == file[a] # NoFile

\* UserManage.Register holds its lock while the file is created and written.
Register(h) ==
    /\ At(h, "register", "start") /\ writing = None
    /\ IF Taken(Who(h))
       THEN Over(h) /\ UNCHANGED <<file, writing>>
       ELSE /\ Then(h, "write") /\ writing' = {Who(h)}
            /\ file' = [file EXCEPT ![Who(h)] = Broken]
    /\ UNCHANGED <<indexVars, signedIn, base, submitted>>
SaveAccount2File(h) ==
    /\ At(h, "register", "write") /\ Over(h)
    /\ file' = [file EXCEPT ![Who(h)] = job[h].uid[2]] /\ writing' = None
    /\ UNCHANGED <<indexVars, signedIn, base, submitted>>

\* UserManage.SignOut, of an account that is signed in or not.
SignOut(h) ==
    /\ At(h, "logout", "start") /\ writing = None /\ Over(h)
    /\ signedIn' = signedIn \ {job[h].uid}
    /\ UNCHANGED <<indexVars, file, writing, base, submitted>>

\* Table, Put and Get begin with ViewAccount.
View(h, c) ==
    /\ At(h, c, "start") /\ writing = None
    /\ IF SignedIn(h) THEN Then(h, "check") ELSE Over(h)
    /\ UNCHANGED <<indexVars, sessions, base, submitted>>

\* Then the permission is looked up; behind the answer are the table blocks that
\* have been worked in.
WorkedIn == DOMAIN tableChain \ {w[2] : w \in {v \in toDo : v[1] = "table"}}
Check(h, c, allowed) ==
    /\ At(h, c, "check")
    /\ base' = [base EXCEPT ![h] = WorkedIn]
    /\ IF allowed THEN Then(h, "submit") ELSE Over(h)
    /\ UNCHANGED <<indexVars, sessions, submitted>>

MayAlter_Writer(a, t) == NoSuchTable(t) \/ Permission(a, t) >= 2
MayWrite_Reader(a, t) == ~ NoSuchTable(t) /\ Permission(a, t) >= 1
MayAlter(a, t) == NoSuchTable(t) \/ Permission(a, t) >= 4
MayWrite(a, t) == ~ NoSuchTable(t) /\ Permission(a, t) >= 3
MayRead(a, t) == ~ NoSuchTable(t) /\ Permission(a, t) >= 1

TableCheck(h) == Check(h, "table", MayAlter(Who(h), job[h].table))
PutCheck(h) == Check(h, "put", MayWrite(Who(h), job[h].table))
GetCheck(h) == Check(h, "get", MayRead(Who(h), job[h].table))

\* The transaction goes to the pools, whether the own pool is FULL or not.
Submit(h, c, tx) ==
    /\ At(h, c, "submit") /\ Over(h)
    /\ submitted' = submitted \cup {tx}
    /\ UNCHANGED <<indexVars, sessions, base>>
SubmitTable(h) ==
    LET r == job[h]
    IN Submit(h, "table", [table |-> r.table, grants |-> r.grants, by |-> Who(h), seen |-> base[h]])
SubmitPut(h) ==
    LET r == job[h]
    IN \E s \in Stamp :
          Submit(h, "put", [table |-> r.table, key |-> r.key, stamp |-> s, by |-> Who(h), seen |-> base[h]])

\* Get looks the value up: a table without a bucket is a panic.
GetValue(h) ==
    /\ At(h, "get", "submit")
    /\ down' = (bucket[job[h].table] = NoBucket)
    /\ IF down' THEN UNCHANGED handlers ELSE Over(h) /\ UNCHANGED base
    /\ UNCHANGED <<chains, index, toDo, torn, crossed, restarts, sessions, submitted>>

-----------------------------------------------------------------------------
\* A block of the transactions in the pools, made here or by another node.
Blocks2(T) == {s \in UNION {[1 .. n -> T] : n \in 1 .. MaxInBlock} :
                 \A i, j \in DOMAIN s : i # j => s[i] # s[j]}
TableBlock ==
    \E tx \in submitted \cap TableTx :
        AppendTable(tx) /\ submitted' = submitted \ {tx} /\ UNCHANGED <<sessions, handlers>>
DataBlock ==
    \E s \in Blocks2(submitted \cap DataTx) :
        /\ AppendData(s) /\ submitted' = submitted \ {s[i] : i \in DOMAIN s}
        /\ UNCHANGED <<sessions, handlers>>
WorkIn == Arriving /\ UNCHANGED <<sessions, handlers, submitted>>

\* The process ends, in whatever it is doing, and starts again: files are kept.
Restart ==
    /\ RestartIndex
    /\ signedIn' = {} /\ writing' = None /\ UNCHANGED file
    /\ job' = [h \in Handler |-> Free] /\ cmd' = [h \in Handler |-> 0]
    /\ step' = [h \in Handler |-> "start"] /\ base' = [h \in Handler |-> {}]
    /\ UNCHANGED <<left, submitted>>

Execute(h) ==
    \/ \E r \in left : Cmd(h, r)
    \/ Reply(h) \/ SignIn(h) \/ Register(h) \/ SaveAccount2File(h) \/ SignOut(h)
    \/ \E c \in {"table", "put", "get"} : View(h, c)
    \/ TableCheck(h) \/ PutCheck(h) \/ GetCheck(h)
    \/ SubmitTable(h) \/ SubmitPut(h) \/ GetValue(h)

Next == (\E h \in Handler : Execute(h)) \/ TableBlock \/ DataBlock \/ WorkIn \/ Restart
Spec == Init /\ [][Next]_vars

-----------------------------------------------------------------------------
\* An account file that holds a password keeps it, whoever registers the same name
\* at the same time or later (UserManage.Register under its lock).
AccountKept == [][\A a \in Account : file[a] \in Password => file'[a] = file[a]]_vars

\* a was given a level from l on by one of the table blocks S of t, and, unless two of
\* them were worked in together, has it when they are merged in turn.
HadLevel(a, t, S, l) ==
    /\ \E i \in Of(t) \cap S : tableChain[i].grants[a] >= l
    /\ t \notin crossed => Merged(t, S)[a] >= l

\* Every transaction of a table was submitted by an account that had level 4 in the
\* part of the table chain its front end knew, unless that front end had not worked
\* in any block of the table (Server.Table checks long before the block comes).
Creates(tx) == Of(tx.table) \cap tx.seen = {}
NotUsurped ==
    \A i \in DOMAIN tableChain :
        LET tx == tableChain[i] IN Creates(tx) \/ HadLevel(tx.by, tx.table, tx.seen, 4)

\* A table is made once (blockchain_table/transaction.go:126: no two tables of one
\* name in a database).
TableUnique ==
    \A i, j \in DOMAIN tableChain :
        tableChain[i].table = tableChain[j].table /\ Creates(tableChain[i]) /\ Creates(tableChain[j]) => i = j

\* Every data transaction in the chain was submitted by an account that had level 3
\* in the part of the table chain its front end knew (Server.Put).
WritesPermitted ==
    \A b \in DOMAIN dataChain : \A i \in DOMAIN dataChain[b] :
        LET tx == dataChain[b][i] IN HadLevel(tx.by, tx.table, tx.seen, 3)
=============================================================================
