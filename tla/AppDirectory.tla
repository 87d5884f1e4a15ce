---------------------------- MODULE AppDirectory ----------------------------
(***************************************************************************)
(* The app directory and the launch configurations: storage/               *)
(* sqlite_storage.py, a database file that the server and the commands     *)
(* register-app and remove-app (cli.py) open, each with a connection of    *)
(* its own.                                                                *)
(*                                                                         *)
(* A connection starts a transaction with its first write and ends it with *)
(* a commit.  All handlers of the server share one connection, so one of   *)
(* them commits what the others have written so far.  The code never rolls *)
(* back.  SQLite does, by itself: the whole transaction, when the disk is  *)
(* full, an I/O operation fails or memory runs out; and a connection that  *)
(* closes, or whose process ends, takes its open transaction along.        *)
(*                                                                         *)
(* An app's entry is spread over four tables, each here with the version   *)
(* of the app whose rows it holds.  Of a launch config, or of there being  *)
(* none, only the write counts that it comes from.                         *)
(***************************************************************************)
EXTENDS Naturals, Sequences

CONSTANTS
    Apps,       \* app ids
    System,     \* the app that the server itself adds when it starts
    Base,       \* Base[a]: the id without what follows its "@"
    Versions,   \* contents of an app's entry
    Commands,   \* runs of register-app and remove-app
    Server,     \* the connection of the server
    Requests,   \* createLaunchConfig, deleteLaunchConfig of the admin API
    None, NoTxn

ASSUME SystemIsApp == System \in Apps
ASSUME BaseIsApp == Base \in [Apps -> Apps]
ASSUME NoneIsNoVersion == None \notin Versions
ASSUME ServerIsNoCommand == Server \notin Commands

EntryTables == {"apps", "icons", "intents", "origins"}
Tables == EntryTables \cup {"launch_configs"}
Connections == Commands \cup {Server}
Contents == Versions \cup {None} \cup Nat
Databases == [Tables -> [Apps -> Contents]]

ASSUME NoTxnIsNoDatabase == NoTxn \notin Databases

VARIABLES
    db,         \* the database, as committed
    txn,        \* the database as an open transaction of a connection has it
    job,        \* what each connection's command, or the server's start, does
    serving,    \* the server has started
    request,    \* what each request of the admin API does
    writes,     \* history: how often launch configs have been written
    wrote,      \* history: which of those writes is a request's, and to what
    written,    \* history: the requests whose write is in the open transaction
    answered,   \* history: the requests that were answered without an error
    rolledBack  \* history: the requests whose write SQLite has rolled back

history == <<writes, wrote, written, answered, rolledBack>>
vars == <<db, txn, job, serving, request, history>>

Empty == [t \in Tables |-> [a \in Apps |-> IF t \in EntryTables THEN None ELSE 0]]
Ended == [at |-> "ended", step |-> 1, app |-> System, content |-> None]
Stuck == [Ended EXCEPT !.at = "stuck"]

Init ==
    /\ db = Empty
    /\ txn = [c \in Connections |-> NoTxn]
    /\ job = [c \in Connections |->
                 IF c = Server THEN Ended ELSE [Ended EXCEPT !.at = "new"]]
    /\ serving = FALSE
    /\ request = [r \in Requests |-> "new"]
    /\ writes = 0
    /\ wrote = [r \in Requests |-> [apps |-> {}, number |-> 0]]
    /\ written = {}
    /\ answered = {}
    /\ rolledBack = {}

-----------------------------------------------------------------------------
(***************************************************************************)
(* SQLite, and the connections.                                            *)
(***************************************************************************)

\* One connection at a time writes; the others wait, and after a while fail.
MayWrite(c) == \A d \in Connections \ {c} : txn[d] = NoTxn

\* What connection c reads.
Seen(c) == IF txn[c] = NoTxn THEN db ELSE txn[c]

Write(c, t, as, content) ==
    /\ MayWrite(c)
    /\ txn' = [txn EXCEPT ![c] =
                  [Seen(c) EXCEPT ![t] =
                      [a \in Apps |-> IF a \in as THEN content ELSE @[a]]]]

Commit(c) ==
    /\ db' = Seen(c)
    /\ txn' = [txn EXCEPT ![c] = NoTxn]

\* What c has written since its last commit is gone.
Discard(c) == txn' = [txn EXCEPT ![c] = NoTxn]

\* Launch configs are written once more.
WriteConfigs(c, as) ==
    /\ Write(c, "launch_configs", as, writes + 1)
    /\ writes' = writes + 1

\* _app_id_candidates
Candidates(a) == {a, Base[a]}

-----------------------------------------------------------------------------
(***************************************************************************)
(* add_app and remove_app, for a command or for the start of the server.   *)
(***************************************************************************)

\* The connection is made, and the tables are created if there are none.
Start(c, a, content) ==
    /\ job' = [job EXCEPT ![c] = [at |-> "initializing", step |-> 1, app |-> a,
                                  content |-> content]]
    /\ UNCHANGED <<db, txn, serving, request, history>>

\* main: register-app or remove-app.
RunCommand(c) ==
    /\ job[c].at = "new"
    /\ \E a \in Apps, content \in Versions \cup {None} : Start(c, a, content)

\* lifespan, with the server's own entry.
StartServer ==
    /\ ~serving
    /\ job[Server].at = "ended"
    /\ \E v \in Versions : Start(Server, System, v)

Initialized(c) ==
    /\ job[c].at = "initializing"
    /\ job' = [job EXCEPT ![c].at = IF job[c].content = None THEN "removing"
                                    ELSE "adding"]
    /\ UNCHANGED <<db, txn, serving, request, history>>

\* initialize is awaited before the try: when it fails nobody closes the
\* connection, whose thread keeps the process from ending.
InitializeFails(c) ==
    /\ job[c].at = "initializing"
    /\ job' = [job EXCEPT ![c] = Stuck]
    /\ UNCHANGED <<db, txn, serving, request, history>>

AddOrder == <<"apps", "icons", "intents", "origins">>
RemoveOrder == <<"icons", "intents", "origins", "apps">>

Order(c) == IF job[c].at = "adding" THEN AddOrder ELSE RemoveOrder

\* The ids whose rows the job replaces or deletes.
Touched(c) ==
    IF job[c].at = "adding" THEN {job[c].app} ELSE Candidates(job[c].app)

\* Mutant: every statement is committed by itself.
WriteTableAtOnce(c) ==
    /\ job[c].at \in {"adding", "removing"}
    /\ job[c].step \in 1..4
    /\ MayWrite(c)
    /\ db' = [db EXCEPT ![Order(c)[job[c].step]] =
                 [a \in Apps |-> IF a \in Touched(c) THEN job[c].content
                                 ELSE @[a]]]
    /\ job' = [job EXCEPT ![c].step = @ + 1]
    /\ UNCHANGED <<txn, serving, request, history>>

\* The statements on one table, one after the other.
WriteTable(c) ==
    /\ job[c].at \in {"adding", "removing"}
    /\ job[c].step \in 1..4
    /\ Write(c, Order(c)[job[c].step], Touched(c), job[c].content)
    /\ job' = [job EXCEPT ![c].step = @ + 1]
    /\ UNCHANGED <<db, serving, request, history>>

\* The commit.  A command goes on with the launch config: to set it, if it
\* registers an app with one, or to remove it.
CommitApp(c) ==
    /\ job[c].at \in {"adding", "removing"}
    /\ job[c].step = 5
    /\ Commit(c)
    /\ \E next \in IF c = Server THEN {"ended"}
                   ELSE IF job[c].at = "removing" THEN {"launch_config"}
                   ELSE {"launch_config", "ended"} :
          job' = [job EXCEPT ![c] = IF next = "ended" THEN Ended
                                    ELSE [at |-> next, step |-> 1, app |-> @.app,
                                          content |-> @.content]]
    /\ serving' = (serving \/ c = Server)
    /\ UNCHANGED <<request, history>>

\* set_launch_config or remove_launch_config of a command.
WriteLaunchConfig(c) ==
    /\ job[c].at = "launch_config"
    /\ job[c].step = 1
    /\ WriteConfigs(c, IF job[c].content = None THEN Candidates(job[c].app)
                       ELSE {job[c].app})
    /\ job' = [job EXCEPT ![c].step = 2]
    /\ UNCHANGED <<db, serving, request, wrote, written, answered, rolledBack>>

CommitLaunchConfig(c) ==
    /\ job[c].at = "launch_config"
    /\ job[c].step = 2
    /\ Commit(c)
    /\ job' = [job EXCEPT ![c] = Ended]
    /\ UNCHANGED <<serving, request, history>>

\* A statement or a commit of a command fails (the database is locked for too
\* long, a row is there twice, a launch config has no command): the connection
\* is closed and the command ends.
FailCommand(c) ==
    /\ job[c].at \in {"adding", "removing", "launch_config"}
    /\ Discard(c)
    /\ job' = [job EXCEPT ![c] = Ended]
    /\ UNCHANGED <<db, serving, request, history>>

\* The start of the server fails at its own entry.  Nobody closes the connection:
\* it and its transaction, unless SQLite has rolled that back, stay.
StartFails ==
    /\ job[Server].at = "adding"
    /\ job' = [job EXCEPT ![Server] = Stuck]
    /\ Discard(Server) \/ UNCHANGED txn
    /\ UNCHANGED <<db, serving, request, history>>

\* The process of a command, or of a server that starts, is killed.
Kill(c) ==
    /\ job[c].at \notin {"new", "ended"}
    /\ Discard(c)
    /\ job' = [job EXCEPT ![c] = Ended]
    /\ UNCHANGED <<db, serving, request, history>>

\* The server ends, with storage.close or without.
StopServer ==
    /\ serving
    /\ serving' = FALSE
    /\ Discard(Server)
    /\ written' = {}
    /\ request' = [r \in Requests |->
                      IF request[r] = "written" THEN "ended" ELSE request[r]]
    /\ UNCHANGED <<db, job, writes, wrote, answered, rolledBack>>

-----------------------------------------------------------------------------
(***************************************************************************)
(* createLaunchConfig and deleteLaunchConfig of the admin API.             *)
(***************************************************************************)
ExecuteRequest(r) ==
    /\ serving
    /\ request[r] = "new"
    /\ \E a \in Apps : \E as \in {{a}, Candidates(a)} :
          /\ WriteConfigs(Server, as)
          /\ wrote' = [wrote EXCEPT ![r] = [apps |-> as, number |-> writes + 1]]
    /\ request' = [request EXCEPT ![r] = "written"]
    /\ written' = written \cup {r}
    /\ UNCHANGED <<db, job, serving, answered, rolledBack>>

\* Mutant: the request is answered and the commit is left to the next one.
AnswerUncommitted(r) ==
    /\ serving
    /\ request[r] = "written"
    /\ request' = [request EXCEPT ![r] = "ended"]
    /\ answered' = answered \cup {r}
    /\ UNCHANGED <<db, txn, job, serving, writes, wrote, written, rolledBack>>

\* The commit is that of the connection: it takes in what the other requests
\* have written, and is none at all if one of them, or SQLite, has ended the
\* transaction before.
CommitRequest(r) ==
    /\ serving
    /\ request[r] = "written"
    /\ Commit(Server)
    /\ request' = [request EXCEPT ![r] = "ended"]
    /\ written' = {}
    /\ answered' = answered \cup {r}
    /\ UNCHANGED <<job, serving, writes, wrote, rolledBack>>

\* SQLite rolls back what the requests have written.
RollBack ==
    /\ Discard(Server)
    /\ written' = {}
    /\ rolledBack' = rolledBack \cup written

\* The statement or the commit fails.  What was written stays in the open
\* transaction, for the next commit, or SQLite rolls all of it back.
FailRequest(r) ==
    /\ serving
    /\ request[r] \in {"new", "written"}
    /\ request' = [request EXCEPT ![r] = "ended"]
    /\ UNCHANGED <<txn, written, rolledBack>> \/ RollBack
    /\ UNCHANGED <<db, job, serving, writes, wrote, answered>>

\* A statement of the server that only reads fails.
ReadFails ==
    /\ serving
    /\ RollBack
    /\ UNCHANGED <<db, job, serving, request, writes, wrote, answered>>

-----------------------------------------------------------------------------
JobStep(c) ==
    \/ Initialized(c) \/ InitializeFails(c)
    \/ WriteTable(c) \/ CommitApp(c)
    \/ WriteLaunchConfig(c) \/ CommitLaunchConfig(c)
    \/ Kill(c)

Next ==
    \/ StartServer \/ StartFails \/ StopServer \/ ReadFails
    \/ \E c \in Commands : RunCommand(c) \/ FailCommand(c)
    \/ \E c \in Connections : JobStep(c)
    \/ \E r \in Requests :
          ExecuteRequest(r) \/ CommitRequest(r) \/ FailRequest(r)

Spec == Init /\ [][Next]_vars

-----------------------------------------------------------------------------
(***************************************************************************)
(* Properties.                                                             *)
(***************************************************************************)

\* Database, transactions and jobs hold the values they are meant to.
TypeOK ==
    /\ db \in Databases
    /\ txn \in [Connections -> Databases \cup {NoTxn}]
    /\ job \in [Connections ->
                  [at : {"new", "initializing", "adding", "removing",
                         "launch_config", "stuck", "ended"},
                   step : 1..5, app : Apps, content : Versions \cup {None}]]
    /\ serving \in BOOLEAN
    /\ request \in [Requests -> {"new", "written", "ended"}]
    /\ writes \in Nat
    /\ wrote \in [Requests -> [apps : SUBSET Apps, number : Nat]]
    /\ written \subseteq Requests
    /\ answered \subseteq Requests
    /\ rolledBack \subseteq Requests

\* Whatever command fails or dies where, and whatever the server commits in
\* between: an app's rows in the four tables belong together, or there are
\* none at all.
WholeApps ==
    \A t, u \in EntryTables, a \in Apps : db[t][a] = db[u][a]

\* A launch config that the admin API has answered for is in the database, or
\* there is what a later write made of it: whatever other requests on the
\* same connection, and commands on others, have begun, failed at or committed
\* in the meantime, and also when the server is gone.  The one exception is a
\* request whose write SQLite has rolled back, because another statement on the
\* connection failed, before the request's own commit.
AnsweredIsKept ==
    \A r \in answered \ rolledBack : \A a \in wrote[r].apps :
        db["launch_configs"][a] >= wrote[r].number
=============================================================================
