--------------------------- MODULE DirectoryProofs --------------------------
(***************************************************************************)
(* Theorems about AppDirectory, for any apps, commands and requests.       *)
(*                                                                         *)
(* WholeApps is not inductive.  What is, is EntryInv: one connection at    *)
(* most has an open transaction; unless its process is stuck, it differs   *)
(* from the database in the entry tables its job is through with and, for  *)
(* those apps that the job touches, in nothing but the job's content; and  *)
(* the server has no job of its own while it serves.                       *)
(*                                                                         *)
(* AnsweredIsKept is shown from two more parts: the writes of launch       *)
(* configs reach the database in the order of their numbers, and a         *)
(* request's write, until it commits and after, is in the database, in the *)
(* open transaction of the server, or rolled back by SQLite.               *)
(***************************************************************************)
EXTENDS AppDirectory, TLAPS

\* What the job of a connection has written of the entry tables so far.
Done(c) == {Order(c)[n] : n \in 1..(job[c].step - 1)}

Entries(c, t) ==
    [a \in Apps |-> IF a \in Touched(c) THEN job[c].content ELSE db[t][a]]

Writing(c) == job[c].at \in {"adding", "removing"}

\* The entry tables as connection c has them.
Progress(c) ==
    job[c].at # "stuck" =>
        \A t \in EntryTables :
            Seen(c)[t] = IF Writing(c) /\ t \in Done(c) THEN Entries(c, t)
                         ELSE db[t]

OneTxn == \A c, d \in Connections :
              txn[c] # NoTxn /\ txn[d] # NoTxn => c = d

ServingIsIdle == serving => job[Server].at = "ended"

\* A job that is past its first step has its transaction open.
StartedIsOpen ==
    \A c \in Connections :
        /\ Writing(c) /\ job[c].step > 1 => txn[c] # NoTxn
        /\ job[c].at = "initializing" => job[c].step = 1

EntryInv ==
    /\ TypeOK
    /\ WholeApps
    /\ OneTxn
    /\ \A c \in Connections : Progress(c)
    /\ StartedIsOpen
    /\ ServingIsIdle

\* Which write the launch config of an app comes from, in the database and as
\* connection c has it.
Stored(a) == db["launch_configs"][a]
Row(c, a) == Seen(c)["launch_configs"][a]

WritesInOrder ==
    \A c \in Connections, a \in Apps :
        /\ Stored(a) \in Nat /\ Row(c, a) \in Nat
        /\ Stored(a) <= Row(c, a) /\ Row(c, a) <= writes

InPlace(r) == \A a \in wrote[r].apps : wrote[r].number <= Stored(a)

UnderWay(r) ==
    /\ r \in written
    /\ \A a \in wrote[r].apps : wrote[r].number <= Row(Server, a)

RequestsTold ==
    /\ ~serving => written = {}
    /\ \A r \in answered : request[r] = "ended" /\ r \notin written
    /\ \A r \in written : request[r] # "new"
    /\ \A r \in Requests :
          request[r] = "written" \/ r \in answered =>
              r \in rolledBack \/ InPlace(r) \/ UnderWay(r)

Inv == EntryInv /\ WritesInOrder /\ RequestsTold

-----------------------------------------------------------------------------
(***************************************************************************)
(* Facts about the operators.                                              *)
(***************************************************************************)

\* Both orders go through the four entry tables.
LEMMA OrderCovers ==
    ASSUME NEW c \in Connections
    PROVE  /\ \A n \in 1..4 : Order(c)[n] \in EntryTables
           /\ EntryTables = {Order(c)[n] : n \in 1..4}
<1>1. CASE job[c].at = "adding"
  <2>1. Order(c) = <<"apps", "icons", "intents", "origins">>
    BY <1>1 DEF Order, AddOrder
  <2>2. /\ Order(c)[1] = "apps" /\ Order(c)[2] = "icons"
        /\ Order(c)[3] = "intents" /\ Order(c)[4] = "origins"
    BY <2>1
  <2>3. \A n \in 1..4 : n = 1 \/ n = 2 \/ n = 3 \/ n = 4
    BY SMT
  <2> QED
    BY <2>2, <2>3 DEF EntryTables
<1>2. CASE job[c].at # "adding"
  <2>1. Order(c) = <<"icons", "intents", "origins", "apps">>
    BY <1>2 DEF Order, RemoveOrder
  <2>2. /\ Order(c)[1] = "icons" /\ Order(c)[2] = "intents"
        /\ Order(c)[3] = "origins" /\ Order(c)[4] = "apps"
    BY <2>1
  <2>3. \A n \in 1..4 : n = 1 \/ n = 2 \/ n = 3 \/ n = 4
    BY SMT
  <2> QED
    BY <2>2, <2>3 DEF EntryTables
<1> QED
  BY <1>1, <1>2

LEMMA SeenIsDatabase ==
    ASSUME TypeOK, NEW c \in Connections
    PROVE  Seen(c) \in Databases
  BY DEF TypeOK, Seen

\* What a write leaves behind: the transaction of the one connection, with
\* one table changed.
LEMMA WriteResult ==
    ASSUME TypeOK, NEW c \in Connections, NEW t \in Tables, NEW as,
           NEW content \in Contents, Write(c, t, as, content)
    PROVE  /\ txn' \in [Connections -> Databases \cup {NoTxn}]
           /\ txn'[c] # NoTxn
           /\ txn'[c][t] = [a \in Apps |-> IF a \in as THEN content
                                           ELSE Seen(c)[t][a]]
           /\ \A u \in Tables \ {t} : txn'[c][u] = Seen(c)[u]
           /\ \A d \in Connections \ {c} : txn'[d] = NoTxn /\ txn[d] = NoTxn
<1> DEFINE row == [a \in Apps |-> IF a \in as THEN content ELSE Seen(c)[t][a]]
<1> DEFINE new == [Seen(c) EXCEPT ![t] = row]
<1>1. Seen(c) \in Databases
  BY SeenIsDatabase
<1>2. Seen(c)[t] \in [Apps -> Contents]
  BY <1>1 DEF Databases
<1>3. row \in [Apps -> Contents]
  BY <1>2
<1>4. new \in Databases
  BY <1>1, <1>3 DEF Databases
<1>5. new[t] = row /\ \A u \in Tables \ {t} : new[u] = Seen(c)[u]
  BY <1>1 DEF Databases
<1>6. txn' = [txn EXCEPT ![c] = new]
  BY DEF Write
<1>7. txn \in [Connections -> Databases \cup {NoTxn}]
  BY DEF TypeOK
<1>8. txn'[c] = new /\ \A d \in Connections \ {c} : txn'[d] = txn[d]
  BY <1>6, <1>7
<1>9. \A d \in Connections \ {c} : txn[d] = NoTxn
  BY DEF Write, MayWrite
<1>10. new # NoTxn
  BY <1>4, NoTxnIsNoDatabase
<1>11. txn' \in [Connections -> Databases \cup {NoTxn}]
  BY <1>4, <1>6, <1>7
<1> QED
  BY <1>5, <1>8, <1>9, <1>10, <1>11

\* A connection that nothing happens to, as far as the entry tables go.
LEMMA ProgressKept ==
    ASSUME NEW d, Progress(d), job'[d] = job[d],
           \A t \in EntryTables : Seen(d)'[t] = Seen(d)[t] /\ db'[t] = db[t]
    PROVE  Progress(d)'
<1>1. /\ Writing(d)' = Writing(d)
      /\ Done(d)' = Done(d)
      /\ Touched(d)' = Touched(d)
  BY DEF Writing, Done, Order, Touched
<1>2. \A t \in EntryTables : Entries(d, t)' = Entries(d, t)
  BY <1>1 DEF Entries
<1> QED
  BY <1>1, <1>2 DEF Progress

\* A connection that has not begun with the entry tables sees the database's.
LEMMA DoneNothing ==
    ASSUME NEW d, Writing(d) => job[d].step = 1
    PROVE  ~(\E t \in EntryTables : Writing(d) /\ t \in Done(d))
<1>1. ASSUME Writing(d) PROVE Done(d) = {}
  <2>1. job[d].step - 1 = 0
    BY <1>1
  <2>2. 1..0 = {}
    BY SMT
  <2> QED
    BY <2>1, <2>2 DEF Done
<1> QED
  BY <1>1

LEMMA SeenOfNothing ==
    ASSUME NEW d, Progress(d), Writing(d) => job[d].step = 1,
           job[d].at # "stuck"
    PROVE  \A t \in EntryTables : Seen(d)[t] = db[t]
  BY DoneNothing DEF Progress

\* A connection that has written nothing.
LEMMA ProgressOfNothing ==
    ASSUME NEW d, Writing(d)' => job'[d].step = 1,
           \A t \in EntryTables : Seen(d)'[t] = db'[t]
    PROVE  Progress(d)'
<1>1. ASSUME Writing(d)' PROVE Done(d)' = {}
  <2>1. job'[d].step - 1 = 0
    BY <1>1
  <2>2. 1..0 = {}
    BY SMT
  <2> QED
    BY <2>1, <2>2 DEF Done
<1> QED
  BY <1>1 DEF Progress

-----------------------------------------------------------------------------
(***************************************************************************)
(* Type correctness.                                                       *)
(***************************************************************************)
Jobs == [at : {"new", "initializing", "adding", "removing", "launch_config",
               "stuck", "ended"},
         step : 1..5, app : Apps, content : Versions \cup {None}]

LEMMA EndedIsJob == Ended \in Jobs /\ Stuck \in Jobs
  BY SystemIsApp DEF Ended, Stuck, Jobs

LEMMA InitTypeOK == Init => TypeOK
<1> SUFFICES ASSUME Init PROVE TypeOK
  OBVIOUS
<1>1. Empty \in Databases
  BY DEF Empty, Databases, Contents
<1>2. job \in [Connections -> Jobs]
  <2>1. [Ended EXCEPT !.at = "new"] \in Jobs
    BY EndedIsJob DEF Jobs
  <2> QED
    BY <2>1, EndedIsJob DEF Init
<1> QED
  BY <1>1, <1>2 DEF Init, TypeOK, Jobs

\* What the two kinds of step do to the types of database and transactions.
LEMMA CommitTypes ==
    ASSUME TypeOK, NEW c \in Connections, Commit(c)
    PROVE  /\ db' \in Databases
           /\ txn' \in [Connections -> Databases \cup {NoTxn}]
  BY SeenIsDatabase DEF Commit, TypeOK

LEMMA CloseTypes ==
    ASSUME TypeOK, NEW c \in Connections, txn' = [txn EXCEPT ![c] = NoTxn]
    PROVE  txn' \in [Connections -> Databases \cup {NoTxn}]
  BY DEF TypeOK

\* The number of the next write of launch configs.
LEMMA NextNumber ==
    ASSUME TypeOK
    PROVE  writes \in Nat /\ writes + 1 \in Nat /\ writes + 1 \in Contents
<1>1. writes \in Nat
  BY DEF TypeOK
<1>2. writes + 1 \in Nat
  BY <1>1
<1>3. Nat \subseteq Contents
  BY DEF Contents
<1> QED
  BY <1>1, <1>2, <1>3

\* The launch configs are none of an entry's tables.
LEMMA TablesDisjoint ==
    "launch_configs" \in Tables \ EntryTables /\ EntryTables \subseteq Tables
  BY DEF Tables, EntryTables

\* A step that changes one job.
LEMMA JobTypes ==
    ASSUME TypeOK, NEW c \in Connections, NEW j \in Jobs,
           job' = [job EXCEPT ![c] = j]
    PROVE  job' \in [Connections -> Jobs]
  BY DEF TypeOK, Jobs

LEMMA StepTypeOK == TypeOK /\ [Next]_vars => TypeOK'
<1> SUFFICES ASSUME TypeOK, [Next]_vars PROVE TypeOK'
  OBVIOUS
<1>s. Server \in Connections /\ Commands \subseteq Connections
  BY DEF Connections
<1>j. job \in [Connections -> Jobs]
  BY DEF TypeOK, Jobs
<1>0. CASE UNCHANGED vars
  BY <1>0 DEF TypeOK, vars, history
<1>1. ASSUME NEW c \in Connections, NEW a \in Apps,
             NEW content \in Versions \cup {None}, Start(c, a, content)
      PROVE  TypeOK'
  <2> DEFINE j == [at |-> "initializing", step |-> 1, app |-> a,
                   content |-> content]
  <2>1. j \in Jobs
    BY DEF Jobs
  <2>2. job' \in [Connections -> Jobs]
    BY <1>1, <2>1, JobTypes DEF Start
  <2> QED
    BY <1>1, <2>2 DEF Start, TypeOK, Jobs, history
<1>2. CASE StartServer
  BY <1>1, <1>2, <1>s, SystemIsApp DEF StartServer
<1>3. CASE StopServer
  BY <1>3, <1>s, CloseTypes DEF StopServer, Discard, TypeOK
<1>4. ASSUME NEW c \in Commands, RunCommand(c)
      PROVE  TypeOK'
  BY <1>1, <1>4, <1>s DEF RunCommand
<1>i. ASSUME NEW c \in Connections, Initialized(c) \/ InitializeFails(c)
      PROVE  TypeOK'
  <2>1. job[c] \in Jobs
    BY <1>j
  <2>2. \E j \in Jobs : job' = [job EXCEPT ![c] = j]
    <3>1. CASE Initialized(c)
      <4> DEFINE at == IF job[c].content = None THEN "removing" ELSE "adding"
      <4>1. job' = [job EXCEPT ![c] = [job[c] EXCEPT !.at = at]]
        BY <3>1, <1>j DEF Initialized
      <4>2. [job[c] EXCEPT !.at = at] \in Jobs
        BY <2>1 DEF Jobs
      <4> QED
        BY <4>1, <4>2
    <3>2. CASE InitializeFails(c)
      BY <3>2, EndedIsJob DEF InitializeFails
    <3> QED
      BY <1>i, <3>1, <3>2
  <2>3. job' \in [Connections -> Jobs]
    BY <2>2, JobTypes
  <2> QED
    BY <1>i, <2>3 DEF Initialized, InitializeFails, TypeOK, Jobs, history
<1>5. ASSUME NEW c \in Connections, WriteTable(c)
      PROVE  TypeOK'
  <2>1. /\ job[c] \in Jobs
        /\ job[c].step \in 1..4
        /\ job[c].content \in Contents
    BY <1>5, <1>j DEF WriteTable, Jobs, Contents
  <2>2. Order(c)[job[c].step] \in Tables
    BY <2>1, OrderCovers, TablesDisjoint
  <2>3. txn' \in [Connections -> Databases \cup {NoTxn}]
    <3> DEFINE t == Order(c)[job[c].step]
    <3>1. Write(c, t, Touched(c), job[c].content)
      BY <1>5 DEF WriteTable
    <3> HIDE DEF t
    <3> QED
      BY <2>1, <2>2, <3>1, WriteResult DEF t
  <2>4. [job[c] EXCEPT !.step = @ + 1] \in Jobs
    BY <2>1 DEF Jobs
  <2>5. job' = [job EXCEPT ![c] = [job[c] EXCEPT !.step = @ + 1]]
    BY <1>5, <1>j DEF WriteTable
  <2>6. job' \in [Connections -> Jobs]
    BY <2>4, <2>5, JobTypes
  <2> QED
    BY <1>5, <2>3, <2>6 DEF WriteTable, TypeOK, Jobs, history
<1>6. ASSUME NEW c \in Connections, CommitApp(c)
      PROVE  TypeOK'
  <2>1. /\ db' \in Databases
        /\ txn' \in [Connections -> Databases \cup {NoTxn}]
    BY <1>6, CommitTypes DEF CommitApp
  <2>2. job' \in [Connections -> Jobs]
    <3>1. PICK next \in {"launch_config", "ended"} :
              job' = [job EXCEPT ![c] = IF next = "ended" THEN Ended
                                        ELSE [at |-> next, step |-> 1, app |-> @.app,
                                              content |-> @.content]]
      BY <1>6 DEF CommitApp
    <3>2. job[c] \in Jobs
      BY <1>j
    <3> DEFINE j == IF next = "ended" THEN Ended
                    ELSE [at |-> next, step |-> 1, app |-> job[c].app,
                          content |-> job[c].content]
    <3>3. j \in Jobs
      BY <3>2, EndedIsJob DEF Jobs
    <3>4. job' = [job EXCEPT ![c] = j]
      BY <1>j, <3>1
    <3> QED
      BY <3>3, <3>4, JobTypes
  <2> QED
    BY <1>6, <2>1, <2>2 DEF CommitApp, TypeOK, Jobs, history
<1>7. ASSUME NEW c \in Connections, WriteLaunchConfig(c)
      PROVE  TypeOK'
  <2>1. job[c] \in Jobs
    BY <1>j
  <2>2. \E as : /\ writes + 1 \in Contents /\ writes' \in Nat
                /\ Write(c, "launch_configs", as, writes + 1)
    BY <1>7 DEF WriteLaunchConfig, WriteConfigs, Contents, TypeOK
  <2>3. txn' \in [Connections -> Databases \cup {NoTxn}]
    BY <2>2, WriteResult, TablesDisjoint
  <2>4. [job[c] EXCEPT !.step = 2] \in Jobs
    BY <2>1 DEF Jobs
  <2>5. job' \in [Connections -> Jobs]
    <3>1. job' = [job EXCEPT ![c] = [job[c] EXCEPT !.step = 2]]
      BY <1>7, <1>j DEF WriteLaunchConfig
    <3> QED
      BY <2>4, <3>1, JobTypes
  <2> QED
    BY <1>7, <2>2, <2>3, <2>5 DEF WriteLaunchConfig, TypeOK, Jobs
<1>8. ASSUME NEW c \in Connections, CommitLaunchConfig(c)
      PROVE  TypeOK'
  BY <1>8, CommitTypes, JobTypes, EndedIsJob
     DEF CommitLaunchConfig, TypeOK, Jobs, history
<1>9. ASSUME NEW c \in Connections,
             Kill(c) \/ FailCommand(c) \/ (c = Server /\ StartFails)
      PROVE  TypeOK'
  <2>1. txn' \in [Connections -> Databases \cup {NoTxn}]
    BY <1>9, CloseTypes DEF Kill, FailCommand, StartFails, Discard, TypeOK
  <2>2. job' \in [Connections -> Jobs]
    BY <1>9, JobTypes, EndedIsJob DEF Kill, FailCommand, StartFails
  <2> QED
    BY <1>9, <2>1, <2>2
       DEF Kill, FailCommand, StartFails, TypeOK, Jobs, history
<1>10. ASSUME NEW r \in Requests, ExecuteRequest(r)
       PROVE  TypeOK'
  <2>1. PICK as \in SUBSET Apps :
            /\ Write(Server, "launch_configs", as, writes + 1)
            /\ writes' = writes + 1
            /\ wrote' = [wrote EXCEPT ![r] = [apps |-> as, number |-> writes + 1]]
    BY <1>10, BaseIsApp DEF ExecuteRequest, WriteConfigs, Candidates
  <2>2. txn' \in [Connections -> Databases \cup {NoTxn}]
    <3>1. writes + 1 \in Contents
      BY DEF TypeOK, Contents
    <3> QED
      BY <2>1, <3>1, <1>s, WriteResult, TablesDisjoint
  <2>3. /\ writes' \in Nat
        /\ wrote' \in [Requests -> [apps : SUBSET Apps, number : Nat]]
    <3> DEFINE w == [apps |-> as, number |-> writes + 1]
    <3>1. writes' \in Nat /\ w \in [apps : SUBSET Apps, number : Nat]
      <4>1. writes + 1 \in Nat /\ writes' = writes + 1
        BY <2>1, NextNumber
      <4> QED
        BY <4>1
    <3>2. wrote' = [wrote EXCEPT ![r] = w]
      BY <2>1
    <3> HIDE DEF w
    <3> QED
      BY <3>1, <3>2 DEF TypeOK
  <2> QED
    BY <1>10, <2>2, <2>3 DEF ExecuteRequest, TypeOK
<1>11. ASSUME NEW r \in Requests, CommitRequest(r)
       PROVE  TypeOK'
  BY <1>11, <1>s, CommitTypes DEF CommitRequest, TypeOK
<1>12. ASSUME ReadFails \/ \E r \in Requests : FailRequest(r)
       PROVE  TypeOK'
  <2>1. txn' \in [Connections -> Databases \cup {NoTxn}]
    BY <1>12, <1>s, CloseTypes
       DEF FailRequest, ReadFails, RollBack, Discard, TypeOK
  <2>2. written' \subseteq Requests /\ rolledBack' \subseteq Requests
    BY <1>12 DEF FailRequest, ReadFails, RollBack, TypeOK
  <2>3. request' \in [Requests -> {"new", "written", "ended"}]
    BY <1>12 DEF FailRequest, ReadFails, TypeOK
  <2> QED
    BY <1>12, <2>1, <2>2, <2>3 DEF FailRequest, ReadFails, TypeOK
<1> QED
  BY <1>0, <1>2, <1>3, <1>4, <1>i, <1>5, <1>6, <1>7, <1>8, <1>9, <1>10, <1>11,
     <1>12, <1>s DEF Next, JobStep

-----------------------------------------------------------------------------
(***************************************************************************)
(* The entry tables, one lemma for each kind of step.  TypeOK' is          *)
(* StepTypeOK's.                                                           *)
(***************************************************************************)
LEMMA InitEntries == Init => EntryInv
<1> SUFFICES ASSUME Init PROVE EntryInv
  OBVIOUS
<1>1. TypeOK
  BY InitTypeOK
<1>2. /\ \A c \in Connections :
            txn[c] = NoTxn /\ ~Writing(c) /\ job[c].at # "initializing"
      /\ serving = FALSE
  BY DEF Init, Writing, Ended
<1>3. WholeApps
  BY DEF WholeApps, Init, Empty, EntryTables, Tables
<1>4. \A c \in Connections : Progress(c)
  BY <1>2 DEF Progress, Seen
<1>5. ServingIsIdle /\ StartedIsOpen
  BY <1>2 DEF ServingIsIdle, StartedIsOpen
<1> QED
  BY <1>1, <1>2, <1>3, <1>4, <1>5 DEF EntryInv, OneTxn

\* A job is about to write, or is stuck.  Its connection may have a transaction
\* open, but nothing of the entry tables in it, or nothing that counts.
LEMMA JobInv ==
    ASSUME EntryInv, TypeOK', NEW c \in Connections, ~Writing(c),
           NEW j, job' = [job EXCEPT ![c] = j],
           \/ j.at = "stuck"
           \/ j.at \in {"initializing", "adding", "removing"} /\ j.step = 1,
           job[c].at # "stuck", c = Server => ~serving,
           UNCHANGED <<db, txn, serving>>
    PROVE  EntryInv'
<1>2. /\ job'[c] = j
      /\ \A d \in Connections \ {c} : job'[d] = job[d]
  BY DEF EntryInv, TypeOK
<1>3. \A d \in Connections : Seen(d)' = Seen(d)
  BY DEF Seen
<1>4. ASSUME NEW d \in Connections PROVE Progress(d)'
  <2>1. CASE d = c /\ j.at = "stuck"
    BY <1>2, <2>1 DEF Progress
  <2>2. CASE d = c /\ j.at # "stuck"
    <3>1. \A t \in EntryTables : Seen(c)'[t] = db'[t]
      BY <1>3, SeenOfNothing DEF EntryInv
    <3> QED
      BY <1>2, <2>2, <3>1, ProgressOfNothing
  <2>3. CASE d # c
    BY <1>2, <1>3, <2>3, ProgressKept DEF EntryInv
  <2> QED
    BY <2>1, <2>2, <2>3
<1>5. StartedIsOpen'
  <2>1. ASSUME NEW d \in Connections, d # c
        PROVE  /\ Writing(d)' /\ job'[d].step > 1 => txn'[d] # NoTxn
               /\ job'[d].at = "initializing" => job'[d].step = 1
    BY <1>2, <2>1 DEF EntryInv, StartedIsOpen, Writing
  <2>2. /\ Writing(c)' => job'[c].step = 1
        /\ job'[c].at = "initializing" => job'[c].step = 1
    BY <1>2 DEF Writing
  <2>3. ~(1 > 1)
    BY SMT
  <2> QED
    BY <2>1, <2>2, <2>3 DEF StartedIsOpen
<1>6. ServingIsIdle'
  BY <1>2 DEF EntryInv, ServingIsIdle, Connections
<1> QED
  BY <1>4, <1>5, <1>6 DEF EntryInv, WholeApps, OneTxn

\* The server's start fails at its own entry and leaves its transaction open.
LEMMA StuckInv ==
    ASSUME EntryInv, TypeOK', NEW c \in Connections,
           job' = [job EXCEPT ![c] = Stuck], c = Server => ~serving,
           UNCHANGED <<db, txn, serving>>
    PROVE  EntryInv'
<1>2. /\ job'[c].at = "stuck"
      /\ \A d \in Connections \ {c} : job'[d] = job[d]
  BY DEF EntryInv, TypeOK, Stuck, Ended
<1>3. \A d \in Connections : Seen(d)' = Seen(d)
  BY DEF Seen
<1>4. ASSUME NEW d \in Connections PROVE Progress(d)'
  <2>1. CASE d = c
    BY <1>2, <2>1 DEF Progress
  <2>2. CASE d # c
    BY <1>2, <1>3, <2>2, ProgressKept DEF EntryInv
  <2> QED
    BY <2>1, <2>2
<1>5. StartedIsOpen'
  BY <1>2 DEF EntryInv, StartedIsOpen, Writing
<1>6. ServingIsIdle'
  BY <1>2 DEF EntryInv, ServingIsIdle, Connections
<1> QED
  BY <1>4, <1>5, <1>6 DEF EntryInv, WholeApps, OneTxn

\* A connection that is through with the entry tables, or has not begun.
Idle(c) == job[c].at \in {"launch_config", "ended"}

\* A connection closes, in the middle of a job or, the server's, without one.
LEMMA CloseInv ==
    ASSUME EntryInv, NEW c \in Connections,
           db' = db, txn' = [txn EXCEPT ![c] = NoTxn],
           ~Writing(c)', job'[c].at # "initializing",
           \A d \in Connections \ {c} : job'[d] = job[d]
    PROVE  /\ WholeApps'
           /\ OneTxn'
           /\ \A d \in Connections : Progress(d)'
           /\ StartedIsOpen'
<1>1. txn'[c] = NoTxn /\ \A d \in Connections \ {c} : txn'[d] = txn[d]
  BY DEF EntryInv, TypeOK
<1>2. ASSUME NEW d \in Connections PROVE Progress(d)'
  <2>1. CASE d = c
    BY <1>1, <2>1, ProgressOfNothing DEF Seen, Writing, Idle
  <2>2. CASE d # c
    BY <1>1, <2>2, ProgressKept DEF EntryInv, Seen
  <2> QED
    BY <2>1, <2>2
<1>3. StartedIsOpen'
  BY <1>1 DEF EntryInv, StartedIsOpen, Writing, Idle
<1> QED
  BY <1>1, <1>2, <1>3 DEF EntryInv, WholeApps, OneTxn

\* A write to the launch configs leaves the entry tables alone.
LEMMA WriteConfigsInv ==
    ASSUME EntryInv, NEW c \in Connections, Idle(c), Idle(c)', db' = db,
           NEW as, WriteConfigs(c, as),
           \A d \in Connections \ {c} : job'[d] = job[d]
    PROVE  /\ WholeApps'
           /\ OneTxn'
           /\ \A d \in Connections : Progress(d)'
           /\ StartedIsOpen'
<1>1. /\ txn'[c] # NoTxn
      /\ \A u \in Tables \ {"launch_configs"} : txn'[c][u] = Seen(c)[u]
      /\ \A d \in Connections \ {c} : txn'[d] = NoTxn /\ txn[d] = NoTxn
  <2> DEFINE number == writes + 1
  <2>1. number \in Contents /\ Write(c, "launch_configs", as, number)
    BY NextNumber, Zenon DEF WriteConfigs, EntryInv
  <2> HIDE DEF number
  <2> QED
    BY <2>1, WriteResult, TablesDisjoint DEF EntryInv
<1>2. ASSUME NEW d \in Connections PROVE Progress(d)'
  <2>1. CASE d = c
    <3>1. \A t \in EntryTables : Seen(c)[t] = db[t]
      BY SeenOfNothing DEF EntryInv, Writing, Idle
    <3>2. \A t \in EntryTables : Seen(c)'[t] = db'[t]
      BY <1>1, <3>1, TablesDisjoint DEF Seen
    <3> QED
      BY <2>1, <3>2, ProgressOfNothing DEF Writing, Idle
  <2>2. CASE d # c
    BY <1>1, <2>2, ProgressKept DEF EntryInv, Seen
  <2> QED
    BY <2>1, <2>2
<1>3. StartedIsOpen'
  BY <1>1 DEF EntryInv, StartedIsOpen, Writing, Idle
<1> QED
  BY <1>1, <1>2, <1>3 DEF EntryInv, WholeApps, OneTxn

\* A commit by a connection that has touched the launch configs only.
LEMMA CommitConfigsInv ==
    ASSUME EntryInv, NEW c \in Connections, Idle(c), Idle(c)', Commit(c),
           \A d \in Connections \ {c} : job'[d] = job[d]
    PROVE  /\ WholeApps'
           /\ OneTxn'
           /\ \A d \in Connections : Progress(d)'
           /\ StartedIsOpen'
<1>1. txn'[c] = NoTxn /\ \A d \in Connections \ {c} : txn'[d] = txn[d]
  BY DEF Commit, EntryInv, TypeOK
<1>2. \A t \in EntryTables : db'[t] = db[t]
  BY SeenOfNothing DEF Commit, EntryInv, Writing, Idle
<1>3. ASSUME NEW d \in Connections PROVE Progress(d)'
  <2>1. CASE d = c
    BY <1>1, <2>1, ProgressOfNothing DEF Seen, Writing, Idle
  <2>2. CASE d # c
    <3>1. \A t \in EntryTables : Seen(d)'[t] = Seen(d)[t]
      BY <1>1, <1>2, <2>2 DEF Seen
    <3> QED
      BY <1>2, <2>2, <3>1, ProgressKept DEF EntryInv
  <2> QED
    BY <2>1, <2>2
<1>4. StartedIsOpen'
  BY <1>1 DEF EntryInv, StartedIsOpen, Writing, Idle
<1>5. WholeApps'
  BY <1>2 DEF EntryInv, WholeApps
<1> QED
  BY <1>1, <1>3, <1>4, <1>5 DEF EntryInv, OneTxn

\* A job writes the next of the four tables.
LEMMA WriteTableInv ==
    ASSUME EntryInv, TypeOK', NEW c \in Connections, WriteTable(c)
    PROVE  EntryInv'
<1> DEFINE u == Order(c)[job[c].step]
<1>1. /\ Writing(c) /\ job[c].step \in 1..4 /\ job[c].content \in Contents
      /\ job[c].at \in {"adding", "removing"}
      /\ Write(c, u, Touched(c), job[c].content)
      /\ job' = [job EXCEPT ![c].step = @ + 1]
      /\ UNCHANGED <<db, serving, request>>
  BY DEF WriteTable, Writing, EntryInv, TypeOK, Contents
<1>2. u \in EntryTables /\ u \in Tables
  BY <1>1, OrderCovers, TablesDisjoint
<1>3. /\ txn'[c] # NoTxn
      /\ txn'[c][u] = [a \in Apps |-> IF a \in Touched(c) THEN job[c].content
                                      ELSE Seen(c)[u][a]]
      /\ \A t \in Tables \ {u} : txn'[c][t] = Seen(c)[t]
      /\ \A d \in Connections \ {c} : txn'[d] = NoTxn /\ txn[d] = NoTxn
  <2> HIDE DEF u
  <2> QED
    BY <1>1, <1>2, WriteResult DEF EntryInv
<1>4. /\ job'[c].at = job[c].at /\ job'[c].app = job[c].app
      /\ job'[c].content = job[c].content /\ job'[c].step = job[c].step + 1
      /\ \A d \in Connections \ {c} : job'[d] = job[d]
  BY <1>1 DEF EntryInv, TypeOK
<1>5. /\ Writing(c)' /\ Order(c)' = Order(c) /\ Touched(c)' = Touched(c)
      /\ \A t \in EntryTables : Entries(c, t)' = Entries(c, t)
  BY <1>1, <1>4 DEF Writing, Order, Touched, Entries
<1>6. Done(c)' = Done(c) \cup {u}
  <2>1. 1..(job'[c].step - 1) = (1..(job[c].step - 1)) \cup {job[c].step}
    BY <1>1, <1>4
  <2> QED
    BY <1>5, <2>1 DEF Done
<1> HIDE DEF u
<1>7. Progress(c)'
  <2>1. Seen(c)' = txn'[c]
    BY <1>3 DEF Seen
  <2>0. job[c].at # "stuck"
    BY <1>1
  <2>2. Seen(c)[u] = Entries(c, u) \/ Seen(c)[u] = db[u]
    BY <1>2, <2>0 DEF EntryInv, Progress
  <2>3. txn'[c][u] = Entries(c, u)
    BY <1>3, <2>2 DEF Entries
  <2>4. \A t \in EntryTables \ {u} :
            txn'[c][t] = IF t \in Done(c) THEN Entries(c, t) ELSE db[t]
    BY <1>1, <1>3, <2>0, TablesDisjoint DEF EntryInv, Progress
  <2>5. \A t \in EntryTables :
            txn'[c][t] = IF t \in Done(c)' THEN Entries(c, t)' ELSE db'[t]
    BY <1>1, <1>5, <1>6, <2>3, <2>4
  <2> QED
    BY <1>5, <2>1, <2>5 DEF Progress
<1>8. ASSUME NEW d \in Connections PROVE Progress(d)'
  <2>1. CASE d # c
    BY <1>1, <1>3, <1>4, <2>1, ProgressKept DEF EntryInv, Seen
  <2> QED
    BY <1>7, <2>1
<1>9. StartedIsOpen'
  <2>1. ASSUME NEW d \in Connections, d # c
        PROVE  /\ Writing(d)' /\ job'[d].step > 1 => txn'[d] # NoTxn
               /\ job'[d].at = "initializing" => job'[d].step = 1
    BY <1>3, <1>4, <2>1 DEF EntryInv, StartedIsOpen, Writing
  <2>2. txn'[c] # NoTxn /\ job'[c].at # "initializing"
    BY <1>1, <1>3, <1>4
  <2> QED
    BY <2>1, <2>2 DEF StartedIsOpen
<1>10. ServingIsIdle'
  BY <1>1, <1>4 DEF EntryInv, ServingIsIdle, Writing, Connections
<1>11. OneTxn'
  BY <1>3 DEF OneTxn
<1> QED
  BY <1>1, <1>8, <1>9, <1>10, <1>11 DEF EntryInv, WholeApps

\* A job that is through with the four tables commits them together, and
\* nobody else has written anything.
LEMMA CommitAppInv ==
    ASSUME EntryInv, TypeOK', NEW c \in Connections, CommitApp(c)
    PROVE  EntryInv'
<1>1. /\ Writing(c) /\ job[c].step = 5 /\ Commit(c)
      /\ serving' = (serving \/ c = Server)
      /\ UNCHANGED <<request>>
  BY DEF CommitApp, Writing
<1>2. ~Writing(c)' /\ \A d \in Connections \ {c} : job'[d] = job[d]
  BY DEF CommitApp, EntryInv, TypeOK, Writing, Ended
<1>3. txn'[c] = NoTxn /\ \A d \in Connections \ {c} : txn'[d] = NoTxn
  BY <1>1 DEF Commit, EntryInv, TypeOK, OneTxn, StartedIsOpen
<1>4. \A t \in EntryTables : db'[t] = Entries(c, t)
  <2>1. Done(c) = EntryTables
    <3>1. job[c].step - 1 = 4
      BY <1>1
    <3> QED
      BY <3>1, OrderCovers DEF Done
  <2>2. job[c].at # "stuck"
    BY <1>1 DEF Writing
  <2> QED
    BY <1>1, <2>1, <2>2 DEF Commit, EntryInv, Progress
<1>5. WholeApps'
  <2>1. \A t \in EntryTables, a \in Apps :
            db'[t][a] = IF a \in Touched(c) THEN job[c].content ELSE db[t][a]
    BY <1>4 DEF Entries
  <2>2. WholeApps
    BY DEF EntryInv
  <2> QED
    BY <2>1, <2>2 DEF WholeApps
<1>6. ASSUME NEW d \in Connections PROVE Writing(d)' => job'[d].step = 1
  <2>1. CASE d # c
    <3>1. txn[d] = NoTxn
      BY <1>1, <2>1 DEF EntryInv, OneTxn, StartedIsOpen
    <3> QED
      BY <1>2, <2>1, <3>1 DEF EntryInv, TypeOK, StartedIsOpen, Writing
  <2> QED
    BY <1>2, <2>1
<1>7. ASSUME NEW d \in Connections PROVE Progress(d)'
  <2>1. \A t \in EntryTables : Seen(d)'[t] = db'[t]
    BY <1>3 DEF Seen
  <2> QED
    BY <1>6, <2>1, ProgressOfNothing
<1>8. StartedIsOpen'
  <2>1. ASSUME NEW d \in Connections, Writing(d)', job'[d].step > 1
        PROVE  txn'[d] # NoTxn
    <3>1. job'[d].step = 1
      BY <1>6, <2>1
    <3> QED
      BY <2>1, <3>1
  <2>2. job'[c].at # "initializing"
    BY DEF CommitApp, EntryInv, TypeOK, Ended
  <2>3. \A d \in Connections : job'[d].at = "initializing" => job'[d].step = 1
    BY <1>2, <2>2 DEF EntryInv, StartedIsOpen
  <2> QED
    BY <2>1, <2>3 DEF StartedIsOpen
<1>9. ServingIsIdle'
  <2>1. c = Server => job'[Server] = Ended
    BY DEF CommitApp, EntryInv, TypeOK, Connections
  <2>2. c # Server => job'[Server] = job[Server]
    BY <1>2 DEF Connections
  <2>3. serving' => serving \/ c = Server
    BY <1>1
  <2> QED
    BY <2>1, <2>2, <2>3 DEF EntryInv, ServingIsIdle, Ended
<1> QED
  BY <1>1, <1>3, <1>5, <1>7, <1>8, <1>9 DEF EntryInv, OneTxn

LEMMA StepEntries == EntryInv /\ [Next]_vars => EntryInv'
<1> SUFFICES ASSUME EntryInv, [Next]_vars PROVE EntryInv'
  OBVIOUS
<1>t. TypeOK'
  BY StepTypeOK DEF EntryInv
<1>s. Server \in Connections /\ Commands \subseteq Connections /\ Server \notin Commands
  BY ServerIsNoCommand DEF Connections
<1>0. ASSUME UNCHANGED <<db, txn, job, serving>> PROVE EntryInv'
  <2>1. \A d \in Connections : Progress(d)'
    BY <1>0, ProgressKept DEF EntryInv, Seen
  <2> QED
    BY <1>0, <1>t, <2>1
       DEF EntryInv, WholeApps, OneTxn, StartedIsOpen, ServingIsIdle, Writing
<1>1. ASSUME NEW c \in Connections, job[c].at \in {"new", "ended"},
             c = Server => ~serving, NEW a, NEW content, Start(c, a, content)
      PROVE  EntryInv'
  BY <1>1, <1>t, JobInv DEF Start, Writing
<1>2. ASSUME NEW c \in Connections, Initialized(c) \/ InitializeFails(c)
      PROVE  EntryInv'
  <2>1. /\ job[c].at = "initializing" /\ job[c].step = 1
        /\ c = Server => ~serving
        /\ UNCHANGED <<db, txn, serving>>
    BY <1>2 DEF Initialized, InitializeFails, EntryInv, StartedIsOpen,
                ServingIsIdle
  <2>2. \E at \in {"adding", "removing"} :
           \/ job' = [job EXCEPT ![c] = [job[c] EXCEPT !.at = at]]
           \/ job' = [job EXCEPT ![c] = Stuck]
    BY <1>2 DEF Initialized, InitializeFails, EntryInv, TypeOK
  <2>3. \A at \in {"adding", "removing"} :
            [job[c] EXCEPT !.at = at].at = at /\ [job[c] EXCEPT !.at = at].step = 1
    BY <2>1 DEF EntryInv, TypeOK
  <2> QED
    BY <1>t, <2>1, <2>2, <2>3, JobInv, StuckInv DEF Writing
<1>3. ASSUME NEW c \in Connections, Discard(c), db' = db,
             job' = job \/ job' = [job EXCEPT ![c] = Ended]
                       \/ job' = [job EXCEPT ![c] = Stuck],
             job' = job => job[c].at = "ended",
             c = Server /\ job' # job => ~serving,
             serving' \in {serving, FALSE}
      PROVE  EntryInv'
  <2>1. /\ ~Writing(c)' /\ job'[c].at # "initializing"
        /\ \A d \in Connections \ {c} : job'[d] = job[d]
    BY <1>3 DEF EntryInv, TypeOK, Writing, Ended, Stuck
  <2>2. ServingIsIdle'
    BY <1>3, <1>s, <2>1 DEF EntryInv, ServingIsIdle
  <2> QED
    BY <1>3, <1>t, <2>1, <2>2, CloseInv DEF EntryInv, Discard
<1>4. ASSUME NEW c \in Connections, WriteLaunchConfig(c) PROVE EntryInv'
  <2>1. /\ Idle(c) /\ Idle(c)'
        /\ c = Server => ~serving
        /\ \A d \in Connections \ {c} : job'[d] = job[d]
        /\ UNCHANGED <<db, serving>>
    BY <1>4 DEF WriteLaunchConfig, Idle, EntryInv, TypeOK, ServingIsIdle
  <2>2. /\ WholeApps'
        /\ OneTxn'
        /\ \A d \in Connections : Progress(d)'
        /\ StartedIsOpen'
    <3>1. \E as : WriteConfigs(c, as)
      BY <1>4 DEF WriteLaunchConfig
    <3> QED
      BY <2>1, <3>1, WriteConfigsInv
  <2>4. ServingIsIdle'
    BY <1>s, <2>1 DEF EntryInv, ServingIsIdle
  <2> QED
    BY <1>t, <2>2, <2>4 DEF EntryInv
<1>5. ASSUME NEW c \in Connections, CommitLaunchConfig(c) PROVE EntryInv'
  <2>1. /\ Idle(c) /\ Idle(c)'
        /\ c = Server => ~serving
        /\ \A d \in Connections \ {c} : job'[d] = job[d]
        /\ serving' = serving
    BY <1>5 DEF CommitLaunchConfig, Idle, EntryInv, TypeOK, Ended, ServingIsIdle
  <2>2. ServingIsIdle'
    BY <1>s, <2>1 DEF EntryInv, ServingIsIdle
  <2> QED
    BY <1>5, <1>t, <2>1, <2>2, CommitConfigsInv DEF CommitLaunchConfig, EntryInv
<1>6. ASSUME NEW c \in Connections,
             Kill(c) \/ (c \in Commands /\ FailCommand(c))
      PROVE  EntryInv'
  <2>1. c = Server => ~serving
    BY <1>6, <1>s DEF Kill, EntryInv, ServingIsIdle
  <2>2. /\ Discard(c) /\ db' = db /\ serving' = serving
        /\ job' = [job EXCEPT ![c] = Ended] /\ job[c].at # "ended"
    BY <1>6 DEF Kill, FailCommand
  <2>3. job' # job
    BY <2>2 DEF EntryInv, TypeOK, Ended
  <2> QED
    BY <2>1, <2>2, <2>3, <1>3
<1>7. CASE StartFails
  <2>1. /\ ~serving /\ job[Server].at = "adding"
        /\ job' = [job EXCEPT ![Server] = Stuck]
        /\ db' = db /\ serving' = serving
        /\ Discard(Server) \/ txn' = txn
    BY <1>7 DEF StartFails, EntryInv, ServingIsIdle
  <2>2. job' # job
    BY <1>s, <2>1 DEF EntryInv, TypeOK, Ended, Stuck
  <2>3. CASE txn' = txn
    BY <1>s, <1>t, <2>1, <2>3, StuckInv
  <2>4. CASE Discard(Server)
    BY <1>3, <1>s, <2>1, <2>2, <2>4
  <2> QED
    BY <2>1, <2>3, <2>4
<1>8. CASE StopServer
  <2>1. job[Server].at = "ended"
    BY <1>8 DEF StopServer, EntryInv, ServingIsIdle
  <2> QED
    BY <1>3, <1>8, <1>s, <2>1 DEF StopServer
<1>9. ASSUME NEW r \in Requests, ExecuteRequest(r) PROVE EntryInv'
  <2>1. Idle(Server) /\ job' = job /\ UNCHANGED <<db, serving>>
    BY <1>9 DEF ExecuteRequest, EntryInv, ServingIsIdle, Idle
  <2>2. \E as : WriteConfigs(Server, as)
    BY <1>9 DEF ExecuteRequest
  <2>3. /\ WholeApps'
        /\ OneTxn'
        /\ \A d \in Connections : Progress(d)'
        /\ StartedIsOpen'
    BY <1>s, <2>1, <2>2, WriteConfigsInv DEF Idle
  <2>4. ServingIsIdle'
    BY <2>1 DEF EntryInv, ServingIsIdle
  <2> QED
    BY <1>t, <2>3, <2>4 DEF EntryInv
<1>10. ASSUME NEW r \in Requests, CommitRequest(r) PROVE EntryInv'
  <2>1. Idle(Server) /\ job' = job /\ UNCHANGED serving
    BY <1>10 DEF CommitRequest, EntryInv, ServingIsIdle, Idle
  <2>2. ServingIsIdle'
    BY <2>1 DEF EntryInv, ServingIsIdle
  <2> QED
    BY <1>10, <1>s, <1>t, <2>1, <2>2, CommitConfigsInv
       DEF CommitRequest, EntryInv, Idle
<1>11. ASSUME ReadFails \/ \E r \in Requests : FailRequest(r) PROVE EntryInv'
  <2>1. /\ db' = db /\ job' = job /\ serving' = serving
        /\ job[Server].at = "ended"
        /\ txn' = txn \/ Discard(Server)
    BY <1>11 DEF FailRequest, ReadFails, RollBack, EntryInv, ServingIsIdle
  <2> QED
    BY <1>0, <1>3, <1>s, <2>1
<1>12. CASE UNCHANGED vars
  BY <1>0, <1>12 DEF vars
<1>13. CASE StartServer \/ \E c \in Commands : RunCommand(c)
  BY <1>1, <1>13, <1>s DEF StartServer, RunCommand
<1> QED
  BY <1>s, <1>t, <1>2, <1>4, <1>5, <1>6, <1>7, <1>8, <1>9, <1>10, <1>11, <1>12,
     <1>13, WriteTableInv, CommitAppInv DEF Next, JobStep

-----------------------------------------------------------------------------
(***************************************************************************)
(* The launch configs.                                                     *)
(***************************************************************************)

\* What a step may do to the launch configs and still take nothing back from
\* the database, nor from what the server is to commit.
Growing ==
    \A a \in Apps : /\ Stored(a) <= Stored(a)'
                    /\ written # {} => Row(Server, a) <= Row(Server, a)'

\* Only writes of launch configs add to the numbers; what others do leaves
\* each connection with its rows, or with those of the database.
LEMMA OrderKept ==
    ASSUME TypeOK, WritesInOrder, writes' = writes,
           \A a \in Apps : Stored(a)' = Stored(a),
           \A c \in Connections, a \in Apps :
               Row(c, a)' = Row(c, a) \/ Row(c, a)' = Stored(a),
           \A a \in Apps : Row(Server, a)' = Row(Server, a) \/ written = {}
    PROVE  WritesInOrder' /\ Growing
<1>1. ASSUME NEW c \in Connections, NEW a \in Apps
      PROVE  /\ Stored(a)' \in Nat /\ Row(c, a)' \in Nat
             /\ Stored(a)' <= Row(c, a)' /\ Row(c, a)' <= writes'
  <2>1. /\ Stored(a) \in Nat /\ Row(c, a) \in Nat /\ writes \in Nat
        /\ Stored(a) <= Row(c, a) /\ Row(c, a) <= writes
        /\ Stored(a)' = Stored(a)
        /\ Row(c, a)' = Row(c, a) \/ Row(c, a)' = Stored(a)
    BY DEF WritesInOrder, TypeOK
  <2> QED
    BY <2>1
<1>2. ASSUME NEW a \in Apps
      PROVE  /\ Stored(a) <= Stored(a)'
             /\ written # {} => Row(Server, a) <= Row(Server, a)'
  <2>1. /\ Stored(a) \in Nat /\ Row(Server, a) \in Nat
        /\ Stored(a)' = Stored(a)
        /\ Row(Server, a)' = Row(Server, a) \/ written = {}
    BY DEF WritesInOrder, Connections
  <2> QED
    BY <2>1
<1> QED
  BY <1>1, <1>2 DEF WritesInOrder, Growing

\* A write of launch configs gets the highest number.
LEMMA OrderedWrite ==
    ASSUME TypeOK, WritesInOrder, NEW c \in Connections, NEW as,
           WriteConfigs(c, as), db' = db
    PROVE  /\ WritesInOrder'
           /\ Growing
           /\ \A a \in Apps : a \in as => Row(c, a)' = writes + 1
<1>1. /\ writes \in Nat /\ writes + 1 \in Contents /\ writes' = writes + 1
      /\ Write(c, "launch_configs", as, writes + 1)
  BY NextNumber, Zenon DEF WriteConfigs
<1>2. /\ txn'[c] # NoTxn
      /\ \A a \in Apps : txn'[c]["launch_configs"][a] =
             IF a \in as THEN writes + 1 ELSE Seen(c)["launch_configs"][a]
      /\ \A d \in Connections \ {c} : txn'[d] = NoTxn /\ txn[d] = NoTxn
  <2> DEFINE number == writes + 1
  <2> DEFINE t == "launch_configs"
  <2>1. number \in Contents /\ t \in Tables /\ Write(c, t, as, number)
    BY <1>1, TablesDisjoint
  <2> HIDE DEF number, t
  <2>2. txn'[c] # NoTxn
    BY <2>1, WriteResult
  <2>3. txn'[c][t] = [a \in Apps |-> IF a \in as THEN number ELSE Seen(c)[t][a]]
    BY <2>1, WriteResult
  <2>4. \A d \in Connections \ {c} : txn'[d] = NoTxn /\ txn[d] = NoTxn
    BY <2>1, WriteResult
  <2> QED
    BY <2>2, <2>3, <2>4 DEF number, t
<1>3. \A a \in Apps : /\ Stored(a)' = Stored(a)
                      /\ Row(c, a)' = IF a \in as THEN writes + 1 ELSE Row(c, a)
  BY <1>2 DEF Stored, Row, Seen
<1>4. \A d \in Connections \ {c}, a \in Apps : Row(d, a)' = Row(d, a)
  BY <1>2 DEF Row, Seen
<1>5. ASSUME NEW d \in Connections, NEW a \in Apps
      PROVE  /\ Stored(a)' \in Nat /\ Row(d, a)' \in Nat
             /\ Stored(a)' <= Row(d, a)' /\ Row(d, a)' <= writes'
             /\ Stored(a) <= Stored(a)' /\ Row(d, a) <= Row(d, a)'
  <2>1. /\ Stored(a) \in Nat /\ Row(d, a) \in Nat
        /\ Stored(a) <= Row(d, a) /\ Row(d, a) <= writes
    BY DEF WritesInOrder
  <2>2. Row(d, a)' = Row(d, a) \/ Row(d, a)' = writes + 1
    BY <1>3, <1>4
  <2>3. Stored(a)' = Stored(a)
    BY <1>3
  <2> QED
    BY <1>1, <2>1, <2>2, <2>3
<1>6. WritesInOrder'
  BY <1>5 DEF WritesInOrder
<1>7. Growing
  BY <1>5 DEF Growing, Connections
<1> QED
  BY <1>3, <1>6, <1>7

\* A commit puts the rows of one connection into the database; no other has
\* a transaction open, or this one has none.
LEMMA OrderedCommit ==
    ASSUME TypeOK, OneTxn, WritesInOrder, NEW c \in Connections, Commit(c),
           writes' = writes
    PROVE  /\ WritesInOrder'
           /\ Growing
           /\ \A a \in Apps : Stored(a)' = Row(c, a)
<1>1. /\ db' = Seen(c) /\ txn'[c] = NoTxn
      /\ \A d \in Connections \ {c} : txn'[d] = txn[d]
  BY DEF Commit, TypeOK
<1>2. \A a \in Apps : Stored(a)' = Row(c, a)
  BY <1>1 DEF Stored, Row
<1>3. ASSUME NEW d \in Connections, NEW a \in Apps
      PROVE  \/ Row(d, a)' = Stored(a)' /\ (Row(d, a) = Stored(a) \/ d = c)
             \/ Row(d, a)' = Row(d, a) /\ Stored(a)' = Stored(a)
  <2>1. CASE txn'[d] = NoTxn /\ d # c
    BY <1>1, <2>1 DEF Row, Stored, Seen
  <2>2. CASE txn'[d] # NoTxn
    <3>1. d # c /\ txn[d] # NoTxn /\ txn'[d] = txn[d]
      BY <1>1, <2>2
    <3>2. txn[c] = NoTxn
      BY <3>1 DEF OneTxn
    <3> QED
      BY <1>1, <2>2, <3>1, <3>2 DEF Row, Stored, Seen
  <2>3. CASE d = c
    BY <1>1, <2>3 DEF Row, Stored, Seen
  <2> QED
    BY <2>1, <2>2, <2>3
<1>4. ASSUME NEW d \in Connections, NEW a \in Apps
      PROVE  /\ Stored(a)' \in Nat /\ Row(d, a)' \in Nat
             /\ Stored(a)' <= Row(d, a)' /\ Row(d, a)' <= writes'
             /\ Stored(a) <= Stored(a)' /\ Row(d, a) <= Row(d, a)'
  <2>1. /\ writes \in Nat
        /\ Stored(a) \in Nat /\ Row(d, a) \in Nat /\ Row(c, a) \in Nat
        /\ Stored(a) <= Row(d, a) /\ Row(d, a) <= writes
        /\ Stored(a) <= Row(c, a) /\ Row(c, a) <= writes
    BY DEF WritesInOrder, TypeOK
  <2>2. Stored(a)' = Row(c, a)
    BY <1>2
  <2>3. CASE Row(d, a)' = Stored(a)' /\ Row(d, a) = Stored(a)
    BY <2>1, <2>2, <2>3
  <2>4. CASE Row(d, a)' = Stored(a)' /\ d = c
    BY <2>1, <2>2, <2>4
  <2>5. CASE Row(d, a)' = Row(d, a) /\ Stored(a)' = Stored(a)
    BY <2>1, <2>2, <2>5
  <2> QED
    BY <1>3, <2>3, <2>4, <2>5
<1>5. WritesInOrder'
  BY <1>4 DEF WritesInOrder
<1>6. Growing
  BY <1>4 DEF Growing, Connections
<1> QED
  BY <1>2, <1>5, <1>6

\* A step that is none of a request's, and takes nothing back.
LEMMA ClaimsKept ==
    ASSUME TypeOK, WritesInOrder, WritesInOrder', RequestsTold, Growing,
           UNCHANGED <<request, wrote, written, answered, rolledBack>>,
           ~serving' => written = {}
    PROVE  RequestsTold'
<1>1. ASSUME NEW r \in Requests, InPlace(r) PROVE InPlace(r)'
  <2> SUFFICES ASSUME NEW a \in wrote[r].apps
               PROVE  wrote[r].number <= Stored(a)'
    BY DEF InPlace
  <2>1. a \in Apps /\ wrote[r].number \in Nat
    BY DEF TypeOK
  <2>2. /\ Stored(a) \in Nat /\ Stored(a)' \in Nat /\ Stored(a) <= Stored(a)'
        /\ wrote[r].number <= Stored(a)
    BY <1>1, <2>1 DEF WritesInOrder, Growing, InPlace, Connections
  <2> QED
    BY <2>1, <2>2
<1>2. ASSUME NEW r \in Requests, UnderWay(r) PROVE UnderWay(r)'
  <2> SUFFICES ASSUME NEW a \in wrote[r].apps
               PROVE  wrote[r].number <= Row(Server, a)'
    BY <1>2 DEF UnderWay
  <2>1. a \in Apps /\ wrote[r].number \in Nat
    BY DEF TypeOK
  <2>2. /\ Row(Server, a) \in Nat /\ Row(Server, a)' \in Nat
        /\ wrote[r].number <= Row(Server, a)
    BY <1>2, <2>1 DEF WritesInOrder, UnderWay, Connections
  <2>3. Row(Server, a) <= Row(Server, a)'
    BY <1>2, <2>1 DEF Growing, UnderWay
  <2> QED
    BY <2>1, <2>2, <2>3
<1> QED
  BY <1>1, <1>2 DEF RequestsTold

LEMMA InitInv == Init => Inv
<1> SUFFICES ASSUME Init PROVE Inv
  OBVIOUS
<1>1. EntryInv
  BY InitEntries
<1>2. WritesInOrder
  <2>1. \A a \in Apps : db["launch_configs"][a] = 0
    BY TablesDisjoint DEF Init, Empty
  <2>2. \A c \in Connections : Seen(c) = db
    BY DEF Init, Seen
  <2>3. writes = 0
    BY DEF Init
  <2>4. \A c \in Connections, a \in Apps : Stored(a) = 0 /\ Row(c, a) = 0
    BY <2>1, <2>2 DEF Stored, Row
  <2> QED
    BY <2>3, <2>4 DEF WritesInOrder
<1>3. RequestsTold
  BY DEF Init, RequestsTold
<1> QED
  BY <1>1, <1>2, <1>3 DEF Inv

LEMMA StepInv == Inv /\ [Next]_vars => Inv'
<1> SUFFICES ASSUME Inv, [Next]_vars PROVE Inv'
  OBVIOUS
<1>e. EntryInv'
  BY StepEntries DEF Inv
<1>t. TypeOK /\ OneTxn /\ ServingIsIdle /\ WritesInOrder /\ RequestsTold
  BY DEF Inv, EntryInv
<1>s. Server \in Connections /\ Commands \subseteq Connections /\ Server \notin Commands
  BY ServerIsNoCommand DEF Connections
<1> SUFFICES WritesInOrder' /\ RequestsTold'
  BY <1>e DEF Inv
\* Steps that leave the launch configs alone.
<1>0. ASSUME db' = db, txn' = txn, UNCHANGED <<serving, request, history>>
      PROVE  WritesInOrder' /\ RequestsTold'
  <2>1. WritesInOrder' /\ Growing
    BY <1>0, <1>t, OrderKept DEF Stored, Row, Seen, history
  <2> QED
    BY <1>0, <1>t, <2>1, ClaimsKept DEF history, RequestsTold
<1>1. ASSUME NEW c \in Connections, WriteTable(c)
      PROVE  WritesInOrder' /\ RequestsTold'
  <2>1. /\ Write(c, Order(c)[job[c].step], Touched(c), job[c].content)
        /\ job[c].step \in 1..4 /\ job[c].content \in Contents
        /\ UNCHANGED <<db, serving, request, history>>
    BY <1>1, <1>t DEF WriteTable, TypeOK, Contents
  <2> DEFINE u == Order(c)[job[c].step]
  <2>2. u \in EntryTables /\ u \in Tables
    BY <2>1, OrderCovers, TablesDisjoint
  <2>3. /\ txn'[c] # NoTxn
        /\ \A t \in Tables \ {u} : txn'[c][t] = Seen(c)[t]
        /\ \A d \in Connections \ {c} : txn'[d] = NoTxn /\ txn[d] = NoTxn
    <3>1. Write(c, u, Touched(c), job[c].content)
      BY <2>1
    <3> HIDE DEF u
    <3> QED
      BY <1>t, <2>1, <2>2, <3>1, WriteResult
  <2> HIDE DEF u
  <2>4. \A d \in Connections, a \in Apps : Row(d, a)' = Row(d, a)
    <3>1. "launch_configs" \in Tables \ {u}
      BY <2>2, TablesDisjoint
    <3> QED
      BY <2>1, <2>3, <3>1 DEF Row, Seen
  <2>5. WritesInOrder' /\ Growing
    BY <1>s, <1>t, <2>1, <2>4, OrderKept DEF Stored, history
  <2> QED
    BY <1>t, <2>1, <2>5, ClaimsKept DEF history, RequestsTold
<1>2. ASSUME NEW c \in Connections, Commit(c), UNCHANGED <<request, history>>,
             serving' = serving \/ serving'
      PROVE  WritesInOrder' /\ RequestsTold'
  <2>1. WritesInOrder' /\ Growing
    BY <1>2, <1>t, OrderedCommit DEF history
  <2> QED
    BY <1>2, <1>t, <2>1, ClaimsKept DEF history, RequestsTold
<1>3. ASSUME NEW c \in Connections, WriteLaunchConfig(c)
      PROVE  WritesInOrder' /\ RequestsTold'
  <2>1. /\ \E as : WriteConfigs(c, as)
        /\ UNCHANGED <<db, serving, request, wrote, written, answered, rolledBack>>
    BY <1>3 DEF WriteLaunchConfig
  <2>2. WritesInOrder' /\ Growing
    BY <1>t, <2>1, OrderedWrite
  <2> QED
    BY <1>t, <2>1, <2>2, ClaimsKept DEF RequestsTold
\* A connection other than that of a serving server is closed.
<1>4. ASSUME NEW c \in Connections, Discard(c), db' = db,
             c = Server => ~serving, UNCHANGED <<serving, request, history>>
      PROVE  WritesInOrder' /\ RequestsTold'
  <2>1. txn'[c] = NoTxn /\ \A d \in Connections \ {c} : txn'[d] = txn[d]
    BY <1>4, <1>t DEF Discard, TypeOK
  <2>2. \A d \in Connections, a \in Apps :
            \/ Row(d, a)' = Row(d, a)
            \/ d = c /\ Row(d, a)' = Stored(a)
    BY <1>4, <2>1 DEF Row, Stored, Seen
  <2>3. c = Server => written = {}
    BY <1>4, <1>t DEF RequestsTold
  <2>4. WritesInOrder' /\ Growing
    BY <1>4, <1>s, <1>t, <2>2, <2>3, OrderKept DEF Stored, history
  <2> QED
    BY <1>4, <1>t, <2>4, ClaimsKept DEF history, RequestsTold
<1>5. CASE StopServer
  <2>1. /\ txn' = [txn EXCEPT ![Server] = NoTxn] /\ serving' = FALSE
        /\ written' = {}
        /\ request' = [r \in Requests |->
                          IF request[r] = "written" THEN "ended" ELSE request[r]]
        /\ UNCHANGED <<db, writes, wrote, answered, rolledBack>>
    BY <1>5 DEF StopServer, Discard
  <2>2. \A d \in Connections, a \in Apps :
            Row(d, a)' = Row(d, a) \/ Row(d, a)' = Stored(a)
    BY <1>t, <2>1 DEF Row, Stored, Seen, TypeOK
  <2>3. WritesInOrder'
    <3> SUFFICES ASSUME NEW d \in Connections, NEW a \in Apps
                 PROVE  /\ Stored(a)' \in Nat /\ Row(d, a)' \in Nat
                        /\ Stored(a)' <= Row(d, a)' /\ Row(d, a)' <= writes'
      BY DEF WritesInOrder
    <3>1. /\ Stored(a) \in Nat /\ Row(d, a) \in Nat /\ writes \in Nat
          /\ Stored(a) <= Row(d, a) /\ Row(d, a) <= writes
          /\ Stored(a)' = Stored(a) /\ writes' = writes
      BY <1>t, <2>1 DEF WritesInOrder, TypeOK, Stored
    <3> QED
      BY <2>2, <3>1
  <2>4. ASSUME NEW r \in answered
        PROVE  r \in rolledBack \/ InPlace(r)
    BY <1>t DEF RequestsTold, UnderWay, TypeOK
  <2>5. \A r \in Requests : request'[r] # "written"
    BY <2>1
  <2>6. \A r \in answered : r \in Requests /\ request'[r] = "ended"
    BY <1>t, <2>1 DEF RequestsTold, TypeOK
  <2>7. \A r : InPlace(r)' = InPlace(r)
    BY <2>1 DEF InPlace, Stored
  <2>8. RequestsTold'
    BY <2>1, <2>4, <2>5, <2>6, <2>7 DEF RequestsTold
  <2> QED
    BY <2>3, <2>8
<1>6. ASSUME NEW r \in Requests, ExecuteRequest(r)
      PROVE  WritesInOrder' /\ RequestsTold'
  <2>1. PICK as \in SUBSET Apps :
            /\ WriteConfigs(Server, as)
            /\ wrote' = [wrote EXCEPT ![r] = [apps |-> as, number |-> writes + 1]]
    BY <1>6, BaseIsApp DEF ExecuteRequest, Candidates
  <2>2. /\ request[r] = "new" /\ serving
        /\ request' = [request EXCEPT ![r] = "written"]
        /\ written' = written \cup {r}
        /\ UNCHANGED <<db, serving, answered, rolledBack>>
    BY <1>6 DEF ExecuteRequest
  <2>3. /\ WritesInOrder'
        /\ Growing
        /\ \A a \in Apps : a \in as => Row(Server, a)' = writes + 1
    BY <1>s, <1>t, <2>1, <2>2, OrderedWrite
  <2>4. r \notin written /\ r \notin answered
    BY <1>t, <2>2 DEF RequestsTold
  <2>5. UnderWay(r)'
    <3>1. wrote'[r].apps = as /\ wrote'[r].number = writes + 1
      BY <1>t, <2>1 DEF TypeOK
    <3>2. r \in written'
      BY <2>2
    <3>3. ASSUME NEW a \in as PROVE wrote'[r].number <= Row(Server, a)'
      <4>1. Row(Server, a)' = writes + 1 /\ writes + 1 \in Nat
        BY <1>t, <2>1, <2>3, NextNumber
      <4> QED
        BY <3>1, <4>1
    <3> QED
      BY <3>1, <3>2, <3>3 DEF UnderWay
  <2>6. ASSUME NEW s \in Requests \ {r}
        PROVE  /\ wrote'[s] = wrote[s] /\ request'[s] = request[s]
               /\ InPlace(s) => InPlace(s)'
               /\ UnderWay(s) => UnderWay(s)'
    <3>1. wrote'[s] = wrote[s] /\ request'[s] = request[s]
      BY <1>t, <2>1, <2>2 DEF TypeOK
    <3>2. InPlace(s) => InPlace(s)'
      BY <2>2, <3>1 DEF InPlace, Stored
    <3>3. ASSUME UnderWay(s) PROVE UnderWay(s)'
      <4> SUFFICES ASSUME NEW a \in wrote[s].apps
                   PROVE  wrote[s].number <= Row(Server, a)'
        BY <2>2, <3>1, <3>3 DEF UnderWay
      <4>1. a \in Apps /\ wrote[s].number \in Nat
        BY <1>t DEF TypeOK
      <4>2. /\ Row(Server, a) \in Nat /\ Row(Server, a)' \in Nat
            /\ wrote[s].number <= Row(Server, a)
        BY <1>s, <1>t, <2>3, <3>3, <4>1 DEF WritesInOrder, UnderWay
      <4>3. Row(Server, a) <= Row(Server, a)'
        BY <2>3, <3>3, <4>1 DEF Growing, UnderWay
      <4> QED
        BY <4>1, <4>2, <4>3
    <3> QED
      BY <3>1, <3>2, <3>3
  <2>7. request'[r] = "written"
    BY <1>t, <2>2 DEF TypeOK
  <2>8. RequestsTold'
    <3>1. \A s \in answered' : request'[s] = "ended" /\ s \notin written'
      BY <1>t, <2>2, <2>4, <2>6 DEF RequestsTold, TypeOK
    <3>2. \A s \in written' : request'[s] # "new"
      BY <1>t, <2>2, <2>6, <2>7 DEF RequestsTold, TypeOK
    <3>3. ASSUME NEW s \in Requests, request'[s] = "written" \/ s \in answered'
          PROVE  s \in rolledBack' \/ InPlace(s)' \/ UnderWay(s)'
      BY <1>t, <2>2, <2>5, <2>6, <3>3 DEF RequestsTold
    <3>4. ~serving' => written' = {}
      BY <2>2
    <3> QED
      BY <3>1, <3>2, <3>3, <3>4 DEF RequestsTold
  <2> QED
    BY <2>3, <2>8
<1>7. ASSUME NEW r \in Requests, CommitRequest(r)
      PROVE  WritesInOrder' /\ RequestsTold'
  <2>1. /\ request[r] = "written" /\ Commit(Server) /\ serving
        /\ request' = [request EXCEPT ![r] = "ended"]
        /\ written' = {} /\ answered' = answered \cup {r}
        /\ UNCHANGED <<serving, writes, wrote, rolledBack>>
    BY <1>7 DEF CommitRequest
  <2>2. /\ WritesInOrder' /\ Growing
        /\ \A a \in Apps : Stored(a)' = Row(Server, a)
    BY <1>s, <1>t, <2>1, OrderedCommit
  <2>3. ASSUME NEW s \in Requests, InPlace(s) \/ UnderWay(s)
        PROVE  InPlace(s)'
    <3> SUFFICES ASSUME NEW a \in wrote[s].apps
                 PROVE  wrote[s].number <= Stored(a)'
      BY <2>1 DEF InPlace
    <3>1. a \in Apps /\ wrote[s].number \in Nat
      BY <1>t DEF TypeOK
    <3>2. /\ Stored(a) \in Nat /\ Row(Server, a) \in Nat
          /\ Stored(a) <= Row(Server, a) /\ Stored(a)' = Row(Server, a)
      BY <1>s, <1>t, <2>2, <3>1 DEF WritesInOrder
    <3>3. wrote[s].number <= Stored(a) \/ wrote[s].number <= Row(Server, a)
      BY <2>3 DEF InPlace, UnderWay
    <3> QED
      BY <3>1, <3>2, <3>3
  <2>4. ASSUME NEW s \in Requests, request'[s] = "written" \/ s \in answered'
        PROVE  s \in rolledBack' \/ InPlace(s)'
    <3>1. request[s] = "written" \/ s \in answered
      BY <1>t, <2>1, <2>4 DEF TypeOK
    <3> QED
      BY <1>t, <2>1, <2>3, <3>1 DEF RequestsTold
  <2>5. \A s \in answered' : request'[s] = "ended"
    BY <1>t, <2>1 DEF RequestsTold, TypeOK
  <2>6. RequestsTold'
    BY <2>1, <2>4, <2>5 DEF RequestsTold
  <2> QED
    BY <2>2, <2>6
<1>8. ASSUME ReadFails \/ \E r \in Requests : FailRequest(r)
      PROVE  WritesInOrder' /\ RequestsTold'
  <2>1. /\ serving
        /\ \/ UNCHANGED <<txn, written, rolledBack>>
           \/ /\ txn' = [txn EXCEPT ![Server] = NoTxn]
              /\ written' = {}
              /\ rolledBack' = rolledBack \cup written
        /\ UNCHANGED <<db, serving, writes, wrote, answered>>
    BY <1>8 DEF FailRequest, ReadFails, RollBack, Discard
  <2>2. \A d \in Connections, a \in Apps :
            Row(d, a)' = Row(d, a) \/ Row(d, a)' = Stored(a)
    BY <1>t, <2>1 DEF Row, Stored, Seen, TypeOK
  <2>3. WritesInOrder'
    <3> SUFFICES ASSUME NEW d \in Connections, NEW a \in Apps
                 PROVE  /\ Stored(a)' \in Nat /\ Row(d, a)' \in Nat
                        /\ Stored(a)' <= Row(d, a)' /\ Row(d, a)' <= writes'
      BY DEF WritesInOrder
    <3>1. /\ Stored(a) \in Nat /\ Row(d, a) \in Nat /\ writes \in Nat
          /\ Stored(a) <= Row(d, a) /\ Row(d, a) <= writes
          /\ Stored(a)' = Stored(a) /\ writes' = writes
      BY <1>t, <2>1 DEF WritesInOrder, TypeOK, Stored
    <3> QED
      BY <2>2, <3>1
  <2>4. \A s \in Requests : InPlace(s)' = InPlace(s)
    BY <2>1 DEF InPlace, Stored
  <2>5. \A s \in Requests : request'[s] \in {request[s], "ended"}
    BY <1>t, <1>8 DEF FailRequest, ReadFails, TypeOK
  <2>6. ASSUME NEW s \in Requests, request[s] = "written" \/ s \in answered
        PROVE  s \in rolledBack' \/ InPlace(s)' \/ UnderWay(s)'
    <3>1. s \in rolledBack \/ InPlace(s) \/ UnderWay(s)
      BY <1>t, <2>6 DEF RequestsTold
    <3>2. s \in rolledBack => s \in rolledBack'
      BY <2>1
    <3>3. ASSUME UnderWay(s) PROVE s \in rolledBack' \/ UnderWay(s)'
      <4>1. CASE UNCHANGED <<txn, written, rolledBack>>
        BY <2>1, <3>3, <4>1 DEF UnderWay, Row, Seen
      <4>2. CASE rolledBack' = rolledBack \cup written
        BY <3>3, <4>2 DEF UnderWay
      <4> QED
        BY <2>1, <4>1, <4>2
    <3> QED
      BY <2>4, <3>1, <3>2, <3>3
  <2>7. RequestsTold'
    BY <1>t, <2>1, <2>5, <2>6 DEF RequestsTold, TypeOK
  <2> QED
    BY <2>3, <2>7
<1>9. CASE \/ StartServer \/ \E c \in Commands : RunCommand(c)
           \/ \E c \in Connections : Initialized(c) \/ InitializeFails(c)
  BY <1>0, <1>9
     DEF StartServer, RunCommand, Start, Initialized, InitializeFails
<1>10. ASSUME NEW c \in Connections,
              Kill(c) \/ (c \in Commands /\ FailCommand(c))
       PROVE  WritesInOrder' /\ RequestsTold'
  <2>1. c = Server => ~serving
    BY <1>10, <1>s, <1>t DEF Kill, ServingIsIdle
  <2> QED
    BY <1>4, <1>10, <2>1 DEF Kill, FailCommand
<1>11. CASE StartFails
  <2>1. ~serving
    BY <1>11, <1>t DEF StartFails, ServingIsIdle
  <2> QED
    BY <1>0, <1>4, <1>11, <1>s, <2>1 DEF StartFails
<1>12. ASSUME NEW c \in Connections, CommitApp(c) \/ CommitLaunchConfig(c)
       PROVE  WritesInOrder' /\ RequestsTold'
  <2>1. /\ Commit(c) /\ UNCHANGED <<request, history>>
        /\ serving' = serving \/ serving'
    BY <1>12, <1>t DEF CommitApp, CommitLaunchConfig, TypeOK
  <2> QED
    BY <1>2, <2>1
<1>13. CASE UNCHANGED vars
  BY <1>0, <1>13 DEF vars
<1> QED
  BY <1>s, <1>1, <1>3, <1>5, <1>6, <1>7, <1>8, <1>9, <1>10, <1>11, <1>12, <1>13
     DEF Next, JobStep

-----------------------------------------------------------------------------
(***************************************************************************)
(* The theorems.                                                           *)
(***************************************************************************)

\* The inductive invariant holds in every reachable state of the storage of
\* sqlite_storage.py, for any number of commands and requests.
THEOREM Invariant == Spec => []Inv
  BY InitInv, StepInv, PTL DEF Spec

\* Database, transactions and jobs keep their types.
THEOREM TypeCorrect == Spec => []TypeOK
  BY Invariant, PTL DEF Inv, EntryInv

\* add_app and remove_app leave no app with the rows of one table and without,
\* or with older ones, of another, wherever they fail and whoever commits.
THEOREM AppsAreWhole == Spec => []WholeApps
  BY Invariant, PTL DEF Inv, EntryInv

\* The launch config that createLaunchConfig or deleteLaunchConfig has answered
\* for is in the database, or what a later write made of it is, unless SQLite
\* rolled the request's write back when another statement failed.
THEOREM AnswersAreKept == Spec => []AnsweredIsKept
<1>1. ASSUME Inv PROVE AnsweredIsKept
  <2> SUFFICES ASSUME NEW r \in answered \ rolledBack,
                      NEW a \in wrote[r].apps
               PROVE  db["launch_configs"][a] >= wrote[r].number
    BY DEF AnsweredIsKept
  <2>1. r \in Requests /\ a \in Apps /\ wrote[r].number \in Nat
    BY <1>1 DEF Inv, EntryInv, TypeOK
  <2>2. InPlace(r)
    BY <1>1, <2>1 DEF Inv, RequestsTold, UnderWay
  <2>3. wrote[r].number <= Stored(a) /\ Stored(a) \in Nat
    BY <1>1, <2>1, <2>2 DEF InPlace, Inv, WritesInOrder, Connections
  <2> QED
    BY <2>1, <2>3 DEF Stored
<1> QED
  BY <1>1, Invariant, PTL
=============================================================================
