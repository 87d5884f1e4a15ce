------------------------ MODULE ExternalIntentProofs ------------------------
(***************************************************************************)
(* Theorems about ExternalIntent, for any instances, handlers and raises.  *)
(*                                                                         *)
(* That an answer someone waits for is found in the table rests on a raise *)
(* having one caller, and on a future being pending only while its caller  *)
(* waits.  The list of handlers is not needed for it: which instance a     *)
(* raise is forwarded to does not matter.  That the list stays in order    *)
(* rests on what Picked leaves of a sequence, in what order, and on a      *)
(* handler registering once.                                               *)
(***************************************************************************)
EXTENDS ExternalIntent, FiniteSetTheorems, SequenceTheorems,
        WellFoundedInduction, TLAPS

IsCall(c) ==
    \/ c = NoCall
    \/ \E at \in {"forwarding", "waiting"}, r \in Raises :
          \E to : c = [at |-> at, raise |-> r, to |-> to]

Outcomes == {"new", "open", "external", "local", "overtaken"}

\* What TypeOK says of the raises.
RaisesFit ==
    /\ connections \subseteq Instances
    /\ call = [i \in Instances |-> call[i]]
    /\ \A i \in Instances : IsCall(call[i])
    /\ future \in [Raises -> Replies \cup {"none", "pending", "cancelled"}]
    /\ table \subseteq Raises
    /\ outcome \in [Raises -> Outcomes]
    /\ forwardedTo \in [Raises -> Instances \cup {NoInstance}]
    /\ replies \subseteq Raises

OneCaller ==
    /\ \A i \in Instances :
          call[i] # NoCall => /\ outcome[call[i].raise] = "open"
                              /\ future[call[i].raise] # "none"
    /\ \A i, j \in Instances :
          call[i] # NoCall /\ call[j] # NoCall /\ call[i].raise = call[j].raise
              => i = j

\* Nothing has happened to a raise without a future; a pending one is awaited,
\* and a result was sent by a handler.
FuturesFit ==
    \A r \in Raises :
        /\ outcome[r] = "new" => future[r] = "none"
        /\ future[r] = "none" => forwardedTo[r] = NoInstance
        /\ future[r] = "pending" => outcome[r] = "open"
        /\ future[r] = "result" => r \in replies

RaiseInv ==
    /\ RaisesFit
    /\ OneCaller
    /\ FuturesFit
    /\ AwaitedAnswersAreFound
    /\ ResultInTimeCounts

-----------------------------------------------------------------------------
(***************************************************************************)
(* Every step keeps RaiseInv.                                              *)
(***************************************************************************)
LEMMA CallerFacts ==
    ASSUME RaisesFit, NEW i \in Instances, call[i] # NoCall
    PROVE  /\ call[i].raise \in Raises
           /\ call[i].at \in {"forwarding", "waiting"}
<1>1. PICK at, r, to : /\ at \in {"forwarding", "waiting"}
                       /\ r \in Raises
                       /\ call[i] = [at |-> at, raise |-> r, to |-> to]
  BY DEF RaisesFit, IsCall
<1> QED
  BY <1>1

LEMMA BusyIsNoCall ==
    ASSUME NEW i \in Instances, call[i].at \in {"forwarding", "waiting"}
    PROVE  call[i] # NoCall
  BY DEF NoCall

LEMMA RaiseInit == Init => RaiseInv
<1> SUFFICES ASSUME Init PROVE RaiseInv
  OBVIOUS
<1>1. RaisesFit
  BY DEF Init, RaisesFit, IsCall, Outcomes
<1>2. OneCaller /\ AwaitedAnswersAreFound
  BY DEF Init, OneCaller, AwaitedAnswersAreFound
<1>3. FuturesFit /\ ResultInTimeCounts
  BY DEF Init, FuturesFit, ResultInTimeCounts
<1> QED
  BY <1>1, <1>2, <1>3 DEF RaiseInv

\* The steps of the handlers and of the websockets.
LEMMA OthersKeepRaises ==
    ASSUME RaiseInv, connections' \subseteq Instances,
           UNCHANGED <<call, future, table, outcome, forwardedTo, replies>>
    PROVE  RaiseInv'
  BY DEF RaiseInv, RaisesFit, OneCaller, FuturesFit, AwaitedAnswersAreFound,
     ResultInTimeCounts

LEMMA StartKeepsRaises ==
    ASSUME RaiseInv, NEW i \in Instances, NEW r \in Raises, StartRaise(i, r)
    PROVE  RaiseInv'
<1>1. /\ outcome[r] = "new" /\ future[r] = "none"
      /\ call[i] = NoCall
      /\ connections' = connections /\ forwardedTo' = forwardedTo
      /\ replies' = replies
      /\ \/ /\ outcome' = [outcome EXCEPT ![r] = "local"]
            /\ call' = call /\ future' = future /\ table' = table
         \/ /\ outcome' = [outcome EXCEPT ![r] = "open"]
            /\ \E to : call' = [call EXCEPT ![i] =
                         [at |-> "forwarding", raise |-> r, to |-> to]]
            /\ future' = [future EXCEPT ![r] = "pending"]
            /\ table' = table \cup {r}
  BY DEF StartRaise, RegisterPendingIntent, Serves, RaiseInv, FuturesFit
<1>2. \A j \in Instances : call[j] # NoCall => call[j].raise # r
  BY <1>1 DEF RaiseInv, OneCaller
<1>3. \A j \in Instances : call[j] # NoCall => call[j].raise \in Raises
  BY CallerFacts DEF RaiseInv
<1>4. /\ outcome \in [Raises -> Outcomes]
      /\ future \in [Raises -> Replies \cup {"none", "pending", "cancelled"}]
      /\ DOMAIN call = Instances
      /\ table \subseteq Raises
  BY DEF RaiseInv, RaisesFit
<1>5. FuturesFit /\ OneCaller /\ AwaitedAnswersAreFound /\ ResultInTimeCounts
  BY DEF RaiseInv
<1>6. CASE /\ outcome' = [outcome EXCEPT ![r] = "local"]
           /\ call' = call /\ future' = future /\ table' = table
  <2>1. RaisesFit'
    BY <1>1, <1>6 DEF RaiseInv, RaisesFit, Outcomes
  <2>2. OneCaller' /\ AwaitedAnswersAreFound'
    BY <1>2, <1>3, <1>4, <1>5, <1>6 DEF OneCaller, AwaitedAnswersAreFound
  <2>3. FuturesFit' /\ ResultInTimeCounts'
    BY <1>1, <1>4, <1>5, <1>6 DEF FuturesFit, ResultInTimeCounts
  <2> QED
    BY <2>1, <2>2, <2>3 DEF RaiseInv
<1>7. ASSUME NEW to,
             /\ outcome' = [outcome EXCEPT ![r] = "open"]
             /\ call' = [call EXCEPT ![i] =
                           [at |-> "forwarding", raise |-> r, to |-> to]]
             /\ future' = [future EXCEPT ![r] = "pending"]
             /\ table' = table \cup {r}
      PROVE  RaiseInv'
  <2>1. /\ call'[i] = [at |-> "forwarding", raise |-> r, to |-> to]
        /\ call'[i].raise = r
        /\ \A j \in Instances \ {i} : call'[j] = call[j]
        /\ call' = [j \in Instances |-> call'[j]]
    BY <1>4, <1>7
  <2>2. \A j \in Instances : IsCall(call'[j])
    BY <2>1 DEF RaiseInv, RaisesFit, IsCall
  <2>3. RaisesFit'
    BY <1>1, <1>4, <1>7, <2>1, <2>2 DEF RaiseInv, RaisesFit, IsCall, Outcomes
  <2>4. OneCaller'
    BY <1>2, <1>3, <1>4, <1>5, <1>7, <2>1 DEF OneCaller
  <2>5. AwaitedAnswersAreFound'
    BY <1>2, <1>3, <1>4, <1>5, <1>7, <2>1 DEF AwaitedAnswersAreFound
  <2>6. FuturesFit' /\ ResultInTimeCounts'
    BY <1>1, <1>4, <1>5, <1>7 DEF FuturesFit, ResultInTimeCounts
  <2> QED
    BY <2>3, <2>4, <2>5, <2>6 DEF RaiseInv
<1> QED
  BY <1>1, <1>6, <1>7

\* Only the state of the call and who received the raise change.
LEMMA ForwardKeepsRaises ==
    ASSUME RaiseInv, NEW i \in Instances, Forward(i)
    PROVE  RaiseInv'
<1> DEFINE r == call[i].raise
<1>1. call[i] # NoCall /\ r \in Raises
  BY BusyIsNoCall, CallerFacts DEF Forward, RaiseInv
<1>2. /\ call' = [call EXCEPT ![i].at = "waiting"]
      /\ connections' \subseteq Instances
      /\ future' = future /\ table' = table /\ outcome' = outcome
      /\ replies' = replies
      /\ \/ forwardedTo' = forwardedTo
         \/ \E t \in Instances : forwardedTo' = [forwardedTo EXCEPT ![r] = t]
  BY DEF Forward, RaiseInv, RaisesFit
<1>3. PICK at, to : /\ at \in {"forwarding", "waiting"}
                    /\ call[i] = [at |-> at, raise |-> r, to |-> to]
  BY <1>1 DEF RaiseInv, RaisesFit, IsCall
<1>4. /\ call'[i] = [at |-> "waiting", raise |-> r, to |-> to]
      /\ \A j \in Instances \ {i} : call'[j] = call[j]
      /\ call' = [j \in Instances |-> call'[j]]
  BY <1>2, <1>3 DEF RaiseInv, RaisesFit
<1> HIDE DEF r
<1>5. \A j \in Instances : /\ IsCall(call'[j])
                           /\ call'[j].raise = call[j].raise
                           /\ call'[j] # NoCall => call[j] # NoCall
  BY <1>1, <1>3, <1>4 DEF RaiseInv, RaisesFit, IsCall
<1>6. RaisesFit'
  <2>1. forwardedTo' \in [Raises -> Instances \cup {NoInstance}]
    BY <1>1, <1>2 DEF RaiseInv, RaisesFit
  <2> QED
    BY <1>2, <1>4, <1>5, <2>1 DEF RaiseInv, RaisesFit, IsCall
<1>7. OneCaller' /\ AwaitedAnswersAreFound'
  BY <1>2, <1>5 DEF RaiseInv, OneCaller, AwaitedAnswersAreFound
<1>8. future[r] # "none"
  BY <1>1 DEF RaiseInv, OneCaller, r
<1>9. FuturesFit' /\ ResultInTimeCounts'
  BY <1>1, <1>2, <1>8 DEF RaiseInv, RaisesFit, FuturesFit, ResultInTimeCounts
<1> QED
  BY <1>6, <1>7, <1>9 DEF RaiseInv

\* The raise has its outcome.
LEMMA FinishKeepsRaises ==
    ASSUME RaiseInv, NEW i \in Instances, Resume(i) \/ TimeOut(i)
    PROVE  RaiseInv'
<1> DEFINE r == call[i].raise
<1>1. call[i] # NoCall /\ r \in Raises
  BY BusyIsNoCall, CallerFacts DEF Resume, TimeOut, RaiseInv
<1>2. /\ connections' = connections /\ table' = table /\ replies' = replies
      /\ forwardedTo' = forwardedTo
      /\ call' = [call EXCEPT ![i] = NoCall]
      /\ future' = future \/ Cancelled(r)
      /\ \E how \in {"external", "overtaken", "local"} :
            /\ outcome' = [outcome EXCEPT ![r] = how]
            /\ how = "local" => future[r] # "result"
            /\ how = "local" /\ future[r] = "pending" => Cancelled(r)
            /\ how # "local" => future[r] = "result"
  BY DEF Resume, TimeOut, Finish, Replies
<1>3. /\ call'[i] = NoCall
      /\ \A j \in Instances \ {i} : call'[j] = call[j]
      /\ call' = [j \in Instances |-> call'[j]]
  BY <1>2 DEF RaiseInv, RaisesFit
<1>4. \A j \in Instances \ {i} : call[j] # NoCall =>
         call[j].raise # r /\ call[j].raise \in Raises
  BY <1>1, CallerFacts DEF RaiseInv, OneCaller
<1> HIDE DEF r
<1>5. /\ outcome \in [Raises -> Outcomes]
      /\ future \in [Raises -> Replies \cup {"none", "pending", "cancelled"}]
      /\ FuturesFit /\ OneCaller /\ AwaitedAnswersAreFound /\ ResultInTimeCounts
  BY DEF RaiseInv, RaisesFit
<1>6. /\ \A q \in Raises \ {r} : future'[q] = future[q] /\ outcome'[q] = outcome[q]
      /\ future'[r] \in Replies \cup {"cancelled"}
      /\ outcome'[r] \in {"external", "local", "overtaken"}
      /\ future'[r] = "result" =>
            future[r] = "result" /\ outcome'[r] \in {"external", "overtaken"}
      /\ future[r] # "none"
  <2>1. future[r] # "none"
    BY <1>1 DEF RaiseInv, OneCaller, r
  <2>2. future[r] \in Replies \cup {"none", "pending", "cancelled"}
    BY <1>1, <1>5
  <2> QED
    BY <1>1, <1>2, <1>5, <2>1, <2>2 DEF Replies, Cancelled, Outcomes
<1>7. RaisesFit'
  <2>1. \A j \in Instances : IsCall(call'[j])
    BY <1>3 DEF RaiseInv, RaisesFit, IsCall
  <2>2. /\ outcome' \in [Raises -> Outcomes]
        /\ future' \in [Raises -> Replies \cup {"none", "pending", "cancelled"}]
    BY <1>1, <1>2, <1>5, <1>6 DEF Outcomes, Replies, Cancelled
  <2> QED
    BY <1>2, <1>3, <2>1, <2>2 DEF RaiseInv, RaisesFit, IsCall
<1>8. OneCaller' /\ AwaitedAnswersAreFound'
  BY <1>2, <1>3, <1>4, <1>5, <1>6 DEF OneCaller, AwaitedAnswersAreFound
<1>9. FuturesFit'
  BY <1>2, <1>5, <1>6 DEF FuturesFit, Replies
<1>10. ResultInTimeCounts'
  BY <1>5, <1>6 DEF ResultInTimeCounts
<1> QED
  BY <1>7, <1>8, <1>9, <1>10 DEF RaiseInv

\* An answer takes the raise from the table and settles a future that is
\* pending; then nobody waits for another.
LEMMA AnswerKeepsRaises ==
    ASSUME RaiseInv, NEW t \in Instances, NEW r \in Raises,
           NEW reply \in Replies, Answer(t, r, reply)
    PROVE  RaiseInv'
<1>1. /\ call' = call /\ outcome' = outcome /\ connections' = connections
      /\ forwardedTo' = forwardedTo
      /\ forwardedTo[r] = t
      /\ table' = table \ {r}
      /\ replies' = IF reply = "result" THEN replies \cup {r} ELSE replies
      /\ \/ future' = future /\ ~(r \in table /\ future[r] = "pending")
         \/ future[r] = "pending" /\ future' = [future EXCEPT ![r] = reply]
  BY DEF Answer
<1>2. /\ future \in [Raises -> Replies \cup {"none", "pending", "cancelled"}]
      /\ replies \subseteq replies' /\ replies' \subseteq Raises
      /\ FuturesFit /\ OneCaller /\ AwaitedAnswersAreFound /\ ResultInTimeCounts
  BY <1>1 DEF RaiseInv, RaisesFit
<1>3. /\ \A q \in Raises \ {r} : future'[q] = future[q]
      /\ \/ future'[r] = future[r] /\ ~(r \in table /\ future[r] = "pending")
         \/ future[r] = "pending" /\ future'[r] = reply
      /\ reply = "result" => r \in replies'
  BY <1>1, <1>2
<1>4. reply \notin {"none", "pending", "cancelled"}
  BY DEF Replies
<1>5. RaisesFit'
  BY <1>1, <1>2 DEF RaiseInv, RaisesFit
<1>6. \A i \in Instances : call[i] # NoCall => call[i].raise \in Raises
  BY CallerFacts DEF RaiseInv
<1>7. OneCaller'
  BY <1>1, <1>2, <1>3, <1>4, <1>6 DEF OneCaller
<1>8. AwaitedAnswersAreFound'
  BY <1>1, <1>2, <1>3, <1>4, <1>6 DEF AwaitedAnswersAreFound
<1>9. FuturesFit' /\ ResultInTimeCounts'
  BY <1>1, <1>2, <1>3, <1>4 DEF FuturesFit, ResultInTimeCounts
<1> QED
  BY <1>5, <1>7, <1>8, <1>9 DEF RaiseInv

LEMMA RaiseStep == RaiseInv /\ [Next]_vars => RaiseInv'
<1> SUFFICES ASSUME RaiseInv, [Next]_vars PROVE RaiseInv'
  OBVIOUS
<1>1. CASE UNCHANGED vars
  BY <1>1, OthersKeepRaises DEF vars, RaiseInv, RaisesFit
<1>2. ASSUME NEW i \in Instances,
             \/ Connect(i) \/ PeerCloses(i) \/ EndSession(i)
             \/ \E h \in Handlers :
                   RegisterHandler(i, h) \/ UnregisterHandler(i, h)
      PROVE  RaiseInv'
  <2>1. /\ connections' \subseteq Instances
        /\ UNCHANGED <<call, future, table, outcome, forwardedTo, replies>>
    BY <1>2 DEF Connect, PeerCloses, EndSession, RegisterHandler,
       UnregisterHandler, RaiseInv, RaisesFit
  <2> QED
    BY <2>1, OthersKeepRaises
<1> QED
  BY <1>1, <1>2, StartKeepsRaises, ForwardKeepsRaises, FinishKeepsRaises,
     AnswerKeepsRaises DEF Next, Proceed

-----------------------------------------------------------------------------
\* The invariant of the raises.
THEOREM RaiseInvariant == Spec => []RaiseInv
  BY RaiseInit, RaiseStep, PTL DEF Spec

\* An answer that someone still waits for is not dropped, whatever raises,
\* timeouts, repeated answers and closed websockets came before it.
THEOREM AnswersAreFound == Spec => []AwaitedAnswersAreFound
<1>1. RaiseInv => AwaitedAnswersAreFound
  BY DEF RaiseInv
<1> QED
  BY <1>1, RaiseInvariant, PTL

\* A result that got through is the outcome of the raise, unless the clock
\* overtook it; a later one does not get through.
THEOREM ResultsCount == Spec => []ResultInTimeCounts
<1>1. RaiseInv => ResultInTimeCounts
  BY DEF RaiseInv
<1> QED
  BY <1>1, RaiseInvariant, PTL

-----------------------------------------------------------------------------
(***************************************************************************)
(* A raise that is forwarded is a request with a timeout.                  *)
(***************************************************************************)
LEMMA RaiseInitSimulates == Init => Exchange!Init
  BY DEF Init, Exchange!Init, raiseStatus

LEMMA RaiseStepSimulates ==
    RaiseInv /\ [Next]_vars => [Exchange!Next]_(Exchange!vars)
<1> SUFFICES ASSUME RaiseInv, [Next]_vars
             PROVE  [Exchange!Next]_(Exchange!vars)
  OBVIOUS
<1>1. ASSUME UNCHANGED <<future, outcome, replies>>
      PROVE  UNCHANGED Exchange!vars
  BY <1>1 DEF Exchange!vars, raiseStatus
<1>2. CASE UNCHANGED vars
  BY <1>1, <1>2 DEF vars
<1>3. ASSUME NEW i \in Instances,
             \/ Connect(i) \/ PeerCloses(i) \/ EndSession(i) \/ Forward(i)
             \/ \E h \in Handlers :
                   RegisterHandler(i, h) \/ UnregisterHandler(i, h)
      PROVE  [Exchange!Next]_(Exchange!vars)
  <2>1. UNCHANGED <<future, outcome, replies>>
    BY <1>3 DEF Connect, PeerCloses, EndSession, Forward, RegisterHandler,
       UnregisterHandler
  <2> QED
    BY <1>1, <2>1
<1>4. /\ outcome \in [Raises -> Outcomes]
      /\ future \in [Raises -> Replies \cup {"none", "pending", "cancelled"}]
  BY DEF RaiseInv, RaisesFit
<1>5. ASSUME NEW r \in Raises, NEW value, raiseStatus'[r] = value,
             \A q \in Raises \ {r} :
                future'[q] = future[q] /\ outcome'[q] = outcome[q]
      PROVE  raiseStatus' = [raiseStatus EXCEPT ![r] = value]
  BY <1>5 DEF raiseStatus
<1>6. ASSUME NEW i \in Instances, NEW r \in Raises, StartRaise(i, r)
      PROVE  [Exchange!Next]_(Exchange!vars)
  <2>1. future[r] = "none" /\ replies' = replies
    BY <1>6 DEF StartRaise, RegisterPendingIntent, RaiseInv, FuturesFit
  <2>2. CASE order = <<>>
    <3>1. raiseStatus' = raiseStatus
      BY <1>4, <1>6, <2>1, <2>2 DEF StartRaise, RegisterPendingIntent, raiseStatus
    <3> QED
      BY <2>1, <3>1 DEF Exchange!vars
  <2>3. CASE order # <<>>
    <3>1. /\ outcome' = [outcome EXCEPT ![r] = "open"]
          /\ future' = [future EXCEPT ![r] = "pending"]
      BY <1>6, <2>3 DEF StartRaise, RegisterPendingIntent
    <3>2. raiseStatus[r] = "new" /\ raiseStatus'[r] = "open"
      BY <1>4, <2>1, <3>1 DEF raiseStatus
    <3>3. raiseStatus' = [raiseStatus EXCEPT ![r] = "open"]
      BY <1>4, <1>5, <3>1, <3>2
    <3> QED
      BY <2>1, <3>2, <3>3 DEF Exchange!Next, Exchange!Open
  <2> QED
    BY <2>2, <2>3
<1>7. ASSUME NEW i \in Instances, Resume(i) \/ TimeOut(i)
      PROVE  [Exchange!Next]_(Exchange!vars)
  <2> DEFINE r == call[i].raise
  <2>1. /\ r \in Raises /\ outcome[r] = "open" /\ future[r] # "none"
    BY <1>7, BusyIsNoCall, CallerFacts
       DEF Resume, TimeOut, RaiseInv, OneCaller
  <2>2. /\ replies' = replies
        /\ \/ /\ \E how \in {"local", "overtaken"} :
                    outcome' = [outcome EXCEPT ![r] = how]
              /\ future' = future \/ Cancelled(r)
           \/ /\ future[r] = "result" /\ future' = future
              /\ outcome' = [outcome EXCEPT ![r] = "external"]
    BY <1>7 DEF Resume, TimeOut, Finish
  <2>3. future[r] = "result" => r \in replies
    BY <2>1 DEF RaiseInv, FuturesFit
  <2> HIDE DEF r
  <2>4. raiseStatus[r] = "open"
    BY <2>1 DEF raiseStatus
  <2>5. ASSUME NEW how \in {"local", "overtaken"},
               outcome' = [outcome EXCEPT ![r] = how],
               future' = future \/ Cancelled(r)
        PROVE  [Exchange!Next]_(Exchange!vars)
    <3>1. raiseStatus'[r] = "failed"
      BY <1>4, <2>1, <2>2, <2>5 DEF raiseStatus, Cancelled, Outcomes
    <3>2. raiseStatus' = [raiseStatus EXCEPT ![r] = "failed"]
      BY <1>4, <1>5, <2>1, <2>2, <2>5, <3>1 DEF Cancelled
    <3> QED
      BY <2>1, <2>2, <2>4, <3>2 DEF Exchange!Next, Exchange!Fail
  <2>6. CASE /\ future[r] = "result" /\ future' = future
             /\ outcome' = [outcome EXCEPT ![r] = "external"]
    <3>1. raiseStatus'[r] = "answered"
      BY <1>4, <2>1, <2>6 DEF raiseStatus
    <3>2. raiseStatus' = [raiseStatus EXCEPT ![r] = "answered"]
      BY <1>4, <1>5, <2>1, <2>6, <3>1
    <3> QED
      BY <2>1, <2>2, <2>3, <2>4, <2>6, <3>2 DEF Exchange!Next, Exchange!Answer
  <2> QED
    BY <2>2, <2>5, <2>6
<1>8. ASSUME NEW t \in Instances, NEW r \in Raises, NEW reply \in Replies,
             Answer(t, r, reply)
      PROVE  [Exchange!Next]_(Exchange!vars)
  <2>1. /\ outcome' = outcome
        /\ forwardedTo[r] = t
        /\ replies' = replies \cup {r} \/ replies' = replies
        /\ \/ future' = future
           \/ future[r] = "pending" /\ future' = [future EXCEPT ![r] = reply]
    BY <1>8 DEF Answer
  <2>2. future[r] # "none"
    BY <2>1, NoInstanceIsNone DEF RaiseInv, FuturesFit
  <2>3. raiseStatus' = raiseStatus
    BY <1>4, <2>1, <2>2 DEF raiseStatus, Replies
  <2>4. raiseStatus[r] # "new"
    BY <2>2 DEF raiseStatus
  <2> QED
    BY <2>1, <2>3, <2>4 DEF Exchange!Next, Exchange!Reply, Exchange!vars
<1> QED
  BY <1>2, <1>3, <1>6, <1>7, <1>8 DEF Next, Proceed

\* The safety half of RaisesEnd: a forwarded raise is answered once and for
\* good, and as handled only if a handler said so.
THEOREM RaiseIsRequest ==
    Spec => Exchange!Init /\ [][Exchange!Next]_(Exchange!vars)
  BY RaiseInitSimulates, RaiseStepSimulates, RaiseInvariant, PTL DEF Spec
-----------------------------------------------------------------------------
(***************************************************************************)
(* What Picked leaves of a sequence.                                       *)
(***************************************************************************)
\* A set of numbers has a least one.
LEMMA LeastNumber ==
    ASSUME NEW T \in SUBSET Nat, T # {}
    PROVE  \E n \in T : \A m \in T : n <= m
<1>1. PICK n \in T : \A m \in T : ~(<<m, n>> \in OpToRel(<, Nat))
  BY NatLessThanWellFounded, WFMin
<1>2. \A m \in T : <<m, n>> \in OpToRel(<, Nat) <=> m < n
  BY Zenon DEF OpToRel
<1>3. \A m \in T : ~(m < n)
  BY <1>1, <1>2, Zenon
<1> QED
  BY <1>3

\* f lists the k numbers of keep in ascending order.
Lists(f, k, keep) ==
    /\ f \in [1..k -> keep]
    /\ \A n \in keep : \E m \in 1..k : f[m] = n
    /\ \A l, m \in 1..k : l < m => f[l] < f[m]

\* A list and a greater number.
LEMMA OneMoreListed ==
    ASSUME NEW n \in Nat, NEW keep \in SUBSET (1..n), NEW k \in Nat,
           NEW f, Lists(f, k, keep)
    PROVE  \E g : Lists(g, k + 1, keep \cup {n + 1})
<1> DEFINE g == [m \in 1..k + 1 |-> IF m = k + 1 THEN n + 1 ELSE f[m]]
<1>1. g[k + 1] = n + 1 /\ k + 1 \in 1..k + 1
  OBVIOUS
<1>2. \A m \in 1..k : /\ m \in 1..k + 1
                       /\ g[m] = f[m]
                       /\ f[m] \in keep
                       /\ f[m] \in 1..n
  <2> TAKE m \in 1..k
  <2>1. m \in 1..k + 1 /\ m # k + 1
    OBVIOUS
  <2>2. f[m] \in keep
    BY DEF Lists
  <2> QED
    BY <2>1, <2>2
<1>3. \A m \in 1..k + 1 : m \in 1..k \/ m = k + 1
  OBVIOUS
<1>4. g \in [1..k + 1 -> keep \cup {n + 1}]
  BY <1>2, <1>3
<1> HIDE DEF g
<1>5. \A t \in keep \cup {n + 1} : \E m \in 1..k + 1 : g[m] = t
  BY <1>1, <1>2 DEF Lists
<1>6. ASSUME NEW l \in 1..k + 1, NEW m \in 1..k + 1, l < m PROVE g[l] < g[m]
  <2>1. l \in 1..k
    BY <1>6
  <2>2. CASE m \in 1..k
    BY <2>1, <2>2, <1>2, <1>6 DEF Lists
  <2>3. CASE m = k + 1
    BY <2>1, <2>3, <1>1, <1>2
  <2> QED
    BY <2>2, <2>3, <1>3
<1> QED
  BY <1>4, <1>5, <1>6 DEF Lists

\* Every finite set of positive numbers can be listed.
LEMMA ListExists ==
    ASSUME NEW size \in Nat, NEW keep \in SUBSET (1..size)
    PROVE  \E f : Lists(f, Cardinality(keep), keep)
<1> DEFINE Upto(n) == keep \cap (1..n)
           bad == {n \in Nat :
                     ~\E f : Lists(f, Cardinality(Upto(n)), Upto(n))}
<1>1. \A n \in Nat : IsFiniteSet(Upto(n)) /\ Cardinality(Upto(n)) \in Nat
  <2> TAKE n \in Nat
  <2>1. IsFiniteSet(1..n) /\ Upto(n) \in SUBSET (1..n)
    BY FS_Interval
  <2>2. IsFiniteSet(Upto(n))
    BY <2>1, FS_Subset
  <2> QED
    BY <2>2, FS_CardinalityType
<1>2. 0 \notin bad
  <2>1. Upto(0) = {}
    OBVIOUS
  <2>2. Lists(<<>>, 0, {})
    BY DEF Lists
  <2> QED
    BY <2>1, <2>2, FS_EmptySet
<1>3. ASSUME NEW n \in Nat, n \notin bad PROVE n + 1 \notin bad
  <2>1. PICK f : Lists(f, Cardinality(Upto(n)), Upto(n))
    BY <1>3
  <2>2. CASE n + 1 \notin keep
    <3>1. Upto(n + 1) = Upto(n)
      BY <2>2
    <3> QED
      BY <2>1, <3>1
  <2>3. CASE n + 1 \in keep
    <3>1. Upto(n + 1) = Upto(n) \cup {n + 1} /\ n + 1 \notin Upto(n)
      BY <2>3
    <3>2. Cardinality(Upto(n + 1)) = Cardinality(Upto(n)) + 1
      BY <3>1, <1>1, FS_AddElement
    <3>3. \E g : Lists(g, Cardinality(Upto(n)) + 1, Upto(n) \cup {n + 1})
      BY <2>1, <1>1, OneMoreListed
    <3> QED
      BY <3>1, <3>2, <3>3
  <2> QED
    BY <2>2, <2>3
<1>4. bad = {}
  <2> SUFFICES ASSUME bad # {} PROVE FALSE
    OBVIOUS
  <2>1. PICK n \in bad : \A m \in bad : n <= m
    BY LeastNumber
  <2>2. n - 1 \in Nat /\ n - 1 \notin bad
    BY <2>1, <1>2
  <2>3. n - 1 + 1 \notin bad
    BY <2>2, <1>3
  <2> QED
    BY <2>1, <2>3
<1>5. Upto(size) = keep
  OBVIOUS
<1> QED
  BY <1>4, <1>5

\* Ascending is what it is called.
LEMMA AscendingLists ==
    ASSUME NEW size \in Nat, NEW keep \in SUBSET (1..size)
    PROVE  /\ Cardinality(keep) \in Nat
           /\ Lists(Ascending(keep), Cardinality(keep), keep)
<1>1. Cardinality(keep) \in Nat
  <2>1. IsFiniteSet(1..size)
    BY FS_Interval
  <2>2. IsFiniteSet(keep)
    BY <2>1, FS_Subset
  <2> QED
    BY <2>2, FS_CardinalityType
<1>2. PICK f : Lists(f, Cardinality(keep), keep)
  BY ListExists
<1>3. \A g : /\ g \in Bijection(1..Cardinality(keep), keep)
             /\ \A m, n \in DOMAIN g : m < n => g[m] < g[n]
        => Lists(g, Cardinality(keep), keep)
  BY DEF Lists, Bijection, Injection, Surjection
<1>4. /\ f \in Bijection(1..Cardinality(keep), keep)
      /\ \A m, n \in DOMAIN f : m < n => f[m] < f[n]
  <2> DEFINE k == Cardinality(keep)
  <2>1. /\ f \in [1..k -> keep]
        /\ \A t \in keep : \E m \in 1..k : f[m] = t
        /\ \A l, m \in 1..k : l < m => f[l] < f[m]
    BY <1>2 DEF Lists
  <2>2. \A l, m \in 1..k : f[l] = f[m] => l = m
    <3> HIDE DEF k
    <3>1. \A m \in 1..k : f[m] \in 1..size
      BY <2>1
    <3> QED
      BY <2>1, <3>1, <1>1 DEF k
  <2> QED
    BY <2>1, <2>2 DEF Bijection, Injection, Surjection, IsInjective
<1> QED
  BY <1>1, <1>3, <1>4 DEF Ascending

\* What is picked of a sequence: elements at ascending positions, all those
\* at the positions to keep and no others.
LEMMA PickedElements ==
    ASSUME NEW S, NEW s \in Seq(S), NEW keep \in SUBSET (1..Len(s))
    PROVE  /\ Picked(s, keep) \in Seq(S)
           /\ Len(Picked(s, keep)) = Cardinality(keep)
           /\ \E f : /\ Lists(f, Len(Picked(s, keep)), keep)
                     /\ \A n \in 1..Len(Picked(s, keep)) :
                           Picked(s, keep)[n] = s[f[n]]
<1> DEFINE k == Cardinality(keep)
           f == Ascending(keep)
<1>1. k \in Nat /\ Lists(f, k, keep)
  <2>1. Len(s) \in Nat
    OBVIOUS
  <2> QED
    BY <2>1, AscendingLists
<1>2. \A n \in 1..k : f[n] \in 1..Len(s)
  BY <1>1 DEF Lists
<1>3. Picked(s, keep) = [n \in 1..k |-> s[f[n]]]
  BY DEF Picked
<1> HIDE DEF k, f
<1>4. Picked(s, keep) \in [1..k -> S]
  BY <1>2, <1>3
<1>5. Picked(s, keep) \in Seq(S) /\ Len(Picked(s, keep)) = k
  BY <1>1, <1>3, <1>4
<1> QED
  BY <1>1, <1>3, <1>5 DEF k

Elements(s) == {s[n] : n \in 1..Len(s)}

\* Elements follow each other only as pairs of before say.
InOrder(s, before) ==
    \A m, n \in 1..Len(s) : m < n => <<s[m], s[n]>> \in before

LEMMA PickedInOrder ==
    ASSUME NEW S, NEW s \in Seq(S), NEW keep \in SUBSET (1..Len(s)),
           NEW before, InOrder(s, before)
    PROVE  /\ Picked(s, keep) \in Seq(S)
           /\ InOrder(Picked(s, keep), before)
           /\ Elements(Picked(s, keep)) = {s[n] : n \in keep}
<1> DEFINE k == Len(Picked(s, keep))
<1>0. PICK f : /\ Picked(s, keep) \in Seq(S)
               /\ Lists(f, k, keep)
               /\ \A n \in 1..k : Picked(s, keep)[n] = s[f[n]]
  BY PickedElements
<1>1. /\ Picked(s, keep) \in Seq(S)
      /\ k = Len(Picked(s, keep))
      /\ Lists(f, k, keep)
      /\ \A n \in 1..k : Picked(s, keep)[n] = s[f[n]]
  BY <1>0
<1> HIDE DEF k
<1>2. /\ \A n \in 1..k : f[n] \in keep /\ f[n] \in 1..Len(s)
      /\ \A n \in keep : \E m \in 1..k : f[m] = n
      /\ \A m, n \in 1..k : m < n => f[m] < f[n]
  BY <1>1 DEF Lists
<1>3. InOrder(Picked(s, keep), before)
  <2> SUFFICES ASSUME NEW m \in 1..k, NEW n \in 1..k, m < n
               PROVE  <<s[f[m]], s[f[n]]>> \in before
    BY <1>1 DEF InOrder
  <2> QED
    BY <1>2 DEF InOrder
<1>4. Elements(Picked(s, keep)) = {s[f[n]] : n \in 1..k}
  BY <1>1 DEF Elements
<1>5. {s[f[n]] : n \in 1..k} = {s[n] : n \in keep}
  BY <1>2
<1> QED
  BY <1>1, <1>3, <1>4, <1>5

LEMMA BetweenInOrder ==
    ASSUME NEW S, NEW s \in Seq(S), NEW t \in Seq(S), NEW h \in S,
           NEW before, InOrder(s, before), InOrder(t, before),
           \A g \in Elements(s) : <<g, h>> \in before,
           \A g \in Elements(t) : <<h, g>> \in before,
           \A g \in Elements(s), k \in Elements(t) : <<g, k>> \in before
    PROVE  /\ s \o <<h>> \o t \in Seq(S)
           /\ InOrder(s \o <<h>> \o t, before)
           /\ Elements(s \o <<h>> \o t) = Elements(s) \cup {h} \cup Elements(t)
<1> DEFINE u == s \o <<h>> \o t
<1>1. /\ u \in Seq(S)
      /\ Len(u) = Len(s) + 1 + Len(t)
      /\ Len(s) \in Nat /\ Len(t) \in Nat
      /\ \A n \in 1..Len(u) :
            u[n] = IF n <= Len(s) THEN s[n]
                   ELSE IF n = Len(s) + 1 THEN h ELSE t[n - Len(s) - 1]
  OBVIOUS
<1> HIDE DEF u
<1>2. ASSUME NEW n \in 1..Len(u)
      PROVE  \/ n \in 1..Len(s) /\ u[n] = s[n]
             \/ n = Len(s) + 1 /\ u[n] = h
             \/ \E k \in 1..Len(t) : n = Len(s) + 1 + k /\ u[n] = t[k]
  <2>1. CASE n > Len(s) + 1
    <3>1. n - Len(s) - 1 \in 1..Len(t)
      BY <2>1, <1>1
    <3>2. n = Len(s) + 1 + (n - Len(s) - 1)
      BY <1>1
    <3> QED
      BY <2>1, <3>1, <3>2, <1>1
  <2> QED
    BY <2>1, <1>1
<1>3. InOrder(u, before)
  <2> SUFFICES ASSUME NEW m \in 1..Len(u), NEW n \in 1..Len(u), m < n
               PROVE  <<u[m], u[n]>> \in before
    BY DEF InOrder
  <2>1. CASE m \in 1..Len(s) /\ u[m] = s[m]
    <3>1. u[m] \in Elements(s)
      BY <2>1 DEF Elements
    <3>2. CASE n \in 1..Len(s) /\ u[n] = s[n]
      BY <2>1, <3>2 DEF InOrder
    <3>3. CASE u[n] = h
      BY <3>1, <3>3
    <3>4. CASE \E k \in 1..Len(t) : u[n] = t[k]
      BY <3>1, <3>4 DEF Elements
    <3> QED
      BY <1>2, <3>2, <3>3, <3>4
  <2>2. CASE m = Len(s) + 1 /\ u[m] = h
    <3>1. ~(n \in 1..Len(s)) /\ n # Len(s) + 1
      BY <2>2, <1>1
    <3>2. \E k \in 1..Len(t) : u[n] = t[k]
      BY <1>2, <3>1
    <3> QED
      BY <2>2, <3>2 DEF Elements
  <2>3. CASE \E k \in 1..Len(t) : m = Len(s) + 1 + k /\ u[m] = t[k]
    <3>1. PICK k \in 1..Len(t) : m = Len(s) + 1 + k /\ u[m] = t[k]
      BY <2>3
    <3>2. ~(n \in 1..Len(s)) /\ n # Len(s) + 1
      BY <3>1, <1>1
    <3>3. PICK l \in 1..Len(t) : n = Len(s) + 1 + l /\ u[n] = t[l]
      BY <1>2, <3>2
    <3>4. k < l
      BY <3>1, <3>3, <1>1
    <3> QED
      BY <3>1, <3>3, <3>4 DEF InOrder
  <2> QED
    BY <1>2, <2>1, <2>2, <2>3
<1>4. Elements(u) \subseteq Elements(s) \cup {h} \cup Elements(t)
  BY <1>2 DEF Elements
<1>5. ASSUME NEW g \in Elements(s) \cup {h} \cup Elements(t)
      PROVE  g \in Elements(u)
  <2>1. CASE g \in Elements(s)
    <3>1. PICK n \in 1..Len(s) : g = s[n]
      BY <2>1 DEF Elements
    <3>2. n \in 1..Len(u) /\ u[n] = g
      BY <3>1, <1>1
    <3> QED
      BY <3>2 DEF Elements
  <2>2. CASE g = h
    <3>1. Len(s) + 1 \in 1..Len(u) /\ u[Len(s) + 1] = g
      BY <2>2, <1>1
    <3> QED
      BY <3>1 DEF Elements
  <2>3. CASE g \in Elements(t)
    <3>1. PICK n \in 1..Len(t) : g = t[n]
      BY <2>3 DEF Elements
    <3>2. n + Len(s) + 1 \in 1..Len(u) /\ u[n + Len(s) + 1] = g
      BY <3>1, <1>1
    <3> QED
      BY <3>2 DEF Elements
  <2> QED
    BY <2>1, <2>2, <2>3
<1> QED
  BY <1>1, <1>3, <1>4, <1>5 DEF u

-----------------------------------------------------------------------------
(***************************************************************************)
(* The list of handlers stays in order.                                    *)
(***************************************************************************)
OrderInv ==
    /\ handlerOf \in [Handlers -> Instances \cup {NoInstance}]
    /\ order \in Seq(Handlers)
    /\ arrivals \in Seq(Handlers)
    /\ \A m, n \in 1..Len(arrivals) : arrivals[m] = arrivals[n] => m = n
    /\ \A h \in Handlers :
          handlerOf[h] # NoInstance => h \in Elements(arrivals)
    /\ HandlersInOrder

\* Which handlers come before which, when they have registered in the order
\* of the sequence a.
At(a, h) == CHOOSE n \in DOMAIN a : a[n] = h

Earlier(a) == {p \in Handlers \X Handlers :
                 \/ Priority[p[1]] > Priority[p[2]]
                 \/ /\ Priority[p[1]] = Priority[p[2]]
                    /\ At(a, p[1]) < At(a, p[2])}

InEarlierOrder ==
    /\ Elements(order) = {h \in Handlers : handlerOf[h] # NoInstance}
    /\ InOrder(order, Earlier(arrivals))

LEMMA OrderIsEarlier ==
    /\ order \in Seq(Handlers) => (HandlersInOrder <=> InEarlierOrder)
    /\ (order \in Seq(Handlers) => (HandlersInOrder <=> InEarlierOrder))'
<1>1. ASSUME NEW s \in Seq(Handlers), NEW a
      PROVE  /\ DOMAIN s = 1..Len(s)
             /\ \A m, n \in 1..Len(s) :
                   <<s[m], s[n]>> \in Earlier(a) <=>
                      \/ Priority[s[m]] > Priority[s[n]]
                      \/ /\ Priority[s[m]] = Priority[s[n]]
                         /\ At(a, s[m]) < At(a, s[n])
  BY DEF Earlier
<1>2. \A h : Arrival(h) = At(arrivals, h) /\ Arrival(h)' = At(arrivals', h)
  BY DEF Arrival, At
<1>3. ASSUME NEW s \in Seq(Handlers)
      PROVE  {s[n] : n \in DOMAIN s} = Elements(s)
  BY <1>1 DEF Elements
<1>4. ASSUME NEW s \in Seq(Handlers), NEW a
      PROVE  InOrder(s, Earlier(a)) <=>
               \A m, n \in DOMAIN s : m < n =>
                  \/ Priority[s[m]] > Priority[s[n]]
                  \/ /\ Priority[s[m]] = Priority[s[n]]
                     /\ At(a, s[m]) < At(a, s[n])
  BY <1>1 DEF InOrder
<1>5. order \in Seq(Handlers) => (HandlersInOrder <=> InEarlierOrder)
  BY <1>2, <1>3, <1>4 DEF HandlersInOrder, InEarlierOrder
<1>6. (order \in Seq(Handlers) => (HandlersInOrder <=> InEarlierOrder))'
  BY <1>2, <1>3, <1>4 DEF HandlersInOrder, InEarlierOrder
<1> QED
  BY <1>5, <1>6

\* Handlers register once.
LEMMA AtIs ==
    ASSUME NEW a \in Seq(Handlers),
           \A m, n \in 1..Len(a) : a[m] = a[n] => m = n,
           NEW k \in 1..Len(a)
    PROVE  At(a, a[k]) = k
  BY DEF At

LEMMA OrderInit == Init => OrderInv
<1> SUFFICES ASSUME Init PROVE OrderInv
  OBVIOUS
<1>1. Elements(order) = {} /\ InOrder(order, Earlier(arrivals))
  BY DEF Init, Elements, InOrder
<1>2. order \in Seq(Handlers) /\ arrivals \in Seq(Handlers)
  BY DEF Init
<1>3. \A m, n \in 1..Len(arrivals) : arrivals[m] = arrivals[n] => m = n
  BY DEF Init
<1>4. \A h \in Handlers : handlerOf[h] = NoInstance
  BY DEF Init
<1>5. HandlersInOrder
  BY <1>1, <1>2, <1>4, OrderIsEarlier DEF InEarlierOrder
<1> QED
  BY <1>2, <1>3, <1>4, <1>5 DEF Init, OrderInv

LEMMA UnregisteredKeepsOrder ==
    ASSUME OrderInv, NEW gone, Unregistered(gone), arrivals' = arrivals
    PROVE  OrderInv'
<1> DEFINE keep == {n \in DOMAIN order : order[n] \notin gone}
<1>1. /\ order \in Seq(Handlers)
      /\ Elements(order) = {h \in Handlers : handlerOf[h] # NoInstance}
      /\ InOrder(order, Earlier(arrivals))
  BY OrderIsEarlier DEF OrderInv, InEarlierOrder
<1>2. keep \in SUBSET (1..Len(order))
  BY <1>1
<1>3. /\ order' \in Seq(Handlers)
      /\ InOrder(order', Earlier(arrivals))
      /\ Elements(order') = {order[n] : n \in keep}
  BY <1>1, <1>2, PickedInOrder DEF Unregistered
<1>4. {order[n] : n \in keep} = Elements(order) \ gone
  BY <1>1 DEF Elements
<1>5. /\ handlerOf' \in [Handlers -> Instances \cup {NoInstance}]
      /\ \A h \in Handlers :
            handlerOf'[h] = IF h \in gone THEN NoInstance ELSE handlerOf[h]
  BY DEF Unregistered, OrderInv
<1>6. Elements(order') = {h \in Handlers : handlerOf'[h] # NoInstance}
  BY <1>1, <1>3, <1>4, <1>5
<1>7. HandlersInOrder'
  BY <1>3, <1>6, OrderIsEarlier DEF InEarlierOrder
<1> QED
  BY <1>3, <1>5, <1>7 DEF OrderInv

\* A new handler comes last among those with its priority.
LEMMA RegisterKeepsOrder ==
    ASSUME OrderInv, NEW i \in Instances, NEW h \in Handlers,
           RegisterHandler(i, h)
    PROVE  OrderInv'
<1> DEFINE a == arrivals
           b == arrivals'
           P == {n \in DOMAIN order : Priority[order[n]] >= Priority[h]}
           Q == DOMAIN order \ P
           s == Picked(order, P)
           t == Picked(order, Q)
<1>1. /\ order \in Seq(Handlers) /\ a \in Seq(Handlers)
      /\ handlerOf \in [Handlers -> Instances \cup {NoInstance}]
      /\ \A m, n \in 1..Len(a) : a[m] = a[n] => m = n
      /\ \A g \in Handlers : handlerOf[g] # NoInstance => g \in Elements(a)
      /\ Elements(order) = {g \in Handlers : handlerOf[g] # NoInstance}
      /\ InOrder(order, Earlier(a))
  BY OrderIsEarlier DEF OrderInv, InEarlierOrder
<1>2. /\ \A n \in DOMAIN a : a[n] # h
      /\ handlerOf' = [handlerOf EXCEPT ![h] = i]
      /\ order' = s \o <<h>> \o t
      /\ b = Append(a, h)
  BY DEF RegisterHandler, Inserted
<1>3. /\ b \in Seq(Handlers)
      /\ Len(b) = Len(a) + 1 /\ Len(a) \in Nat
      /\ b[Len(a) + 1] = h
      /\ \A n \in 1..Len(a) : b[n] = a[n] /\ n \in 1..Len(b) /\ a[n] # h
  BY <1>1, <1>2
<1> HIDE DEF a, b
<1>4. \A m, n \in 1..Len(b) : b[m] = b[n] => m = n
  <2> SUFFICES ASSUME NEW m \in 1..Len(b), NEW n \in 1..Len(b), b[m] = b[n]
               PROVE  m = n
    OBVIOUS
  <2>1. (m \in 1..Len(a) \/ m = Len(a) + 1) /\ (n \in 1..Len(a) \/ n = Len(a) + 1)
    BY <1>3
  <2> QED
    BY <2>1, <1>1, <1>3
<1>5. At(b, h) = Len(a) + 1
  <2>1. Len(a) + 1 \in 1..Len(b)
    BY <1>3
  <2> QED
    BY <2>1, <1>3, <1>4, AtIs
<1>6. \A g \in Elements(a) : /\ At(b, g) = At(a, g)
                             /\ At(b, g) \in Int
                             /\ At(b, g) < At(b, h)
  <2> TAKE g \in Elements(a)
  <2>1. PICK n \in 1..Len(a) : g = a[n]
    BY DEF Elements
  <2>2. At(a, g) = n
    BY <2>1, <1>1, AtIs
  <2>3. At(b, g) = n
    BY <2>1, <1>3, <1>4, AtIs
  <2> QED
    BY <2>2, <2>3, <1>3, <1>5
<1>7. Elements(order) \subseteq Elements(a)
  BY <1>1
<1>8. InOrder(order, Earlier(b))
  <2> SUFFICES ASSUME NEW m \in 1..Len(order), NEW n \in 1..Len(order), m < n
               PROVE  <<order[m], order[n]>> \in Earlier(b)
    BY DEF InOrder
  <2>1. <<order[m], order[n]>> \in Earlier(a)
    BY <1>1 DEF InOrder
  <2>2. order[m] \in Elements(a) /\ order[n] \in Elements(a)
    BY <1>7 DEF Elements
  <2> QED
    BY <2>1, <2>2, <1>6 DEF Earlier
<1>9. /\ P \in SUBSET (1..Len(order)) /\ Q \in SUBSET (1..Len(order))
      /\ P \cup Q = 1..Len(order)
      /\ \A n \in P : Priority[order[n]] >= Priority[h]
      /\ \A n \in Q : ~(Priority[order[n]] >= Priority[h])
  BY <1>1
<1> HIDE DEF P, Q
<1>10. /\ s \in Seq(Handlers) /\ t \in Seq(Handlers)
       /\ InOrder(s, Earlier(b)) /\ InOrder(t, Earlier(b))
       /\ Elements(s) = {order[n] : n \in P}
       /\ Elements(t) = {order[n] : n \in Q}
  <2>1. /\ s \in Seq(Handlers) /\ InOrder(s, Earlier(b))
        /\ Elements(s) = {order[n] : n \in P}
    BY <1>1, <1>8, <1>9, PickedInOrder
  <2>2. /\ t \in Seq(Handlers) /\ InOrder(t, Earlier(b))
        /\ Elements(t) = {order[n] : n \in Q}
    BY <1>1, <1>8, <1>9, PickedInOrder
  <2> QED
    BY <2>1, <2>2
<1> HIDE DEF s, t
<1>11. \A g \in Handlers : Priority[g] \in Int
  BY PrioritiesAreInt
<1>12. \A n \in 1..Len(order) : order[n] \in Handlers /\ order[n] \in Elements(a)
  BY <1>1, <1>7 DEF Elements
<1>13. \A g \in Elements(s) : /\ g \in Handlers /\ g \in Elements(a)
                              /\ Priority[g] >= Priority[h]
  BY <1>9, <1>10, <1>12
<1>14. \A g \in Elements(t) : /\ g \in Handlers
                              /\ Priority[h] > Priority[g]
  BY <1>1, <1>9, <1>10, <1>11, <1>12
<1>15. Elements(s) \cup Elements(t) = Elements(order)
  <2>1. Elements(order) = {order[n] : n \in P \cup Q}
    BY <1>9 DEF Elements
  <2> QED
    BY <2>1, <1>10
<1>16. \A g \in Elements(s) : <<g, h>> \in Earlier(b)
  BY <1>6, <1>11, <1>13 DEF Earlier
<1>17. \A g \in Elements(t) : <<h, g>> \in Earlier(b)
  BY <1>14 DEF Earlier
<1>18. \A g \in Elements(s), k \in Elements(t) : <<g, k>> \in Earlier(b)
  <2> TAKE g \in Elements(s), k \in Elements(t)
  <2>1. Priority[g] > Priority[k]
    BY <1>11, <1>13, <1>14
  <2> QED
    BY <2>1, <1>13, <1>14 DEF Earlier
<1>19. /\ order' \in Seq(Handlers)
       /\ InOrder(order', Earlier(b))
       /\ Elements(order') = Elements(s) \cup {h} \cup Elements(t)
  <2> DEFINE u == s \o <<h>> \o t
             before == Earlier(b)
  <2>1. /\ s \in Seq(Handlers) /\ t \in Seq(Handlers)
        /\ InOrder(s, before) /\ InOrder(t, before)
        /\ \A g \in Elements(s) : <<g, h>> \in before
        /\ \A g \in Elements(t) : <<h, g>> \in before
        /\ \A g \in Elements(s), k \in Elements(t) : <<g, k>> \in before
    BY <1>10, <1>16, <1>17, <1>18
  <2> HIDE DEF before
  <2>2. /\ u \in Seq(Handlers)
        /\ InOrder(u, before)
        /\ Elements(u) = Elements(s) \cup {h} \cup Elements(t)
    BY <2>1, BetweenInOrder, SMTT(60)
  <2> QED
    BY <2>2, <1>2 DEF before
<1>20. /\ handlerOf' \in [Handlers -> Instances \cup {NoInstance}]
       /\ \A g \in Handlers : handlerOf'[g] = IF g = h THEN i ELSE handlerOf[g]
  BY <1>1, <1>2
<1>21. Elements(order') = {g \in Handlers : handlerOf'[g] # NoInstance}
  BY <1>1, <1>15, <1>19, <1>20, NoInstanceIsNone
<1>22. \A g \in Handlers : handlerOf'[g] # NoInstance => g \in Elements(b)
  <2> SUFFICES ASSUME NEW g \in Handlers, g = h \/ g \in Elements(a)
               PROVE  g \in Elements(b)
    BY <1>1, <1>20
  <2>1. CASE g = h
    <3>1. Len(a) + 1 \in 1..Len(b)
      BY <1>3
    <3> QED
      BY <2>1, <3>1, <1>3 DEF Elements
  <2>2. CASE g \in Elements(a)
    BY <2>2, <1>3 DEF Elements
  <2> QED
    BY <2>1, <2>2
<1>23. HandlersInOrder'
  BY <1>19, <1>21, OrderIsEarlier DEF InEarlierOrder, b
<1> QED
  BY <1>3, <1>4, <1>19, <1>20, <1>22, <1>23 DEF OrderInv, b

LEMMA OrderStep == OrderInv /\ [Next]_vars => OrderInv'
<1> SUFFICES ASSUME OrderInv, [Next]_vars PROVE OrderInv'
  OBVIOUS
<1>1. ASSUME UNCHANGED <<handlerOf, order, arrivals>>
      PROVE  OrderInv'
  <2>1. InEarlierOrder'
    BY <1>1, OrderIsEarlier DEF OrderInv, InEarlierOrder
  <2>2. order' \in Seq(Handlers)
    BY <1>1 DEF OrderInv
  <2>3. HandlersInOrder'
    BY <2>1, <2>2, OrderIsEarlier
  <2> QED
    BY <1>1, <2>3 DEF OrderInv
<1>2. ASSUME NEW gone, Unregistered(gone), arrivals' = arrivals
      PROVE  OrderInv'
  BY <1>2, UnregisteredKeepsOrder
<1>3. CASE UNCHANGED vars
  BY <1>1, <1>3 DEF vars
<1>4. ASSUME NEW i \in Instances, Connect(i) \/ PeerCloses(i)
      PROVE  OrderInv'
  BY <1>1, <1>4 DEF Connect, PeerCloses
<1>5. ASSUME NEW i \in Instances, EndSession(i)
      PROVE  OrderInv'
  <2>1. /\ arrivals' = arrivals
        /\ \/ Unregistered(HandlersOf(i))
           \/ UNCHANGED <<handlerOf, order>>
    BY <1>5 DEF EndSession
  <2> QED
    BY <2>1, <1>1, <1>2
<1>6. ASSUME NEW i \in Instances, Proceed(i)
      PROVE  OrderInv'
  <2>1. CASE Forward(i)
    <3>1. /\ arrivals' = arrivals
          /\ \/ Unregistered(HandlersOf(call[i].to))
             \/ UNCHANGED <<handlerOf, order>>
      BY <2>1 DEF Forward
    <3> QED
      BY <3>1, <1>1, <1>2
  <2>2. CASE Resume(i) \/ TimeOut(i)
    BY <2>2, <1>1 DEF Resume, TimeOut
  <2> QED
    BY <1>6, <2>1, <2>2 DEF Proceed
<1>7. ASSUME NEW i \in Instances, NEW h \in Handlers, UnregisterHandler(i, h)
      PROVE  OrderInv'
  BY <1>2, <1>7 DEF UnregisterHandler
<1>8. ASSUME NEW i \in Instances, NEW r \in Raises,
             StartRaise(i, r) \/ \E reply \in Replies : Answer(i, r, reply)
      PROVE  OrderInv'
  BY <1>1, <1>8 DEF StartRaise, RegisterPendingIntent, Answer
<1> QED
  BY <1>3, <1>4, <1>5, <1>6, <1>7, <1>8, RegisterKeepsOrder DEF Next

\* The list of the intent is in order, and names handlers that registered.
THEOREM OrderInvariant == Spec => []OrderInv
  BY OrderInit, OrderStep, PTL DEF Spec

\* A raise is offered to the registered handlers by priority and, with equal
\* priorities, in the order they registered, whatever handlers have been
\* registered, unregistered or lost with their websocket in between.
THEOREM HandlersStayInOrder == Spec => []HandlersInOrder
<1>1. OrderInv => HandlersInOrder
  BY DEF OrderInv
<1> QED
  BY <1>1, OrderInvariant, PTL

-----------------------------------------------------------------------------
(***************************************************************************)
(* Every variable holds the values it is meant to.                         *)
(***************************************************************************)

\* What RaiseInv and OrderInv leave of TypeOK.
SessionsFit ==
    /\ session \in [Instances -> {"new", "open", "closing", "ended"}]
    /\ handed \subseteq Instances
    /\ \A i \in Instances : call[i].to \in Instances \cup {NoInstance}

LEMMA FitIsTypeOK == RaiseInv /\ OrderInv /\ SessionsFit => TypeOK
<1> SUFFICES ASSUME RaiseInv, OrderInv, SessionsFit PROVE TypeOK
  OBVIOUS
<1> DEFINE Calls == [at : {"idle", "forwarding", "waiting"},
                     raise : Raises \cup {NoRaise},
                     to : Instances \cup {NoInstance}]
<1>1. ASSUME NEW i \in Instances PROVE call[i] \in Calls
  <2>1. call[i].to \in Instances \cup {NoInstance}
    BY DEF SessionsFit
  <2> QED
    BY <2>1 DEF RaiseInv, RaisesFit, IsCall, NoCall
<1>2. call \in [Instances -> Calls]
  <2> HIDE DEF Calls
  <2> QED
    BY <1>1 DEF RaiseInv, RaisesFit
<1> QED
  BY <1>2 DEF TypeOK, RaiseInv, RaisesFit, OrderInv, SessionsFit, Outcomes

LEMMA SessionsStep ==
    RaiseInv /\ OrderInv /\ SessionsFit /\ [Next]_vars => SessionsFit'
<1> SUFFICES ASSUME RaiseInv, OrderInv, SessionsFit, [Next]_vars
             PROVE  SessionsFit'
  OBVIOUS
<1>1. CASE UNCHANGED vars
  BY <1>1 DEF SessionsFit, vars
<1>2. ASSUME NEW i \in Instances,
             \/ Connect(i) \/ PeerCloses(i) \/ EndSession(i)
             \/ \E h \in Handlers :
                   RegisterHandler(i, h) \/ UnregisterHandler(i, h)
             \/ \E r \in Raises, reply \in Replies : Answer(i, r, reply)
      PROVE  SessionsFit'
  <2>1. /\ call' = call
        /\ handed' \subseteq handed
        /\ \/ session' = session
           \/ \E s \in {"open", "closing", "ended"} :
                 session' = [session EXCEPT ![i] = s]
    BY <1>2 DEF Connect, PeerCloses, EndSession, RegisterHandler,
       UnregisterHandler, Answer, Serves
  <2> QED
    BY <2>1 DEF SessionsFit
<1>3. ASSUME NEW i \in Instances, NEW r \in Raises, StartRaise(i, r)
      PROVE  SessionsFit'
  <2>1. /\ session' = session /\ handed' \subseteq handed
        /\ \/ call' = call
           \/ /\ order # <<>>
              /\ call' = [call EXCEPT ![i] =
                             [at |-> "forwarding", raise |-> r,
                              to |-> handlerOf[Head(order)]]]
    BY <1>3 DEF StartRaise, RegisterPendingIntent, Serves
  <2>2. order # <<>> =>
           handlerOf[Head(order)] \in Instances \cup {NoInstance}
    BY DEF OrderInv
  <2>3. \A j \in Instances : \/ call'[j] = call[j]
                             \/ call'[j].to \in Instances \cup {NoInstance}
    BY <2>1, <2>2 DEF RaiseInv, RaisesFit
  <2> QED
    BY <2>1, <2>3 DEF SessionsFit
<1>4. ASSUME NEW i \in Instances, Forward(i)
      PROVE  SessionsFit'
  <2>1. /\ session' = session
        /\ \/ handed' = handed
           \/ \E t \in connections : handed' = handed \cup {t}
        /\ call' = [call EXCEPT ![i].at = "waiting"]
    BY <1>4 DEF Forward
  <2>2. PICK at, r, to : call[i] = [at |-> at, raise |-> r, to |-> to]
    BY DEF RaiseInv, RaisesFit, IsCall, NoCall
  <2>3. \A j \in Instances : call'[j].to = call[j].to
    BY <2>1, <2>2 DEF RaiseInv, RaisesFit
  <2> QED
    BY <2>1, <2>3 DEF SessionsFit, RaiseInv, RaisesFit
<1>5. ASSUME NEW i \in Instances, Resume(i) \/ TimeOut(i)
      PROVE  SessionsFit'
  <2>1. /\ session' = session /\ handed' = handed
        /\ call' = [call EXCEPT ![i] = NoCall]
    BY <1>5 DEF Resume, TimeOut, Finish
  <2>2. \A j \in Instances : call'[j] = call[j] \/ call'[j] = NoCall
    BY <2>1 DEF RaiseInv, RaisesFit
  <2> QED
    BY <2>1, <2>2 DEF SessionsFit, NoCall
<1> QED
  BY <1>1, <1>2, <1>3, <1>4, <1>5 DEF Next, Proceed

\* Everything holds the values it is meant to: the target of a forwarded
\* raise too, which is read off the list of handlers.
THEOREM TypeCorrect == Spec => []TypeOK
<1>1. Init => SessionsFit
  BY DEF Init, SessionsFit, NoCall
<1> QED
  BY <1>1, SessionsStep, FitIsTypeOK, RaiseInvariant, OrderInvariant, PTL
     DEF Spec
=============================================================================
