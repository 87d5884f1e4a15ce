------------------------ MODULE IntentRaisingProofs -------------------------
(***************************************************************************)
(* Theorems about IntentRaising, for any apps, intents, plugins and        *)
(* numbers of requests at a time.                                          *)
(***************************************************************************)
EXTENDS IntentRaising, FiniteSetTheorems, SequenceTheorems,
        WellFoundedInduction, TLAPS

-----------------------------------------------------------------------------
(***************************************************************************)
(* What Picked leaves of a sequence.                                       *)
(***************************************************************************)
\* A set of numbers has a least one.
LEMMA LeastNumber ==
    ASSUME NEW T \in SUBSET Nat, T # {}
    PROVE  \E n \in T : \A m \in T : n <= m
<1>1. PICK n \in T : \A m \in T : ~(<<m, n>> \in OpToRel(<, Nat))
  BY NatLessThanWellFounded, WFMin
<1>2. \A m \in T : <<m, n>> \in OpToRel(<, Nat) <=> m < n
  BY Zenon DEF OpToRel
<1>3. \A m \in T : ~(m < n)
  BY <1>1, <1>2, Zenon
<1> QED
  BY <1>3

\* f lists the k numbers of keep in ascending order.
Lists(f, k, keep) ==
    /\ f \in [1..k -> keep]
    /\ \A n \in keep : \E m \in 1..k : f[m] = n
    /\ \A l, m \in 1..k : l < m => f[l] < f[m]

\* A list and a greater number.
LEMMA OneMoreListed ==
    ASSUME NEW n \in Nat, NEW keep \in SUBSET (1..n), NEW k \in Nat,
           NEW f, Lists(f, k, keep)
    PROVE  \E g : Lists(g, k + 1, keep \cup {n + 1})
<1> DEFINE g == [m \in 1..k + 1 |-> IF m = k + 1 THEN n + 1 ELSE f[m]]
<1>1. g[k + 1] = n + 1 /\ k + 1 \in 1..k + 1
  OBVIOUS
<1>2. \A m \in 1..k : /\ m \in 1..k + 1
                       /\ g[m] = f[m]
                       /\ f[m] \in keep
                       /\ f[m] \in 1..n
  <2> TAKE m \in 1..k
  <2>1. m \in 1..k + 1 /\ m # k + 1
    OBVIOUS
  <2>2. f[m] \in keep
    BY DEF Lists
  <2> QED
    BY <2>1, <2>2
<1>3. \A m \in 1..k + 1 : m \in 1..k \/ m = k + 1
  OBVIOUS
<1>4. g \in [1..k + 1 -> keep \cup {n + 1}]
  BY <1>2, <1>3
<1> HIDE DEF g
<1>5. \A t \in keep \cup {n + 1} : \E m \in 1..k + 1 : g[m] = t
  BY <1>1, <1>2 DEF Lists
<1>6. ASSUME NEW l \in 1..k + 1, NEW m \in 1..k + 1, l < m PROVE g[l] < g[m]
  <2>1. l \in 1..k
    BY <1>6
  <2>2. CASE m \in 1..k
    BY <2>1, <2>2, <1>2, <1>6 DEF Lists
  <2>3. CASE m = k + 1
    BY <2>1, <2>3, <1>1, <1>2
  <2> QED
    BY <2>2, <2>3, <1>3
<1> QED
  BY <1>4, <1>5, <1>6 DEF Lists

\* Every finite set of positive numbers can be listed.
LEMMA ListExists ==
    ASSUME NEW size \in Nat, NEW keep \in SUBSET (1..size)
    PROVE  \E f : Lists(f, Cardinality(keep), keep)
<1> DEFINE Upto(n) == keep \cap (1..n)
           bad == {n \in Nat :
                     ~\E f : Lists(f, Cardinality(Upto(n)), Upto(n))}
<1>1. \A n \in Nat : IsFiniteSet(Upto(n)) /\ Cardinality(Upto(n)) \in Nat
  <2> TAKE n \in Nat
  <2>1. IsFiniteSet(1..n) /\ Upto(n) \in SUBSET (1..n)
    BY FS_Interval
  <2>2. IsFiniteSet(Upto(n))
    BY <2>1, FS_Subset
  <2> QED
    BY <2>2, FS_CardinalityType
<1>2. 0 \notin bad
  <2>1. Upto(0) = {}
    OBVIOUS
  <2>2. Lists(<<>>, 0, {})
    BY DEF Lists
  <2> QED
    BY <2>1, <2>2, FS_EmptySet
<1>3. ASSUME NEW n \in Nat, n \notin bad PROVE n + 1 \notin bad
  <2>1. PICK f : Lists(f, Cardinality(Upto(n)), Upto(n))
    BY <1>3
  <2>2. CASE n + 1 \notin keep
    <3>1. Upto(n + 1) = Upto(n)
      BY <2>2
    <3> QED
      BY <2>1, <3>1
  <2>3. CASE n + 1 \in keep
    <3>1. Upto(n + 1) = Upto(n) \cup {n + 1} /\ n + 1 \notin Upto(n)
      BY <2>3
    <3>2. Cardinality(Upto(n + 1)) = Cardinality(Upto(n)) + 1
      BY <3>1, <1>1, FS_AddElement
    <3>3. \E g : Lists(g, Cardinality(Upto(n)) + 1, Upto(n) \cup {n + 1})
      BY <2>1, <1>1, OneMoreListed
    <3> QED
      BY <3>1, <3>2, <3>3
  <2> QED
    BY <2>2, <2>3
<1>4. bad = {}
  <2> SUFFICES ASSUME bad # {} PROVE FALSE
    OBVIOUS
  <2>1. PICK n \in bad : \A m \in bad : n <= m
    BY LeastNumber
  <2>2. n - 1 \in Nat /\ n - 1 \notin bad
    BY <2>1, <1>2
  <2>3. n - 1 + 1 \notin bad
    BY <2>2, <1>3
  <2> QED
    BY <2>1, <2>3
<1>5. Upto(size) = keep
  OBVIOUS
<1> QED
  BY <1>4, <1>5

\* Ascending is what it is called.
LEMMA AscendingLists ==
    ASSUME NEW size \in Nat, NEW keep \in SUBSET (1..size)
    PROVE  /\ Cardinality(keep) \in Nat
           /\ Lists(Ascending(keep), Cardinality(keep), keep)
<1>1. Cardinality(keep) \in Nat
  <2>1. IsFiniteSet(1..size)
    BY FS_Interval
  <2>2. IsFiniteSet(keep)
    BY <2>1, FS_Subset
  <2> QED
    BY <2>2, FS_CardinalityType
<1>2. PICK f : Lists(f, Cardinality(keep), keep)
  BY ListExists
<1>3. \A g : /\ g \in Bijection(1..Cardinality(keep), keep)
             /\ \A m, n \in DOMAIN g : m < n => g[m] < g[n]
        => Lists(g, Cardinality(keep), keep)
  BY DEF Lists, Bijection, Injection, Surjection
<1>4. /\ f \in Bijection(1..Cardinality(keep), keep)
      /\ \A m, n \in DOMAIN f : m < n => f[m] < f[n]
  <2> DEFINE k == Cardinality(keep)
  <2>1. /\ f \in [1..k -> keep]
        /\ \A t \in keep : \E m \in 1..k : f[m] = t
        /\ \A l, m \in 1..k : l < m => f[l] < f[m]
    BY <1>2 DEF Lists
  <2>2. \A l, m \in 1..k : f[l] = f[m] => l = m
    <3> HIDE DEF k
    <3>1. \A m \in 1..k : f[m] \in 1..size
      BY <2>1
    <3> QED
      BY <2>1, <3>1, <1>1 DEF k
  <2> QED
    BY <2>1, <2>2 DEF Bijection, Injection, Surjection, IsInjective
<1> QED
  BY <1>1, <1>3, <1>4 DEF Ascending

\* What is picked of a sequence: elements at ascending positions, all those
\* at the positions to keep and no others.
LEMMA PickedElements ==
    ASSUME NEW S, NEW s \in Seq(S), NEW keep \in SUBSET (1..Len(s))
    PROVE  /\ Picked(s, keep) \in Seq(S)
           /\ Len(Picked(s, keep)) = Cardinality(keep)
           /\ \E f : /\ Lists(f, Len(Picked(s, keep)), keep)
                     /\ \A n \in 1..Len(Picked(s, keep)) :
                           Picked(s, keep)[n] = s[f[n]]
<1> DEFINE k == Cardinality(keep)
           f == Ascending(keep)
<1>1. k \in Nat /\ Lists(f, k, keep)
  <2>1. Len(s) \in Nat
    OBVIOUS
  <2> QED
    BY <2>1, AscendingLists
<1>2. \A n \in 1..k : f[n] \in 1..Len(s)
  BY <1>1 DEF Lists
<1>3. Picked(s, keep) = [n \in 1..k |-> s[f[n]]]
  BY DEF Picked
<1> HIDE DEF k, f
<1>4. Picked(s, keep) \in [1..k -> S]
  BY <1>2, <1>3
<1>5. Picked(s, keep) \in Seq(S) /\ Len(Picked(s, keep)) = k
  BY <1>1, <1>3, <1>4
<1> QED
  BY <1>1, <1>3, <1>5 DEF k

-----------------------------------------------------------------------------
(***************************************************************************)
(* Types.                                                                  *)
(***************************************************************************)
Waits == {"new", "remote", "system", "plugins", "listing", "choosing",
          "answering", "sending"} \cup Over

RaiseRecords ==
    [at : Waits, by : Sources \cup {NoApp}, intent : Intents \cup {NoIntent},
     plugins : Seq(Plugins), found : SUBSET (Intents \X Apps),
     target : Apps \cup {NoApp}, named : Apps \cup {NoApp}, rest : Seq(Apps)]

ListenerRecords == [instance : Apps, intent : Intents]

Takers == {"remote", "system", "plugin", "external"}

\* w, waiting elsewhere.
LEMMA AtChanges ==
    ASSUME NEW w \in RaiseRecords, NEW x \in Waits
    PROVE  /\ [w EXCEPT !.at = x] \in RaiseRecords
           /\ [w EXCEPT !.at = x].at = x
           /\ [w EXCEPT !.at = x].intent = w.intent
           /\ [w EXCEPT !.at = x].named = w.named
           /\ [w EXCEPT !.at = x].rest = w.rest
  BY DEF RaiseRecords

LEMMA PluginsChange ==
    ASSUME NEW w \in RaiseRecords, NEW p \in Seq(Plugins)
    PROVE  /\ [w EXCEPT !.plugins = p] \in RaiseRecords
           /\ [w EXCEPT !.plugins = p].at = w.at
           /\ [w EXCEPT !.plugins = p].named = w.named
  BY DEF RaiseRecords

LEMMA RestChanges ==
    ASSUME NEW w \in RaiseRecords, NEW p \in Seq(Apps)
    PROVE  /\ [w EXCEPT !.rest = p] \in RaiseRecords
           /\ [w EXCEPT !.rest = p].at = w.at
           /\ [w EXCEPT !.rest = p].intent = w.intent
           /\ [w EXCEPT !.rest = p].named = w.named
           /\ [w EXCEPT !.rest = p].rest = p
  BY DEF RaiseRecords

LEMMA SendingChanges ==
    ASSUME NEW w \in RaiseRecords, NEW p \in Seq(Apps)
    PROVE  LET v == [w EXCEPT !.at = "sending", !.rest = p]
           IN  /\ v \in RaiseRecords
               /\ v.at = "sending" /\ v.rest = p
               /\ v.named = w.named
  BY DEF RaiseRecords, Waits

LEMMA AnsweringChanges ==
    ASSUME NEW w \in RaiseRecords, NEW i \in Apps
    PROVE  LET v == [w EXCEPT !.at = "answering", !.named = i]
           IN  /\ v \in RaiseRecords
               /\ v.at = "answering" /\ v.named = i
               /\ v.intent = w.intent
  BY DEF RaiseRecords, Waits

LEMMA ChoosingChanges ==
    ASSUME NEW w \in RaiseRecords, NEW fits \in SUBSET (Intents \X Apps)
    PROVE  /\ [w EXCEPT !.at = "choosing", !.found = fits] \in RaiseRecords
           /\ [w EXCEPT !.at = "choosing", !.found = fits].at = "choosing"
           /\ [w EXCEPT !.at = "choosing", !.found = fits].named = w.named
  BY DEF RaiseRecords, Waits

LEMMA IntentChanges ==
    ASSUME NEW w \in RaiseRecords, NEW n \in Intents
    PROVE  [w EXCEPT !.intent = n] \in RaiseRecords
  BY DEF RaiseRecords

LEMMA NoRaiseFits ==
    NoRaise \in RaiseRecords /\ NoRaise.at = "new" /\ NoRaise.named = NoApp
  BY DEF NoRaise, RaiseRecords, Waits

LEMMA RaisingChanges ==
    ASSUME NEW w \in RaiseRecords, NEW a \in Sources, NEW n \in Intents
    PROVE  /\ [w EXCEPT !.by = a, !.intent = n] \in RaiseRecords
           /\ [w EXCEPT !.by = a, !.intent = n].intent = n
           /\ [w EXCEPT !.by = a, !.intent = n].named = w.named
  BY DEF RaiseRecords

LEMMA ListingChanges ==
    ASSUME NEW w \in RaiseRecords, NEW a \in Sources,
           NEW t \in Apps \cup {NoApp}
    PROVE  /\ [w EXCEPT !.at = "listing", !.by = a, !.target = t]
                 \in RaiseRecords
           /\ [w EXCEPT !.at = "listing", !.by = a, !.target = t].at
                 = "listing"
           /\ [w EXCEPT !.at = "listing", !.by = a, !.target = t].named
                 = w.named
  BY DEF RaiseRecords, Waits

LEMMA RaisingFits ==
    ASSUME NEW a \in Sources, NEW n \in Intents
    PROVE  /\ [NoRaise EXCEPT !.by = a, !.intent = n] \in RaiseRecords
           /\ [NoRaise EXCEPT !.by = a, !.intent = n].intent = n
           /\ [NoRaise EXCEPT !.by = a, !.intent = n].named = NoApp
  BY NoRaiseFits, RaisingChanges, Zenon

LEMMA ListingFits ==
    ASSUME NEW a \in Sources, NEW t \in Apps \cup {NoApp}
    PROVE  /\ [NoRaise EXCEPT !.at = "listing", !.by = a, !.target = t]
                 \in RaiseRecords
           /\ [NoRaise EXCEPT !.at = "listing", !.by = a, !.target = t].at
                 = "listing"
           /\ [NoRaise EXCEPT !.at = "listing", !.by = a, !.target = t].named
                 = NoApp
<1>1. PICK w \in RaiseRecords : w = NoRaise /\ w.named = NoApp
  BY NoRaiseFits, Zenon
<1>2. /\ [w EXCEPT !.at = "listing", !.by = a, !.target = t] \in RaiseRecords
      /\ [w EXCEPT !.at = "listing", !.by = a, !.target = t].at = "listing"
      /\ [w EXCEPT !.at = "listing", !.by = a, !.target = t].named = w.named
  BY ListingChanges
<1> QED
  BY <1>1, <1>2, Zenon

LEMMA Filtered ==
    ASSUME NEW S, NEW s \in Seq(S), NEW keep \in SUBSET (1..Len(s))
    PROVE  /\ Picked(s, keep) \in Seq(S)
           /\ Len(Picked(s, keep)) <= Len(s)
           /\ \A n \in 1..Len(Picked(s, keep)) :
                 \E m \in keep : Picked(s, keep)[n] = s[m]
<1>1. PICK k, f : /\ Picked(s, keep) \in Seq(S)
                  /\ k = Len(Picked(s, keep))
                  /\ Lists(f, k, keep)
                  /\ \A n \in 1..k : Picked(s, keep)[n] = s[f[n]]
  BY PickedElements
<1>2. Cardinality(keep) <= Len(s)
  <2>1. Len(s) \in Nat /\ 1 \in Int /\ Len(s) \in Int
    OBVIOUS
  <2>2. IsFiniteSet(1..Len(s)) /\ Cardinality(1..Len(s)) = Len(s)
    BY <2>1, FS_Interval
  <2> QED
    BY <2>2, FS_Subset
<1>3. Len(Picked(s, keep)) = Cardinality(keep)
  BY PickedElements
<1> QED
  BY <1>1, <1>2, <1>3 DEF Lists

LEMMA StoreFits ==
    ASSUME TypeOK, NEW gone
    PROVE  /\ Without(gone) \in Seq(ListenerRecords)
           /\ Len(Without(gone)) <= MaxListeners
           /\ \A n \in DOMAIN Without(gone) :
                 \E m \in DOMAIN listeners \ gone :
                    Without(gone)[n] = listeners[m]
<1> DEFINE keep == DOMAIN listeners \ gone
<1>1. /\ listeners \in Seq(ListenerRecords)
      /\ Len(listeners) \in Nat /\ Len(listeners) <= MaxListeners
      /\ DOMAIN listeners = 1..Len(listeners)
  BY DEF TypeOK, ListenerRecords
<1> HIDE DEF ListenerRecords
<1>2. keep \in SUBSET (1..Len(listeners))
  BY <1>1
<1> HIDE DEF keep
<1>3. /\ Picked(listeners, keep) \in Seq(ListenerRecords)
      /\ Len(Picked(listeners, keep)) <= Len(listeners)
      /\ \A n \in 1..Len(Picked(listeners, keep)) :
            \E m \in keep : Picked(listeners, keep)[n] = listeners[m]
  BY <1>1, <1>2, Filtered
<1>4. /\ DOMAIN Picked(listeners, keep) = 1..Len(Picked(listeners, keep))
      /\ Len(Picked(listeners, keep)) \in Nat
  BY <1>3
<1>5. Without(gone) = Picked(listeners, keep)
  BY DEF Without, keep
<1>6. Len(Without(gone)) <= MaxListeners
  BY <1>1, <1>3, <1>4, <1>5, MaxListenersIsNat
<1>7. \A n \in DOMAIN Without(gone) : \E m \in keep : Without(gone)[n] = listeners[m]
  BY <1>3, <1>4, <1>5
<1> QED
  BY <1>3, <1>5, <1>6, <1>7 DEF keep

\* Listeners are found by their intent.
LEMMA ListenersForFit ==
    ASSUME TypeOK, NEW n
    PROVE  /\ ListenersFor(n) \in Seq(Apps)
           /\ \A k \in 1..Len(ListenersFor(n)) :
                 ListensFor(ListenersFor(n)[k], n, listeners)
<1> DEFINE keep == {k \in DOMAIN listeners : listeners[k].intent = n}
           own == Picked(listeners, keep)
<1>1. listeners \in Seq(ListenerRecords)
  BY DEF TypeOK, ListenerRecords
<1>2. keep \in SUBSET (1..Len(listeners))
  BY <1>1
<1>3. \A m \in keep : m \in DOMAIN listeners /\ listeners[m].intent = n
  OBVIOUS
<1> HIDE DEF keep
<1>4. /\ own \in Seq(ListenerRecords)
      /\ \A k \in 1..Len(own) : \E m \in keep : own[k] = listeners[m]
  BY <1>1, <1>2, Filtered
<1>5. ListenersFor(n) = [k \in DOMAIN own |-> own[k].instance]
  BY DEF ListenersFor, keep
<1> HIDE DEF own
<1>6. /\ DOMAIN own = 1..Len(own) /\ Len(own) \in Nat
      /\ \A k \in 1..Len(own) : own[k].instance \in Apps
  <2>1. /\ DOMAIN own = 1..Len(own) /\ Len(own) \in Nat
        /\ \A k \in 1..Len(own) : own[k] \in ListenerRecords
    BY <1>4
  <2>2. \A l \in ListenerRecords : l.instance \in Apps
    BY DEF ListenerRecords
  <2> QED
    BY <2>1, <2>2
<1>7. ListenersFor(n) \in Seq(Apps) /\ Len(ListenersFor(n)) = Len(own)
  BY <1>5, <1>6
<1>8. ASSUME NEW k \in 1..Len(own)
      PROVE  ListensFor(ListenersFor(n)[k], n, listeners)
  BY <1>3, <1>4, <1>5, <1>6 DEF ListensFor
<1> QED
  BY <1>7, <1>8

LEMMA ResolvedFits ==
    ASSUME TypeOK, NEW n, Resolved(n) # NoApp
    PROVE  /\ Resolved(n) \in Apps
           /\ Registered(Resolved(n))
           /\ ListensFor(Resolved(n), n, listeners)
<1> DEFINE found == ListenersFor(n)
<1>1. /\ found \in Seq(Apps)
      /\ \A k \in 1..Len(found) : ListensFor(found[k], n, listeners)
  BY ListenersForFit
<1>2. /\ found # <<>> /\ Registered(Head(found))
      /\ Resolved(n) = Head(found)
  BY DEF Resolved
<1> HIDE DEF found
<1>3. 1 \in 1..Len(found) /\ Head(found) = found[1] /\ Head(found) \in Apps
  BY <1>1, <1>2
<1> QED
  BY <1>1, <1>2, <1>3

LEMMA TargetsFit ==
    ASSUME TypeOK, NEW n, NEW i \in Apps
    PROVE  /\ Targets(n, i) \in Seq(Apps)
           /\ Registered(i) /\ ListensFor(i, n, listeners) =>
                 Targets(n, i) = <<i>>
  BY ListenersForFit DEF Targets

LEMMA LocalFits ==
    ASSUME NEW w \in RaiseRecords, w.intent \in Intents
    PROVE  /\ Local(w) \in RaiseRecords
           /\ Local(w).at \in {"system", "plugins"}
           /\ Local(w).named = w.named
<1>1. PluginsFor[w.intent] \in Seq(Plugins)
  BY PluginsForIntents
<1> QED
  BY <1>1 DEF Local, RaiseRecords, Waits

-----------------------------------------------------------------------------
(***************************************************************************)
(* The invariant.                                                          *)
(***************************************************************************)

\* Who is asked first, keeps it.
FirstTakes(g) ==
    \A k \in DOMAIN g :
        /\ g[k] \in {"system", "plugin"} => k = Len(g)
        /\ g[k] = "external" => \A m \in DOMAIN g : m > k => g[m] \in Apps
        /\ g[k] = "remote" => k = 1

\* Who can have been handed a raise whose handler waits at some point.
TakenFit(at, g) ==
    /\ at \in {"new", "remote", "listing", "choosing"} => g = <<>>
    /\ at \in {"system", "plugins"} => g \in {<<>>, <<"remote">>}
    /\ at = "answering" =>
          g \in {<<>>, <<"remote">>, <<"external">>, <<"remote", "external">>}
    /\ at = "sending" => \A k \in DOMAIN g : g[k] \notin {"system", "plugin"}
    /\ FirstTakes(g)

\* What is so of a raise with handler w, answer a, given to g: until it is
\* excused, its instance listens when it is answered, is the only target
\* then, and has the event or no websocket once it is not in the rest.
Told(a, g) == a \in Range(g) \/ socket[a] # "open"

NamedFit(r, w, a, g) ==
    /\ w.at = "remote" => w.intent \in Intents
    /\ w.named \in Apps => socket[w.named] # "new"
    /\ w.at = "answering" =>
          /\ w.named \in Apps
          /\ r \in excused \/ ListensFor(w.named, w.intent, listeners)
    /\ a \in Apps => w.at \in {"sending", "done"} /\ w.named = a
    /\ a \in Apps /\ r \notin excused =>
          /\ w.at = "sending" => \/ w.rest = <<a>>
                                 \/ w.rest = <<>> /\ Told(a, g)
          /\ w.at = "done" => Told(a, g)
          /\ \A i \in Apps \cap Range(g) : i = a

\* A websocket that is open has its connection.
OpenIsConnected ==
    \A i \in Apps : socket[i] = "open" => i \in connections

IntentInv ==
    /\ TypeOK
    /\ OpenIsConnected
    /\ ListenersAreRegistered
    /\ \A r \in Raises : TakenFit(raise[r].at, given[r])
    /\ \A r \in Raises : NamedFit(r, raise[r], answer[r], given[r])

LEMMA IntentInvSuffices ==
    IntentInv => /\ TypeOK /\ ListenersAreRegistered
                 /\ FirstTakerKeepsIt /\ NamedAppIsTold
<1> SUFFICES ASSUME IntentInv
             PROVE  FirstTakerKeepsIt /\ NamedAppIsTold
  BY DEF IntentInv
<1>1. FirstTakerKeepsIt
  BY DEF IntentInv, TakenFit, FirstTakes, FirstTakerKeepsIt
<1>2. NamedAppIsTold
  BY DEF IntentInv, NamedFit, Told, NamedAppIsTold
<1> QED
  BY <1>1, <1>2

LEMMA IntentInit == Init => IntentInv
<1> SUFFICES ASSUME Init PROVE IntentInv
  OBVIOUS
<1>1. NoRaise \in RaiseRecords /\ NoRaise.at = "new" /\ NoRaise.named = NoApp
  BY NoRaiseFits
<1>2. TypeOK
  BY <1>1, MaxListenersIsNat DEF Init, TypeOK, RaiseRecords, Waits
<1>3. OpenIsConnected /\ ListenersAreRegistered
  BY DEF Init, OpenIsConnected, ListenersAreRegistered
<1>4. \A r \in Raises : TakenFit(raise[r].at, given[r])
  BY <1>1 DEF Init, TakenFit, FirstTakes
<1>5. \A r \in Raises : NamedFit(r, raise[r], answer[r], given[r])
  BY <1>1, AgentsAreNoApps, WordsAreNoApps DEF Init, NamedFit
<1> QED
  BY <1>2, <1>3, <1>4, <1>5 DEF IntentInv

-----------------------------------------------------------------------------
(***************************************************************************)
(* Steps of websockets and listeners.                                      *)
(***************************************************************************)
LEMMA SocketsKeepRaises ==
    ASSUME IntentInv, TypeOK', OpenIsConnected', ListenersAreRegistered',
           UNCHANGED <<raise, answer, given>>,
           excused \subseteq excused',
           \A i \in Apps : /\ socket[i] # "new" => socket'[i] # "new"
                           /\ socket[i] \notin {"new", "open"} =>
                                 socket'[i] # "open",
           \A r \in Raises :
              /\ raise[r].at = "answering"
              /\ raise[r].named \in Apps
              /\ ListensFor(raise[r].named, raise[r].intent, listeners)
              => \/ r \in excused'
                 \/ ListensFor(raise[r].named, raise[r].intent, listeners')
    PROVE  IntentInv'
<1>1. \A r \in Raises : TakenFit(raise[r].at, given[r])'
  BY DEF IntentInv, TakenFit, FirstTakes
<1>2. ASSUME NEW r \in Raises
      PROVE  NamedFit(r, raise[r], answer[r], given[r])'
  <2>1. NamedFit(r, raise[r], answer[r], given[r])
    BY DEF IntentInv
  <2>2. /\ raise[r].named \in Apps => socket'[raise[r].named] # "new"
        /\ answer[r] \in Apps /\ Told(answer[r], given[r]) =>
              Told(answer[r], given[r])'
    BY <2>1 DEF NamedFit, Told
  <2>3. raise[r].at = "answering" =>
           \/ r \in excused'
           \/ ListensFor(raise[r].named, raise[r].intent, listeners')
    BY <2>1 DEF NamedFit
  <2> QED
    BY <2>1, <2>2, <2>3 DEF NamedFit
<1> QED
  BY <1>1, <1>2 DEF IntentInv

\* Whoever is not excused when the store changes, still listens.
LEMMA ExcuseExcuses ==
    ASSUME TypeOK, Excuse(listeners')
    PROVE  /\ excused \subseteq excused' /\ excused' \subseteq Raises
           /\ \A r \in Raises :
                 raise[r].at = "answering" /\ raise[r].named \in Apps =>
                    \/ r \in excused'
                    \/ ListensFor(raise[r].named, raise[r].intent, listeners')
  BY AgentsAreNoApps DEF TypeOK, Excuse, Underway, Over

\* The store loses some listeners.
LEMMA LeavingKeepsRaises ==
    ASSUME IntentInv, NEW gone, listeners' = Without(gone),
           Excuse(listeners'), UNCHANGED <<raise, answer, given>>,
           connections' \subseteq connections,
           socket' \in [Apps -> {"new", "open", "broken", "ended"}],
           OpenIsConnected',
           \A i \in Apps : /\ socket[i] # "new" => socket'[i] # "new"
                           /\ socket[i] \notin {"new", "open"} =>
                                 socket'[i] # "open",
           \A k \in DOMAIN listeners \ gone :
              socket'[listeners[k].instance] \in {"open", "broken"}
    PROVE  IntentInv'
<1>1. TypeOK /\ ListenersAreRegistered
  BY DEF IntentInv
<1>2. /\ listeners' \in Seq(ListenerRecords)
      /\ Len(listeners') <= MaxListeners
      /\ \A n \in DOMAIN listeners' : \E m \in DOMAIN listeners \ gone :
            listeners'[n] = listeners[m]
  BY <1>1, StoreFits
<1>3. TypeOK'
  BY <1>1, <1>2, ExcuseExcuses DEF TypeOK, ListenerRecords
<1>4. ListenersAreRegistered'
  BY <1>2 DEF ListenersAreRegistered, Registered
<1> QED
  BY <1>1, <1>3, <1>4, ExcuseExcuses, SocketsKeepRaises

LEMMA ConnectKeeps ==
    ASSUME IntentInv, NEW i \in Apps, Connect(i) \/ Break(i)
    PROVE  IntentInv'
<1>1. /\ UNCHANGED <<listeners, raise, answer, given, excused>>
      /\ \/ /\ socket[i] = "new" /\ socket' = [socket EXCEPT ![i] = "open"]
            /\ connections' = connections \cup {i}
         \/ /\ socket[i] = "open" /\ socket' = [socket EXCEPT ![i] = "broken"]
            /\ connections' = connections
  BY DEF Connect, Break
<1>2. /\ socket \in [Apps -> {"new", "open", "broken", "ended"}]
      /\ connections \subseteq Apps
      /\ listeners \in Seq(ListenerRecords)
  BY DEF IntentInv, TypeOK, ListenerRecords
<1>3. TypeOK'
  BY <1>1, <1>2 DEF IntentInv, TypeOK
<1>4. OpenIsConnected'
  BY <1>1, <1>2 DEF IntentInv, OpenIsConnected
<1>5. \A k \in DOMAIN listeners : listeners[k].instance \in Apps
  <2>1. \A k \in DOMAIN listeners : listeners[k] \in ListenerRecords
    BY <1>2
  <2> QED
    BY <2>1 DEF ListenerRecords
<1>6. ListenersAreRegistered'
  BY <1>1, <1>2, <1>5 DEF IntentInv, ListenersAreRegistered, Registered
<1>7. \A j \in Apps : /\ socket[j] # "new" => socket'[j] # "new"
                      /\ socket[j] \notin {"new", "open"} =>
                            socket'[j] # "open"
  BY <1>1, <1>2
<1> QED
  BY <1>1, <1>3, <1>4, <1>6, <1>7, SocketsKeepRaises

LEMMA EndKeeps ==
    ASSUME IntentInv, NEW i \in Apps, EndSession(i)
    PROVE  IntentInv'
<1>1. /\ UNCHANGED <<raise, answer, given>>
      /\ Excuse(listeners')
      /\ listeners' = Without(ListenersOf(i))
      /\ socket[i] = "broken" /\ socket' = [socket EXCEPT ![i] = "ended"]
      /\ connections' = connections \ {i}
  BY DEF EndSession
<1>2. /\ socket \in [Apps -> {"new", "open", "broken", "ended"}]
      /\ listeners \in Seq(ListenerRecords)
      /\ ListenersAreRegistered /\ OpenIsConnected
  BY DEF IntentInv, TypeOK, ListenerRecords
<1>3. OpenIsConnected'
  BY <1>1, <1>2 DEF OpenIsConnected
<1>4. \A j \in Apps : /\ socket[j] # "new" => socket'[j] # "new"
                      /\ socket[j] \notin {"new", "open"} =>
                            socket'[j] # "open"
  BY <1>1, <1>2
<1>5. \A k \in DOMAIN listeners \ ListenersOf(i) :
         socket'[listeners[k].instance] \in {"open", "broken"}
  <2>1. \A k \in DOMAIN listeners : listeners[k] \in ListenerRecords
    BY <1>2
  <2>2. \A k \in DOMAIN listeners : listeners[k].instance \in Apps
    BY <2>1 DEF ListenerRecords
  <2> QED
    BY <1>1, <1>2, <2>2 DEF ListenersAreRegistered, Registered, ListenersOf
<1> QED
  BY <1>1, <1>2, <1>3, <1>4, <1>5, LeavingKeepsRaises

LEMMA UnsubscribeKeeps ==
    ASSUME IntentInv, NEW i \in Apps, NEW k \in DOMAIN listeners,
           IntentListenerUnsubscribe(i, k)
    PROVE  IntentInv'
<1>1. /\ UNCHANGED <<raise, answer, given, socket, connections>>
      /\ Excuse(listeners')
      /\ listeners' = Without({k})
  BY DEF IntentListenerUnsubscribe
<1>2. /\ socket \in [Apps -> {"new", "open", "broken", "ended"}]
      /\ ListenersAreRegistered /\ OpenIsConnected
  BY DEF IntentInv, TypeOK
<1>3. OpenIsConnected'
  BY <1>1, <1>2 DEF OpenIsConnected
<1>4. \A n \in DOMAIN listeners \ {k} :
         socket'[listeners[n].instance] \in {"open", "broken"}
  BY <1>1, <1>2 DEF ListenersAreRegistered, Registered
<1> QED
  BY <1>1, <1>2, <1>3, <1>4, LeavingKeepsRaises

LEMMA AddKeeps ==
    ASSUME IntentInv, NEW i \in Apps, NEW n \in Intents,
           AddIntentListener(i, n)
    PROVE  IntentInv'
<1> DEFINE l == [instance |-> i, intent |-> n]
<1>1. /\ UNCHANGED <<socket, connections, raise, answer, given, excused>>
      /\ socket[i] = "open"
      /\ Len(listeners) < MaxListeners
      /\ listeners' = Append(listeners, l)
  BY DEF AddIntentListener, Serves
<1>2. listeners \in Seq(ListenerRecords) /\ TypeOK /\ OpenIsConnected
  BY DEF IntentInv, TypeOK, ListenerRecords
<1>3. l \in ListenerRecords /\ l.instance = i
  BY DEF ListenerRecords
<1> HIDE DEF l, ListenerRecords
<1>4. /\ listeners' \in Seq(ListenerRecords)
      /\ Len(listeners') = Len(listeners) + 1
      /\ DOMAIN listeners = 1..Len(listeners) /\ Len(listeners) \in Nat
      /\ DOMAIN listeners' = 1..Len(listeners) + 1
      /\ \A k \in DOMAIN listeners : listeners'[k] = listeners[k]
      /\ listeners'[Len(listeners) + 1] = l
  BY <1>1, <1>2, <1>3
<1>5. TypeOK'
  <2>1. Len(listeners') <= MaxListeners
    BY <1>1, <1>4, MaxListenersIsNat
  <2> QED
    BY <1>1, <1>2, <1>4, <2>1 DEF TypeOK, ListenerRecords
<1>6. OpenIsConnected'
  BY <1>1, <1>2 DEF OpenIsConnected
<1>7. ListenersAreRegistered'
  <2>1. \A k \in DOMAIN listeners' :
           k \in DOMAIN listeners \/ k = Len(listeners) + 1
    BY <1>4
  <2> QED
    BY <1>1, <1>3, <1>4, <2>1 DEF IntentInv, ListenersAreRegistered, Registered
<1>8. \A a, m : ListensFor(a, m, listeners) => ListensFor(a, m, listeners')
  BY <1>4 DEF ListensFor
<1> QED
  BY <1>1, <1>5, <1>6, <1>7, <1>8, SocketsKeepRaises

-----------------------------------------------------------------------------
(***************************************************************************)
(* Steps of a handler.                                                     *)
(***************************************************************************)

\* One raise moves on: it suffices to look at that one.
LEMMA RaiseMoves ==
    ASSUME IntentInv, NEW r \in Raises,
           NEW w \in RaiseRecords, NEW a \in {"none"} \cup Answers,
           NEW g \in Seq(Takers \cup Apps),
           raise' = [raise EXCEPT ![r] = w],
           answer' = [answer EXCEPT ![r] = a],
           given' = [given EXCEPT ![r] = g],
           UNCHANGED <<socket, listeners, excused>>,
           connections' \subseteq connections,
           \A i \in connections \ connections' : socket[i] # "open",
           TakenFit(w.at, g), NamedFit(r, w, a, g)
    PROVE  IntentInv'
<1>1. /\ raise \in [Raises -> RaiseRecords]
      /\ answer \in [Raises -> {"none"} \cup Answers]
      /\ given \in [Raises -> Seq(Takers \cup Apps)]
      /\ TypeOK
  BY DEF IntentInv, TypeOK, RaiseRecords, Waits, Takers
<1>2. TypeOK'
  <2>1. /\ raise' \in [Raises -> RaiseRecords]
        /\ answer' \in [Raises -> {"none"} \cup Answers]
        /\ given' \in [Raises -> Seq(Takers \cup Apps)]
    BY <1>1
  <2> QED
    BY <1>1, <2>1 DEF TypeOK, RaiseRecords, Waits, Takers
<1>3. OpenIsConnected' /\ ListenersAreRegistered'
  BY DEF IntentInv, OpenIsConnected, ListenersAreRegistered, Registered
<1>4. ASSUME NEW q \in Raises
      PROVE  /\ TakenFit(raise'[q].at, given'[q])
             /\ NamedFit(q, raise'[q], answer'[q], given'[q])
  <2>1. CASE q = r
    BY <1>1, <2>1
  <2>2. CASE q # r
    BY <1>1, <2>2 DEF IntentInv
  <2> QED
    BY <2>1, <2>2
<1>5. \A q \in Raises : TakenFit(raise[q].at, given[q])'
  BY <1>4 DEF TakenFit, FirstTakes
<1>6. \A q \in Raises : NamedFit(q, raise[q], answer[q], given[q])'
  BY <1>4 DEF NamedFit, Told
<1> QED
  BY <1>2, <1>3, <1>5, <1>6 DEF IntentInv

\* What is known of raise r.
LEMMA RaiseFacts ==
    ASSUME IntentInv, NEW r \in Raises
    PROVE  /\ raise[r] \in RaiseRecords
           /\ answer[r] \in {"none"} \cup Answers
           /\ given[r] \in Seq(Takers \cup Apps)
           /\ raise = [raise EXCEPT ![r] = raise[r]]
           /\ answer = [answer EXCEPT ![r] = answer[r]]
           /\ given = [given EXCEPT ![r] = given[r]]
           /\ TakenFit(raise[r].at, given[r])
           /\ NamedFit(r, raise[r], answer[r], given[r])
           /\ raise[r].at \notin {"sending", "done"} => answer[r] \notin Apps
<1>1. /\ raise \in [Raises -> RaiseRecords]
      /\ answer \in [Raises -> {"none"} \cup Answers]
      /\ given \in [Raises -> Seq(Takers \cup Apps)]
  BY DEF IntentInv, TypeOK, RaiseRecords, Waits, Takers
<1> QED
  BY <1>1 DEF IntentInv, NamedFit

\* Before the answer names an app, nothing is said of who has been told.
LEMMA NothingNamed ==
    ASSUME IntentInv, NEW r \in Raises, NEW w \in RaiseRecords,
           NEW a, NEW g, a \notin Apps,
           w.at # "answering", w.named \in {NoApp, raise[r].named},
           w.at = "remote" => w.intent \in Intents
    PROVE  NamedFit(r, w, a, g)
  BY RaiseFacts, AgentsAreNoApps DEF NamedFit

\* Those who take an intent for good, or for half a minute.
LEMMA Takes ==
    ASSUME NEW g \in {<<>>, <<"remote">>},
           NEW x \in {"system", "plugin", "external"}
    PROVE  /\ Append(g, x) \in Seq(Takers \cup Apps)
           /\ FirstTakes(Append(g, x))
           /\ x = "external" =>
                 Append(g, x) \in {<<"external">>, <<"remote", "external">>}
<1>1. CASE g = <<>>
  <2>1. Append(g, x) = <<x>>
    BY <1>1
  <2> QED
    BY <2>1 DEF FirstTakes, Takers
<1>2. CASE g = <<"remote">>
  <2>1. Append(g, x) = <<"remote", x>>
    <3> DEFINE h == Append(g, x)
               S == {"remote", x}
    <3>1. /\ h \in Seq(S) /\ Len(h) = 2
          /\ h[1] = "remote" /\ h[2] = x
      BY <1>2
    <3>2. /\ <<"remote", x>> \in Seq(S) /\ Len(<<"remote", x>>) = 2
          /\ <<"remote", x>>[1] = "remote" /\ <<"remote", x>>[2] = x
      OBVIOUS
    <3> HIDE DEF h, S
    <3>3. \A k \in 1..2 : h[k] = <<"remote", x>>[k]
      BY <3>1, <3>2
    <3>4. h = <<"remote", x>>
      BY <3>1, <3>2, <3>3, SeqEqual
    <3> QED
      BY <3>4 DEF h
  <2> QED
    BY <2>1 DEF FirstTakes, Takers
<1> QED
  BY <1>1, <1>2

Passed == {<<>>, <<"remote">>, <<"external">>, <<"remote", "external">>}

LEMMA PassedFit ==
    ASSUME NEW g \in Passed
    PROVE  /\ FirstTakes(g)
           /\ \A k \in DOMAIN g : g[k] \in {"remote", "external"}
           /\ Apps \cap Range(g) = {}
           /\ g \in Seq(Takers \cup Apps)
<1>1. ASSUME NEW x \in {"remote", "external"}, g = <<x>>
      PROVE  /\ FirstTakes(g)
             /\ \A k \in DOMAIN g : g[k] \in {"remote", "external"}
             /\ g \in Seq(Takers \cup Apps)
  BY <1>1 DEF FirstTakes, Takers
<1>2. ASSUME g = <<>> PROVE FirstTakes(g) /\ g \in Seq(Takers \cup Apps)
  BY <1>2 DEF FirstTakes
<1>3. ASSUME g = <<"remote", "external">>
      PROVE  /\ FirstTakes(g)
             /\ \A k \in DOMAIN g : g[k] \in {"remote", "external"}
             /\ g \in Seq(Takers \cup Apps)
  BY <1>3 DEF FirstTakes, Takers
<1>4. /\ FirstTakes(g)
      /\ \A k \in DOMAIN g : g[k] \in {"remote", "external"}
      /\ g \in Seq(Takers \cup Apps)
  BY <1>1, <1>2, <1>3 DEF Passed
<1>5. Apps \cap Range(g) = {}
  BY <1>4, WordsAreNoApps DEF Range
<1> QED
  BY <1>4, <1>5

\* An app gets it after all others.
LEMMA AppTakes ==
    ASSUME NEW g \in Seq(Takers \cup Apps), NEW i \in Apps, FirstTakes(g),
           \A k \in DOMAIN g : g[k] \notin {"system", "plugin"}
    PROVE  /\ Append(g, i) \in Seq(Takers \cup Apps)
           /\ FirstTakes(Append(g, i))
           /\ \A k \in DOMAIN Append(g, i) :
                 Append(g, i)[k] \notin {"system", "plugin"}
           /\ Range(Append(g, i)) = Range(g) \cup {i}
<1> DEFINE h == Append(g, i)
<1>1. /\ h \in Seq(Takers \cup Apps)
      /\ Len(g) \in Nat /\ Len(h) = Len(g) + 1
      /\ DOMAIN g = 1..Len(g) /\ DOMAIN h = 1..Len(g) + 1
      /\ \A k \in DOMAIN g : h[k] = g[k]
      /\ h[Len(g) + 1] = i
  OBVIOUS
<1>2. i \notin {"system", "plugin", "external", "remote"}
  BY WordsAreNoApps
<1> HIDE DEF h
<1>3. \A k \in DOMAIN h : k \in DOMAIN g \/ k = Len(g) + 1
  BY <1>1
<1>4. \A k \in DOMAIN h : h[k] \notin {"system", "plugin"}
  BY <1>1, <1>2, <1>3
<1>5. FirstTakes(h)
  <2> SUFFICES ASSUME NEW k \in DOMAIN h
               PROVE  /\ h[k] = "external" =>
                            \A m \in DOMAIN h : m > k => h[m] \in Apps
                      /\ h[k] = "remote" => k = 1
    BY <1>4 DEF FirstTakes
  <2>1. CASE k = Len(g) + 1
    BY <2>1, <1>1, <1>2
  <2>2. CASE k \in DOMAIN g
    BY <2>2, <1>1, <1>3 DEF FirstTakes
  <2> QED
    BY <2>1, <2>2, <1>3
<1>6. Range(h) = Range(g) \cup {i}
  <2>1. Range(h) \subseteq Range(g) \cup {i}
    BY <1>1, <1>3 DEF Range
  <2>2. Range(g) \subseteq Range(h)
    BY <1>1 DEF Range
  <2>3. Len(g) + 1 \in DOMAIN h
    BY <1>1
  <2>4. i \in Range(h)
    BY <1>1, <2>3 DEF Range
  <2> QED
    BY <2>1, <2>2, <2>4
<1> QED
  BY <1>1, <1>4, <1>5, <1>6 DEF h

Words == {"remote", "bridge_error", "system", "plugin", "external",
          "NoAppsFound"}

\* The handler waits elsewhere, names nobody and has handed the intent to g.
LEMMA PlainMove ==
    ASSUME IntentInv, NEW r \in Raises, NEW w \in RaiseRecords,
           NEW a \in {"none"} \cup Answers, NEW g,
           a \notin Apps, g \in Seq(Takers \cup Apps), TakenFit(w.at, g),
           w.at # "answering", w.named \in {NoApp, raise[r].named},
           w.at = "remote" => w.intent \in Intents,
           raise' = [raise EXCEPT ![r] = w],
           answer' = [answer EXCEPT ![r] = a],
           given' = [given EXCEPT ![r] = g],
           UNCHANGED <<socket, connections, listeners, excused>>
    PROVE  IntentInv'
<1>1. NamedFit(r, w, a, g)
  BY NothingNamed
<1> QED
  BY <1>1, RaiseMoves

LEMMA FinalMove ==
    ASSUME IntentInv, NEW r \in Raises, NEW how \in Words, NEW g,
           raise[r].at \notin {"sending", "done"},
           FinalAnswer(r, how),
           g \in Seq(Takers \cup Apps), FirstTakes(g),
           given' = [given EXCEPT ![r] = g],
           UNCHANGED <<socket, connections, listeners, excused>>
    PROVE  IntentInv'
<1>1. /\ raise[r] \in RaiseRecords
      /\ answer[r] \in {"none"} \cup Answers /\ answer[r] \notin Apps
      /\ answer = [answer EXCEPT ![r] = answer[r]]
  BY RaiseFacts
<1>2. PICK at \in Over, a \in {how, answer[r]} :
         /\ raise' = [raise EXCEPT ![r] = [raise[r] EXCEPT !.at = at]]
         /\ answer' = [answer EXCEPT ![r] = a]
  <2>1. CASE /\ answer' = [answer EXCEPT ![r] = how]
             /\ Goto(r, [raise[r] EXCEPT !.at = "done"])
    BY <2>1 DEF Goto, Over
  <2>2. CASE /\ UNCHANGED answer
             /\ Goto(r, [raise[r] EXCEPT !.at = "dropped"])
    BY <1>1, <2>2 DEF Goto, Over
  <2> QED
    BY <2>1, <2>2 DEF FinalAnswer
<1> DEFINE w == [raise[r] EXCEPT !.at = at]
<1>3. /\ w \in RaiseRecords /\ w.at = at
      /\ w.at \notin {"answering", "remote"}
      /\ w.named \in {NoApp, raise[r].named}
  BY <1>1, AtChanges DEF Waits, Over
<1>4. a \in {"none"} \cup Answers /\ a \notin Apps
  BY <1>1, WordsAreNoApps DEF Words, Answers
<1>5. TakenFit(w.at, g)
  BY <1>3 DEF TakenFit, Over
<1>6. raise' = [raise EXCEPT ![r] = w]
  BY <1>2
<1> HIDE DEF w
<1> QED
  BY <1>2, <1>3, <1>4, <1>5, <1>6, PlainMove

\* A request comes in.
LEMMA BeginKeeps ==
    ASSUME IntentInv, NEW r \in Raises,
           \/ \E n \in Intents :
                 \/ BridgeRaises(r, n)
                 \/ \E a \in Apps, remote \in BOOLEAN :
                       RaiseIntent(r, a, n, remote)
           \/ \E a \in Apps \cup {Bridge}, target \in Apps \cup {NoApp} :
                 RaiseForContext(r, a, target)
    PROVE  IntentInv'
<1>1. raise[r].at = "new"
  BY DEF BridgeRaises, RaiseIntent, RaiseForContext
<1>2. /\ given[r] = <<>> /\ answer[r] \notin Apps
      /\ answer[r] \in {"none"} \cup Answers
      /\ given[r] \in Seq(Takers \cup Apps)
      /\ answer = [answer EXCEPT ![r] = answer[r]]
      /\ given = [given EXCEPT ![r] = given[r]]
  BY <1>1, RaiseFacts DEF TakenFit
<1>3. Apps \cup {Bridge} \subseteq Sources
  BY DEF Sources
<1>4. PICK w \in RaiseRecords :
         /\ w.at \in {"remote", "system", "plugins", "listing"}
         /\ w.at = "remote" => w.intent \in Intents
         /\ w.named = NoApp
         /\ Goto(r, w)
  <2>1. ASSUME NEW n \in Intents, BridgeRaises(r, n)
        PROVE  \E w \in RaiseRecords :
                  /\ w.at \in {"remote", "system", "plugins", "listing"}
                  /\ w.at = "remote" => w.intent \in Intents
                  /\ w.named = NoApp
                  /\ Goto(r, w)
    <3> DEFINE v == [NoRaise EXCEPT !.by = Bridge, !.intent = n]
    <3>1. v \in RaiseRecords /\ v.intent = n /\ v.named = NoApp
      BY <1>3, RaisingFits
    <3>2. Goto(r, Local(v))
      BY <2>1 DEF BridgeRaises
    <3> HIDE DEF v
    <3> QED
      BY <3>1, <3>2, LocalFits
  <2>2. ASSUME NEW n \in Intents, NEW a \in Apps, NEW remote \in BOOLEAN,
               RaiseIntent(r, a, n, remote)
        PROVE  \E w \in RaiseRecords :
                  /\ w.at \in {"remote", "system", "plugins", "listing"}
                  /\ w.at = "remote" => w.intent \in Intents
                  /\ w.named = NoApp
                  /\ Goto(r, w)
    <3> DEFINE v == [NoRaise EXCEPT !.by = a, !.intent = n]
    <3>1. v \in RaiseRecords /\ v.intent = n /\ v.named = NoApp
      BY <1>3, RaisingFits
    <3>2. Goto(r, IF remote THEN [v EXCEPT !.at = "remote"] ELSE Local(v))
      BY <2>2 DEF RaiseIntent
    <3> HIDE DEF v
    <3>3. CASE remote
      <4>1. /\ [v EXCEPT !.at = "remote"] \in RaiseRecords
            /\ [v EXCEPT !.at = "remote"].at = "remote"
            /\ [v EXCEPT !.at = "remote"].intent = n
            /\ [v EXCEPT !.at = "remote"].named = NoApp
        BY <3>1, AtChanges DEF Waits
      <4>2. Goto(r, [v EXCEPT !.at = "remote"])
        BY <3>2, <3>3
      <4> QED
        BY <4>1, <4>2
    <3>4. CASE ~remote
      BY <3>1, <3>2, <3>4, LocalFits
    <3> QED
      BY <3>3, <3>4
  <2>3. ASSUME NEW a \in Apps \cup {Bridge}, NEW target \in Apps \cup {NoApp},
               RaiseForContext(r, a, target)
        PROVE  \E w \in RaiseRecords :
                  /\ w.at \in {"remote", "system", "plugins", "listing"}
                  /\ w.at = "remote" => w.intent \in Intents
                  /\ w.named = NoApp
                  /\ Goto(r, w)
    <3> DEFINE v == [NoRaise EXCEPT !.at = "listing", !.by = a,
                                    !.target = target]
    <3>1. v \in RaiseRecords /\ v.at = "listing" /\ v.named = NoApp
      BY <1>3, ListingFits
    <3>2. Goto(r, v)
      BY <2>3 DEF RaiseForContext
    <3> QED
      BY <3>1, <3>2
  <2> QED
    BY <2>1, <2>2, <2>3
<1>5. UNCHANGED <<socket, connections, listeners, answer, given, excused>>
  BY DEF BridgeRaises, RaiseIntent, RaiseForContext
<1>6. TakenFit(w.at, given[r])
  BY <1>2, <1>4 DEF TakenFit, FirstTakes
<1> QED
  BY <1>2, <1>4, <1>5, <1>6, PlainMove DEF Goto

LEMMA AdminKeeps ==
    ASSUME IntentInv, NEW r \in Raises, NEW n \in Intents, AdminRaise(r, n)
    PROVE  IntentInv'
<1>1. raise[r].at = "new" /\ TypeOK
  BY DEF AdminRaise, IntentInv
<1>2. /\ given[r] = <<>> /\ answer[r] \notin Apps
      /\ answer[r] \in {"none"} \cup Answers
      /\ given[r] \in Seq(Takers \cup Apps)
      /\ answer = [answer EXCEPT ![r] = answer[r]]
      /\ given = [given EXCEPT ![r] = given[r]]
  BY <1>1, RaiseFacts DEF TakenFit
<1> DEFINE v == [NoRaise EXCEPT !.by = Admin, !.intent = n]
           done == [v EXCEPT !.at = "done"]
           sending == [v EXCEPT !.at = "sending", !.rest = ListenersFor(n)]
<1>3. /\ UNCHANGED <<socket, connections, listeners, given, excused>>
      /\ \/ Goto(r, done) /\ answer' = [answer EXCEPT ![r] = "NoAppsFound"]
         \/ Goto(r, sending) /\ answer' = answer
  BY DEF AdminRaise
<1>4. ListenersFor(n) \in Seq(Apps)
  BY <1>1, ListenersForFit
<1>5. v \in RaiseRecords /\ v.named = NoApp
  <2>1. Admin \in Sources
    BY DEF Sources
  <2> QED
    BY <2>1, RaisingFits
<1>6. /\ done \in RaiseRecords /\ done.at \notin {"answering", "remote"}
      /\ done.named \in {NoApp, raise[r].named}
      /\ TakenFit(done.at, given[r])
  <2>1. done \in RaiseRecords /\ done.at = "done" /\ done.named = v.named
    BY <1>5, AtChanges DEF Waits, Over
  <2> QED
    BY <1>2, <1>5, <2>1 DEF TakenFit, FirstTakes
<1>7. /\ sending \in RaiseRecords
      /\ sending.at \notin {"answering", "remote"}
      /\ sending.named \in {NoApp, raise[r].named}
      /\ TakenFit(sending.at, given[r])
  <2>1. /\ sending \in RaiseRecords /\ sending.at = "sending"
        /\ sending.named = v.named
    BY <1>4, <1>5, SendingChanges
  <2> QED
    BY <1>2, <1>5, <2>1 DEF TakenFit, FirstTakes
<1> HIDE DEF v, done, sending
<1>8. CASE Goto(r, done) /\ answer' = [answer EXCEPT ![r] = "NoAppsFound"]
  <2>1. "NoAppsFound" \in {"none"} \cup Answers /\ "NoAppsFound" \notin Apps
    BY WordsAreNoApps DEF Answers
  <2>2. raise' = [raise EXCEPT ![r] = done]
    BY <1>8 DEF Goto
  <2>3. given' = [given EXCEPT ![r] = given[r]]
    BY <1>2, <1>3
  <2> QED
    BY <1>2, <1>3, <1>6, <1>8, <2>1, <2>2, <2>3, PlainMove
<1>9. CASE Goto(r, sending) /\ answer' = answer
  BY <1>2, <1>3, <1>7, <1>9, PlainMove DEF Goto
<1> QED
  BY <1>3, <1>8, <1>9

\* A listener is found and will be named, or that is the end.
LEMMA ResolveKeeps ==
    ASSUME IntentInv, NEW r \in Raises, NEW w \in RaiseRecords,
           raise[r].at \notin {"sending", "done"}, Resolve(r, w),
           NEW g \in Passed, given' = [given EXCEPT ![r] = g],
           UNCHANGED <<socket, connections, listeners, excused>>
    PROVE  IntentInv'
<1>1. FirstTakes(g) /\ g \in Seq(Takers \cup Apps)
  BY PassedFit
<1>2. CASE FinalAnswer(r, "NoAppsFound")
  <2>1. "NoAppsFound" \in Words
    BY DEF Words
  <2> QED
    BY <1>1, <1>2, <2>1, FinalMove
<1>3. CASE ~FinalAnswer(r, "NoAppsFound")
  <2> DEFINE i == Resolved(w.intent)
             v == [w EXCEPT !.at = "answering", !.named = i]
  <2>1. i # NoApp /\ Goto(r, v) /\ answer' = answer
    BY <1>3 DEF Resolve
  <2>2. i \in Apps /\ Registered(i) /\ ListensFor(i, w.intent, listeners)
    BY <2>1, ResolvedFits DEF IntentInv
  <2> HIDE DEF i
  <2>3. /\ v \in RaiseRecords /\ v.at = "answering" /\ v.named = i
        /\ v.intent = w.intent
    BY <2>2, AnsweringChanges
  <2> HIDE DEF v
  <2>4. /\ answer[r] \in {"none"} \cup Answers /\ answer[r] \notin Apps
        /\ answer = [answer EXCEPT ![r] = answer[r]]
    BY RaiseFacts
  <2>5. NamedFit(r, v, answer[r], g)
    BY <2>2, <2>3, <2>4 DEF NamedFit, Registered
  <2>6. TakenFit(v.at, g)
    BY <1>1, <2>3 DEF TakenFit, Passed
  <2>7. /\ raise' = [raise EXCEPT ![r] = v]
        /\ answer' = [answer EXCEPT ![r] = answer[r]]
    BY <2>1, <2>4 DEF Goto
  <2> QED
    BY <1>1, <2>3, <2>4, <2>5, <2>6, <2>7, RaiseMoves
<1> QED
  BY <1>2, <1>3

LEMMA RemoteKeeps ==
    ASSUME IntentInv, NEW r \in Raises, RemoteReturns(r)
    PROVE  IntentInv'
<1>1. /\ raise[r].at = "remote" /\ raise[r] \in RaiseRecords
      /\ given[r] = <<>> /\ answer[r] \notin Apps
      /\ answer[r] \in {"none"} \cup Answers
      /\ answer = [answer EXCEPT ![r] = answer[r]]
      /\ given = [given EXCEPT ![r] = given[r]]
  BY RaiseFacts DEF RemoteReturns, TakenFit
<1>2. UNCHANGED <<socket, connections, listeners, excused>>
  BY DEF RemoteReturns
<1>3. Append(<<>>, "remote") = <<"remote">>
  OBVIOUS
<1>4. PICK g \in {<<>>, <<"remote">>} : given' = [given EXCEPT ![r] = g]
  <2>1. CASE Hand(r, "remote")
    <3>1. given' = [given EXCEPT ![r] = Append(given[r], "remote")]
      BY <2>1 DEF Hand
    <3> QED
      BY <1>1, <1>3, <3>1
  <2>2. CASE UNCHANGED given
    BY <1>1, <2>2
  <2> QED
    BY <2>1, <2>2 DEF RemoteReturns
<1>5. FirstTakes(g) /\ g \in Seq(Takers \cup Apps)
  BY PassedFit DEF Passed
<1>6. ASSUME NEW how \in {"remote", "bridge_error"},
             answer' = [answer EXCEPT ![r] = how],
             Goto(r, [raise[r] EXCEPT !.at = "done"])
      PROVE  IntentInv'
  <2>1. how \in Words
    BY DEF Words
  <2>2. FinalAnswer(r, how)
    BY <1>6 DEF FinalAnswer
  <2> QED
    BY <1>1, <1>2, <1>4, <1>5, <2>1, <2>2, FinalMove
<1>7. CASE Goto(r, Local(raise[r])) /\ answer' = answer
  <2> DEFINE w == Local(raise[r])
  <2>1. raise[r].intent \in Intents
    BY <1>1, RaiseFacts DEF NamedFit
  <2>2. w \in RaiseRecords /\ w.at \in {"system", "plugins"}
        /\ w.named \in {NoApp, raise[r].named}
    BY <1>1, <2>1, LocalFits
  <2>3. raise' = [raise EXCEPT ![r] = w]
    BY <1>7 DEF Goto
  <2> HIDE DEF w
  <2>4. TakenFit(w.at, g)
    BY <1>5, <2>2 DEF TakenFit
  <2>5. w.at \notin {"answering", "remote"}
    BY <2>2
  <2>6. answer' = [answer EXCEPT ![r] = answer[r]]
    BY <1>1, <1>7
  <2> QED
    BY <1>1, <1>2, <1>4, <1>5, <2>2, <2>3, <2>4, <2>5, <2>6, PlainMove
<1> QED
  BY <1>6, <1>7 DEF RemoteReturns

\* Whom a handler of a system intent, of plugins or of an external handler
\* has asked.
LEMMA SystemKeeps ==
    ASSUME IntentInv, NEW r \in Raises, SystemReturns(r)
    PROVE  IntentInv'
<1>1. raise[r].at = "system" /\ given[r] \in {<<>>, <<"remote">>}
  BY RaiseFacts DEF SystemReturns, TakenFit
<1> DEFINE g == Append(given[r], "system")
<1>2. g \in Seq(Takers \cup Apps) /\ FirstTakes(g)
  BY <1>1, Takes
<1>3. /\ UNCHANGED <<socket, connections, listeners, excused>>
      /\ FinalAnswer(r, "system")
      /\ given' = [given EXCEPT ![r] = g]
  BY DEF SystemReturns, Hand
<1>4. "system" \in Words
  BY DEF Words
<1> HIDE DEF g
<1> QED
  BY <1>1, <1>2, <1>3, <1>4, FinalMove

LEMMA PluginKeeps ==
    ASSUME IntentInv, NEW r \in Raises, PluginReturns(r)
    PROVE  IntentInv'
<1>1. /\ raise[r].at = "plugins" /\ raise[r] \in RaiseRecords
      /\ given[r] \in {<<>>, <<"remote">>} /\ answer[r] \notin Apps
      /\ answer[r] \in {"none"} \cup Answers
      /\ given[r] \in Seq(Takers \cup Apps)
      /\ answer = [answer EXCEPT ![r] = answer[r]]
      /\ given = [given EXCEPT ![r] = given[r]]
      /\ TakenFit(raise[r].at, given[r])
  BY RaiseFacts DEF PluginReturns, TakenFit
<1>2. UNCHANGED <<socket, connections, listeners, excused>>
  BY DEF PluginReturns
<1> DEFINE g == Append(given[r], "plugin")
<1>3. CASE Hand(r, "plugin") /\ FinalAnswer(r, "plugin")
  <2>1. g \in Seq(Takers \cup Apps) /\ FirstTakes(g)
    BY <1>1, Takes
  <2>2. given' = [given EXCEPT ![r] = g]
    BY <1>3 DEF Hand
  <2>3. "plugin" \in Words
    BY DEF Words
  <2> HIDE DEF g
  <2> QED
    BY <1>1, <1>2, <1>3, <2>1, <2>2, <2>3, FinalMove
<1>4. CASE /\ Goto(r, [raise[r] EXCEPT !.plugins = Tail(@)])
           /\ UNCHANGED <<given, answer>>
  <2> DEFINE rest == Tail(raise[r].plugins)
             w == [raise[r] EXCEPT !.plugins = rest]
  <2>1. raise' = [raise EXCEPT ![r] = w]
    BY <1>4 DEF Goto
  <2>2. rest \in Seq(Plugins)
    <3>1. raise[r].plugins \in Seq(Plugins)
      BY <1>1 DEF RaiseRecords
    <3>2. raise[r].plugins # <<>>
      BY DEF PluginReturns
    <3> QED
      BY <3>1, <3>2
  <2> HIDE DEF rest
  <2>3. w \in RaiseRecords /\ w.at = "plugins" /\ w.named = raise[r].named
    BY <1>1, <2>2, PluginsChange
  <2> HIDE DEF w
  <2>4. /\ answer' = [answer EXCEPT ![r] = answer[r]]
        /\ given' = [given EXCEPT ![r] = given[r]]
        /\ TakenFit(w.at, given[r])
        /\ w.at \notin {"answering", "remote"}
        /\ w.named \in {NoApp, raise[r].named}
    BY <1>1, <1>4, <2>3
  <2> QED
    BY <1>1, <1>2, <2>1, <2>3, <2>4, PlainMove
<1> QED
  BY <1>3, <1>4 DEF PluginReturns

LEMMA ExternalKeeps ==
    ASSUME IntentInv, NEW r \in Raises, ExternalReturns(r)
    PROVE  IntentInv'
<1>1. /\ raise[r].at = "plugins" /\ raise[r] \in RaiseRecords
      /\ given[r] \in {<<>>, <<"remote">>}
      /\ given = [given EXCEPT ![r] = given[r]]
  BY RaiseFacts DEF ExternalReturns, TakenFit
<1>2. UNCHANGED <<socket, connections, listeners, excused>>
  BY DEF ExternalReturns
<1> DEFINE g == Append(given[r], "external")
<1>3. g \in Seq(Takers \cup Apps) /\ FirstTakes(g) /\ g \in Passed
  BY <1>1, Takes DEF Passed
<1>4. Hand(r, "external") => given' = [given EXCEPT ![r] = g]
  BY DEF Hand
<1> HIDE DEF g
<1>5. CASE Hand(r, "external") /\ FinalAnswer(r, "external")
  <2>1. "external" \in Words
    BY DEF Words
  <2> QED
    BY <1>1, <1>2, <1>3, <1>4, <1>5, <2>1, FinalMove
<1>6. CASE (Hand(r, "external") \/ UNCHANGED given) /\ Resolve(r, raise[r])
  <2>1. CASE Hand(r, "external")
    BY <1>1, <1>2, <1>3, <1>4, <1>6, <2>1, ResolveKeeps
  <2>2. CASE UNCHANGED given
    <3>1. given' = [given EXCEPT ![r] = given[r]] /\ given[r] \in Passed
      BY <1>1, <2>2 DEF Passed
    <3> QED
      BY <1>1, <1>2, <1>6, <3>1, ResolveKeeps
  <2> QED
    BY <1>6, <2>1, <2>2
<1> QED
  BY <1>5, <1>6 DEF ExternalReturns

LEMMA CollectKeeps ==
    ASSUME IntentInv, NEW r \in Raises, Collect(r)
    PROVE  IntentInv'
<1>1. /\ raise[r].at = "listing" /\ raise[r] \in RaiseRecords
      /\ given[r] = <<>> /\ answer[r] \notin Apps
      /\ answer[r] \in {"none"} \cup Answers
      /\ answer = [answer EXCEPT ![r] = answer[r]]
      /\ given = [given EXCEPT ![r] = given[r]]
      /\ given[r] \in Seq(Takers \cup Apps)
  BY RaiseFacts DEF Collect, TakenFit
<1>2. UNCHANGED <<socket, connections, listeners, answer, given, excused>>
  BY DEF Collect
<1>3. PICK fits \in SUBSET (Declared \cup
                    {<<listeners[k].intent, listeners[k].instance>> :
                        k \in DOMAIN listeners}) :
         raise' = [raise EXCEPT ![r] =
                     [raise[r] EXCEPT !.at = "choosing", !.found = fits]]
  BY DEF Collect, Goto
<1>4. fits \subseteq Intents \X Apps
  <2>1. \A k \in DOMAIN listeners : listeners[k] \in ListenerRecords
    <3>1. listeners \in Seq(ListenerRecords)
      BY DEF IntentInv, TypeOK, ListenerRecords
    <3> QED
      BY <3>1
  <2>2. \A k \in DOMAIN listeners :
           <<listeners[k].intent, listeners[k].instance>> \in Intents \X Apps
    BY <2>1 DEF ListenerRecords
  <2> QED
    BY <1>3, <2>2, DirectoryListsIntents
<1> DEFINE w == [raise[r] EXCEPT !.at = "choosing", !.found = fits]
<1>5. /\ w \in RaiseRecords /\ w.at = "choosing"
      /\ w.named \in {NoApp, raise[r].named}
  BY <1>1, <1>4, ChoosingChanges
<1>6. raise' = [raise EXCEPT ![r] = w]
  BY <1>3
<1> HIDE DEF w
<1>7. TakenFit(w.at, given[r]) /\ w.at \notin {"answering", "remote"}
  BY <1>1, <1>5 DEF TakenFit, FirstTakes
<1>8. /\ answer' = [answer EXCEPT ![r] = answer[r]]
      /\ given' = [given EXCEPT ![r] = given[r]]
  BY <1>1, <1>2
<1> QED
  BY <1>1, <1>2, <1>5, <1>6, <1>7, <1>8, PlainMove

LEMMA ChooseKeeps ==
    ASSUME IntentInv, NEW r \in Raises, Choose(r)
    PROVE  IntentInv'
<1>1. /\ raise[r].at = "choosing" /\ raise[r] \in RaiseRecords
      /\ given[r] = <<>>
      /\ given = [given EXCEPT ![r] = given[r]]
  BY RaiseFacts DEF Choose, TakenFit
<1>2. UNCHANGED <<socket, connections, listeners, given, excused>>
  BY DEF Choose
<1>3. /\ given' = [given EXCEPT ![r] = given[r]]
      /\ given[r] \in Passed
  BY <1>1, <1>2 DEF Passed
<1>4. ASSUME NEW n \in Intents, Resolve(r, [raise[r] EXCEPT !.intent = n])
      PROVE  IntentInv'
  <2> DEFINE w == [raise[r] EXCEPT !.intent = n]
  <2>1. w \in RaiseRecords
    BY <1>1, IntentChanges
  <2>2. Resolve(r, w)
    BY <1>4
  <2> HIDE DEF w
  <2> QED
    BY <1>1, <1>2, <1>3, <2>1, <2>2, ResolveKeeps
<1>5. CASE FinalAnswer(r, "NoAppsFound")
  <2>1. "NoAppsFound" \in Words
    BY DEF Words
  <2>2. FirstTakes(given[r]) /\ given[r] \in Seq(Takers \cup Apps)
    BY <1>3, PassedFit
  <2> QED
    BY <1>1, <1>2, <1>3, <1>5, <2>1, <2>2, FinalMove
<1> QED
  BY <1>4, <1>5 DEF Choose

\* The answer names the instance and the target is settled in one step: the
\* instance, if it still listens.
LEMMA AnswerKeeps ==
    ASSUME IntentInv, NEW r \in Raises, AnswerNames(r)
    PROVE  IntentInv'
<1> DEFINE i == raise[r].named
           n == raise[r].intent
<1>1. /\ raise[r].at = "answering" /\ raise[r] \in RaiseRecords
      /\ given[r] \in Passed /\ answer[r] \notin Apps
      /\ answer[r] \in {"none"} \cup Answers
      /\ answer = [answer EXCEPT ![r] = answer[r]]
      /\ given = [given EXCEPT ![r] = given[r]]
      /\ NamedFit(r, raise[r], answer[r], given[r])
  BY RaiseFacts DEF AnswerNames, TakenFit, Passed
<1>2. UNCHANGED <<socket, connections, listeners, given, excused>>
  BY DEF AnswerNames
<1>3. /\ i \in Apps /\ socket[i] # "new"
      /\ r \in excused \/ ListensFor(i, n, listeners)
  BY <1>1 DEF NamedFit
<1>4. /\ FirstTakes(given[r])
      /\ \A k \in DOMAIN given[r] : given[r][k] \in {"remote", "external"}
      /\ Apps \cap Range(given[r]) = {}
      /\ given[r] \in Seq(Takers \cup Apps)
      /\ given' = [given EXCEPT ![r] = given[r]]
  BY <1>1, <1>2, PassedFit
<1>5. CASE /\ answer' = [answer EXCEPT ![r] = i]
           /\ Goto(r, [raise[r] EXCEPT !.at = "sending",
                                       !.rest = Targets(n, i)])
  <2> DEFINE targets == Targets(n, i)
             w == [raise[r] EXCEPT !.at = "sending", !.rest = targets]
  <2>1. /\ targets \in Seq(Apps)
        /\ Registered(i) /\ ListensFor(i, n, listeners) => targets = <<i>>
    BY <1>3, TargetsFit DEF IntentInv
  <2>2. raise' = [raise EXCEPT ![r] = w]
    BY <1>5 DEF Goto
  <2>3. ListensFor(i, n, listeners) => Registered(i)
    BY DEF IntentInv, ListenersAreRegistered, ListensFor
  <2> HIDE DEF targets
  <2>4. /\ w \in RaiseRecords /\ w.at = "sending" /\ w.rest = targets
        /\ w.named = i
    BY <1>1, <2>1, SendingChanges
  <2> HIDE DEF w
  <2>5. NamedFit(r, w, i, given[r])
    BY <1>3, <1>4, <2>1, <2>3, <2>4 DEF NamedFit
  <2>6. TakenFit(w.at, given[r])
    BY <1>4, <2>4 DEF TakenFit
  <2>7. i \in {"none"} \cup Answers
    BY <1>3 DEF Answers
  <2> HIDE DEF i, n
  <2> QED
    BY <1>2, <1>4, <1>5, <2>2, <2>4, <2>5, <2>6, <2>7, RaiseMoves
<1>6. CASE /\ Goto(r, [raise[r] EXCEPT !.at = "dropped"])
           /\ UNCHANGED answer
  <2> DEFINE w == [raise[r] EXCEPT !.at = "dropped"]
  <2>1. raise' = [raise EXCEPT ![r] = w]
    BY <1>6 DEF Goto
  <2>2. /\ w \in RaiseRecords /\ w.at = "dropped"
        /\ w.named \in {NoApp, raise[r].named}
    BY <1>1, AtChanges DEF Waits, Over
  <2> HIDE DEF w
  <2>3. TakenFit(w.at, given[r]) /\ w.at \notin {"answering", "remote"}
    BY <1>4, <2>2 DEF TakenFit
  <2>4. answer' = [answer EXCEPT ![r] = answer[r]]
    BY <1>1, <1>6
  <2> QED
    BY <1>1, <1>2, <1>4, <2>1, <2>2, <2>3, <2>4, PlainMove
<1> QED
  BY <1>5, <1>6 DEF AnswerNames

LEMMA SendKeeps ==
    ASSUME IntentInv, NEW r \in Raises, SendEvent(r)
    PROVE  IntentInv'
<1> DEFINE i == Head(raise[r].rest)
           rest == Tail(raise[r].rest)
           w == [raise[r] EXCEPT !.rest = rest]
           a == answer[r]
<1>1. /\ raise[r].at = "sending" /\ raise[r] \in RaiseRecords
      /\ a \in {"none"} \cup Answers
      /\ answer = [answer EXCEPT ![r] = a]
      /\ given = [given EXCEPT ![r] = given[r]]
      /\ given[r] \in Seq(Takers \cup Apps)
      /\ FirstTakes(given[r])
      /\ \A k \in DOMAIN given[r] : given[r][k] \notin {"system", "plugin"}
      /\ NamedFit(r, raise[r], a, given[r])
  BY RaiseFacts DEF SendEvent, TakenFit
<1>2. raise[r].rest \in Seq(Apps) /\ raise[r].rest # <<>>
  BY <1>1 DEF RaiseRecords, SendEvent
<1>3. /\ i \in Apps /\ rest \in Seq(Apps)
      /\ \A j : raise[r].rest = <<j>> => i = j /\ rest = <<>>
  <2>1. i \in Apps /\ rest \in Seq(Apps)
    BY <1>2
  <2>2. \A j : Head(<<j>>) = j /\ Tail(<<j>>) = <<>>
    OBVIOUS
  <2> QED
    BY <2>1, <2>2
<1>4. raise' = [raise EXCEPT ![r] = w]
  BY DEF SendEvent, Goto
<1>5. UNCHANGED <<socket, listeners, excused>>
      /\ answer' = [answer EXCEPT ![r] = a]
  BY <1>1 DEF SendEvent
<1>6. \/ /\ i \in connections /\ socket[i] = "open"
         /\ Hand(r, i) /\ connections' = connections
      \/ /\ ~(i \in connections /\ socket[i] = "open")
         /\ connections' \in {connections, connections \ {i}}
         /\ given' = given
  BY DEF SendEvent
<1> HIDE DEF i, rest
<1>7. /\ w \in RaiseRecords /\ w.at = "sending" /\ w.rest = rest
      /\ w.intent = raise[r].intent /\ w.named = raise[r].named
  BY <1>1, <1>3, RestChanges
<1>8. socket[i] = "open" => i \in connections
  BY <1>3 DEF IntentInv, OpenIsConnected
<1>9. /\ connections' \subseteq connections
      /\ \A j \in connections \ connections' : socket[j] # "open"
  BY <1>6, <1>8
<1> HIDE DEF w, a
<1>10. /\ raise[r].named \in Apps => socket[raise[r].named] # "new"
       /\ a \in Apps => raise[r].named = a
       /\ a \in Apps /\ r \notin excused =>
             /\ \/ raise[r].rest = <<a>>
                \/ raise[r].rest = <<>> /\ Told(a, given[r])
             /\ \A j \in Apps \cap Range(given[r]) : j = a
  BY <1>1 DEF NamedFit
<1>11. a \in Apps /\ r \notin excused => i = a /\ rest = <<>>
  BY <1>2, <1>3, <1>10
<1>12. CASE socket[i] = "open"
  <2> DEFINE g == Append(given[r], i)
  <2>1. given' = [given EXCEPT ![r] = g] /\ connections' = connections
    BY <1>6, <1>8, <1>12 DEF Hand
  <2>2. /\ g \in Seq(Takers \cup Apps) /\ FirstTakes(g)
        /\ \A k \in DOMAIN g : g[k] \notin {"system", "plugin"}
        /\ Range(g) = Range(given[r]) \cup {i}
    BY <1>1, <1>3, AppTakes
  <2> HIDE DEF g
  <2>3. NamedFit(r, w, a, g)
    BY <1>7, <1>10, <1>11, <2>2 DEF NamedFit, Told
  <2>4. TakenFit(w.at, g)
    BY <1>7, <2>2 DEF TakenFit
  <2> QED
    BY <1>1, <1>4, <1>5, <1>7, <1>9, <2>1, <2>2, <2>3, <2>4, RaiseMoves
<1>13. CASE socket[i] # "open"
  <2>1. given' = [given EXCEPT ![r] = given[r]]
    BY <1>1, <1>6, <1>13
  <2>2. NamedFit(r, w, a, given[r])
    BY <1>7, <1>10, <1>11, <1>13 DEF NamedFit, Told
  <2>3. TakenFit(w.at, given[r])
    BY <1>1, <1>7 DEF TakenFit
  <2> QED
    BY <1>1, <1>4, <1>5, <1>7, <1>9, <2>1, <2>2, <2>3, RaiseMoves
<1> QED
  BY <1>12, <1>13

LEMMA AllSentKeeps ==
    ASSUME IntentInv, NEW r \in Raises, AllSent(r)
    PROVE  IntentInv'
<1> DEFINE w == [raise[r] EXCEPT !.at = "done"]
           a == answer[r]
<1>1. /\ raise[r].at = "sending" /\ raise[r] \in RaiseRecords
      /\ raise[r].rest = <<>>
      /\ a \in {"none"} \cup Answers
      /\ answer = [answer EXCEPT ![r] = a]
      /\ given = [given EXCEPT ![r] = given[r]]
      /\ given[r] \in Seq(Takers \cup Apps)
      /\ FirstTakes(given[r])
      /\ NamedFit(r, raise[r], a, given[r])
  BY RaiseFacts DEF AllSent, TakenFit
<1>2. /\ UNCHANGED <<socket, connections, listeners, excused>>
      /\ answer' = [answer EXCEPT ![r] = a]
      /\ given' = [given EXCEPT ![r] = given[r]]
      /\ raise' = [raise EXCEPT ![r] = w]
  BY <1>1 DEF AllSent, Goto
<1>3. /\ w \in RaiseRecords /\ w.at = "done" /\ w.named = raise[r].named
  BY <1>1, AtChanges DEF Waits, Over
<1> HIDE DEF w, a
<1>4. a \in Apps /\ r \notin excused => Told(a, given[r])
  BY <1>1 DEF NamedFit
<1>5. NamedFit(r, w, a, given[r])
  BY <1>1, <1>3, <1>4 DEF NamedFit
<1>6. TakenFit(w.at, given[r])
  BY <1>1, <1>3 DEF TakenFit
<1> QED
  BY <1>1, <1>2, <1>3, <1>5, <1>6, RaiseMoves

-----------------------------------------------------------------------------
LEMMA IntentStep == IntentInv /\ [Next]_vars => IntentInv'
<1> SUFFICES ASSUME IntentInv, [Next]_vars PROVE IntentInv'
  OBVIOUS
<1>1. CASE UNCHANGED vars
  <2>1. /\ TypeOK' /\ OpenIsConnected' /\ ListenersAreRegistered'
        /\ \A a, n : ListensFor(a, n, listeners) =>
              ListensFor(a, n, listeners')
    BY <1>1 DEF vars, IntentInv, TypeOK, OpenIsConnected,
       ListenersAreRegistered, Registered, ListensFor
  <2> QED
    BY <1>1, <2>1, SocketsKeepRaises DEF vars
<1>2. ASSUME NEW i \in Apps,
             \/ Connect(i) \/ Break(i) \/ EndSession(i)
             \/ \E n \in Intents : AddIntentListener(i, n)
             \/ \E k \in DOMAIN listeners : IntentListenerUnsubscribe(i, k)
      PROVE  IntentInv'
  BY <1>2, ConnectKeeps, EndKeeps, AddKeeps, UnsubscribeKeeps
<1>3. ASSUME NEW r \in Raises, Proceed(r)
      PROVE  IntentInv'
  BY <1>3, RemoteKeeps, SystemKeeps, PluginKeeps, ExternalKeeps, CollectKeeps,
     ChooseKeeps, AnswerKeeps, SendKeeps, AllSentKeeps DEF Proceed
<1>4. ASSUME NEW r \in Raises,
             \/ \E n \in Intents :
                   \/ BridgeRaises(r, n)
                   \/ \E a \in Apps, remote \in BOOLEAN :
                         RaiseIntent(r, a, n, remote)
             \/ \E a \in Apps \cup {Bridge}, target \in Apps \cup {NoApp} :
                   RaiseForContext(r, a, target)
      PROVE  IntentInv'
  BY <1>4, BeginKeeps
<1> QED
  BY <1>1, <1>2, <1>3, <1>4, AdminKeeps DEF Next

\* The invariant of raised intents.
THEOREM IntentInvariant == Spec => []IntentInv
  BY IntentInit, IntentStep, PTL DEF Spec

\* Everything holds the values it is meant to.
THEOREM TypeCorrect == Spec => []TypeOK
  BY IntentInvariant, IntentInvSuffices, PTL

\* resolve_intent, which looks at the first listener only, never meets one
\* that a closed websocket has left behind.
THEOREM ListenersStayRegistered == Spec => []ListenersAreRegistered
  BY IntentInvariant, IntentInvSuffices, PTL

\* Nobody is handed an intent that a system handler or a plugin has taken.
THEOREM FirstTakerAlone == Spec => []FirstTakerKeepsIt
  BY IntentInvariant, IntentInvSuffices, PTL

\* The instance that the answer names gets the event, and it alone, if it
\* still listened when the answer was out and its websocket is there.
THEOREM NamedAppGetsIt == Spec => []NamedAppIsTold
  BY IntentInvariant, IntentInvSuffices, PTL
=============================================================================
