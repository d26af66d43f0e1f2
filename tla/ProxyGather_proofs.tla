------------------------- MODULE ProxyGather_proofs -------------------------
(***************************************************************************)
(* Proofs about ProxyGather, for any set of backend objects.  The counter  *)
(* counts the calls that have not been answered, so the reply that brings  *)
(* it to 0 is the last one; that, and that the objects are dropped and     *)
(* the cancellable cancelled in one go, carry everything else.             *)
(***************************************************************************)
EXTENDS ProxyGather, FiniteSetTheorems, TLAPS

\* What the counter counts, and what it means to be the last reply.
Counted ==
  /\ IsFiniteSet(unanswered) /\ pending = Cardinality(unanswered)
  /\ FreedAfterLastReply

\* Nobody has been given anything before; afterwards either everybody has, or the
\* service had gone.
Fair ==
  /\ ~freed => \A o \in Objects : given[o] = <<>>
  /\ freed => \/ \A o \in Objects : given[o] # <<>>
              \/ cancelled /\ \A o \in Objects : given[o] = <<>>
  /\ ~cancelled => living = Objects
  /\ AllGivenTogether

IInv == TypeOK /\ Counted /\ Fair

\* The last call is the one that leaves the counter at 0.
LEMMA LastReply ==
  ASSUME Counted, NEW p, ProxyReady(p)
  PROVE  /\ IsFiniteSet(unanswered') /\ pending' = Cardinality(unanswered')
         /\ pending' \in Nat
         /\ pending' = 0 <=> unanswered' = {}
         /\ ~freed
<1>1. p \in unanswered /\ unanswered' = unanswered \ {p} /\ pending' = pending - 1
  BY DEF ProxyReady
<1>2. IsFiniteSet(unanswered') /\ Cardinality(unanswered') = Cardinality(unanswered) - 1
  BY <1>1, FS_RemoveElement DEF Counted
<1>3. Cardinality(unanswered') \in Nat /\ (Cardinality(unanswered') = 0 <=> unanswered' = {})
  BY <1>2, FS_CardinalityType, FS_EmptySet
<1>4. ~freed
  BY <1>1 DEF Counted, FreedAfterLastReply
<1> QED
  BY <1>1, <1>2, <1>3, <1>4 DEF Counted

LEMMA InitHolds == Init => IInv
<1> SUFFICES ASSUME Init PROVE IInv
  OBVIOUS
<1>1. PICK seats \in SUBSET {"seat", "dm"} : unanswered = {"login1", "accounts"} \cup seats
  BY DEF Init
<1>2. IsFiniteSet({"login1", "accounts", "seat", "dm"})
  <2>1. IsFiniteSet({})
    BY FS_EmptySet
  <2>2. IsFiniteSet({} \cup {"login1"})
    BY <2>1, FS_AddElement
  <2>3. IsFiniteSet(({} \cup {"login1"}) \cup {"accounts"})
    BY <2>2, FS_AddElement
  <2>4. IsFiniteSet((({} \cup {"login1"}) \cup {"accounts"}) \cup {"seat"})
    BY <2>3, FS_AddElement
  <2>5. IsFiniteSet(((({} \cup {"login1"}) \cup {"accounts"}) \cup {"seat"}) \cup {"dm"})
    BY <2>4, FS_AddElement
  <2>6. ((({} \cup {"login1"}) \cup {"accounts"}) \cup {"seat"}) \cup {"dm"}
        = {"login1", "accounts", "seat", "dm"}
    OBVIOUS
  <2> QED
    BY <2>5, <2>6
<1>3. unanswered \subseteq {"login1", "accounts", "seat", "dm"}
  BY <1>1
<1>4. IsFiniteSet(unanswered) /\ pending = Cardinality(unanswered) /\ pending \in Nat
  BY <1>2, <1>3, FS_Subset, FS_CardinalityType DEF Init
<1>5. TypeOK
  <2>1. given = [o \in Objects |-> <<>>] /\ <<>> \in Seq(SUBSET AllProxies)
    BY DEF Init
  <2>2. given \in [Objects -> Seq(SUBSET AllProxies)]
    BY <2>1
  <2> QED
    BY <1>3, <1>4, <2>2 DEF Init, TypeOK, AllProxies
<1> QED
  BY <1>1, <1>4, <1>5 DEF Init, IInv, Counted, Fair, FreedAfterLastReply, AllGivenTogether

LEMMA StepHolds == IInv /\ [Next]_vars => IInv'
<1> SUFFICES ASSUME IInv, [Next]_vars PROVE IInv'
  OBVIOUS
<1> USE DEF IInv
<1>1. ASSUME NEW p \in AllProxies, ProxyReady(p) PROVE IInv'
  <2>1. /\ IsFiniteSet(unanswered') /\ pending' = Cardinality(unanswered')
        /\ pending' \in Nat /\ (pending' = 0 <=> unanswered' = {}) /\ ~freed
    BY <1>1, LastReply
  <2>2. stored' \subseteq AllProxies /\ unanswered' \subseteq AllProxies
    BY <1>1 DEF ProxyReady, TypeOK
  <2>3. \A o \in Objects : given[o] = <<>>
    BY <2>1 DEF Fair
  <2>4. CASE pending' = 0 /\ ~cancelled
    <3>1. given' = [o \in Objects |-> Append(given[o], stored' \cap Share(o))]
          /\ freed' = TRUE /\ cancelled' = FALSE /\ living' = living
      BY <1>1, <2>4 DEF ProxyReady, OnProxiesReady, TypeOK
    <3>4. \A o \in Objects : stored' \cap Share(o) \in SUBSET AllProxies
      BY <2>2
    <3>2. \A o \in Objects : given'[o] = <<stored' \cap Share(o)>>
      <4>1. ASSUME NEW S, NEW x \in S PROVE Append(<<>>, x) = <<x>>
        BY <4>1
      <4> QED
        BY <2>3, <3>1, <3>4, <4>1
    <3>3. given' = [o \in Objects |-> <<stored' \cap Share(o)>>]
      BY <3>1, <3>2
    <3>5. given' \in [Objects -> Seq(SUBSET AllProxies)]
      BY <3>3, <3>4
    <3>6. \A o \in Objects : given'[o] # <<>>
      BY <3>2
    <3>7. TypeOK'
      BY <2>1, <2>2, <3>1, <3>5 DEF TypeOK
    <3>8. Counted'
      BY <2>1, <2>4, <3>1 DEF Counted, FreedAfterLastReply
    <3>9. Fair'
      BY <2>1, <2>4, <3>1, <3>2, <3>6 DEF Fair, AllGivenTogether
    <3> QED
      BY <3>7, <3>8, <3>9
  <2>5. CASE ~(pending' = 0 /\ ~cancelled)
    <3>1. given' = given /\ cancelled' = cancelled /\ living' = living
          /\ freed' = (pending' = 0)
      BY <1>1, <2>1, <2>5 DEF ProxyReady, OnProxiesReady, TypeOK
    <3>2. TypeOK'
      BY <2>1, <2>2, <3>1 DEF TypeOK
    <3>3. Counted'
      BY <2>1, <3>1 DEF Counted, FreedAfterLastReply
    <3>4. Fair'
      BY <2>1, <2>3, <2>5, <3>1 DEF Fair, AllGivenTogether
    <3> QED
      BY <3>2, <3>3, <3>4
  <2> QED
    BY <2>4, <2>5
<1>2. CASE DisposeService
  <2>1. TypeOK'
    BY <1>2 DEF DisposeService, TypeOK
  <2>2. Counted'
    BY <1>2 DEF DisposeService, Counted, FreedAfterLastReply
  <2>3. Fair'
    BY <1>2 DEF DisposeService, Fair, AllGivenTogether
  <2> QED
    BY <2>1, <2>2, <2>3
<1>3. CASE UNCHANGED vars
  BY <1>3 DEF vars, TypeOK, Counted, Fair, FreedAfterLastReply, AllGivenTogether, Share
<1> QED
  BY <1>1, <1>2, <1>3 DEF Next, AnyReady

LEMMA Invariant == Spec => []IInv
BY InitHolds, StepHolds, PTL DEF Spec

\* Every variable has its type: in particular the counter of replies to come
\* never goes below 0.
THEOREM TypeCorrect == Spec => []TypeOK
BY Invariant, PTL DEF IInv

\* The struct the replies write to is freed with the last reply, not before it
\* and not after it.
THEOREM NoReplyAfterFree == Spec => []FreedAfterLastReply
<1>1. IInv => FreedAfterLastReply
  BY DEF IInv, Counted
<1> QED
  BY <1>1, Invariant, PTL

\* While the service lives, its objects are given their proxies all at once.
THEOREM GivenTogether == Spec => []AllGivenTogether
<1>1. IInv => AllGivenTogether
  BY DEF IInv, Fair
<1> QED
  BY <1>1, Invariant, PTL

\* set_proxies is not called on an object after the service has dropped it.
THEOREM DeadAreLeftAlone == Spec => NeverGivenToTheDead
<1>1. IInv /\ [Next]_vars
        => [\A o \in Objects : given'[o] # given[o] => o \in living']_vars
  <2> SUFFICES ASSUME IInv, Next, NEW o \in Objects, given'[o] # given[o]
               PROVE  o \in living'
    OBVIOUS
  <2>1. ~DisposeService
    BY DEF DisposeService
  <2>2. PICK p \in AllProxies : ProxyReady(p)
    BY <2>1 DEF Next, AnyReady
  <2>3. ~cancelled /\ living' = living
    BY <2>2 DEF ProxyReady, OnProxiesReady
  <2> QED
    BY <2>3 DEF IInv, Fair
<1> QED
  BY <1>1, Invariant, PTL DEF Spec, NeverGivenToTheDead

\* backend_get's gathering implements the promise of Startup: each of its steps is
\* a step of the promise or leaves what the caller sees as it was.
THEOREM StepsKeepThePromise == Spec => PromiseSteps
<1>1. Init => Promise!Init
  BY InitHolds DEF Init, Promise!Init, Outcome
<1>2. IInv /\ [Next]_vars => [Promise!Next]_(Promise!vars)
  <2> SUFFICES ASSUME IInv, [Next]_vars PROVE [Promise!Next]_(Promise!vars)
    OBVIOUS
  <2> USE DEF IInv
  <2>0. IInv'
    BY StepHolds
  <2>1. ASSUME NEW p \in AllProxies, ProxyReady(p) PROVE [Promise!Next]_(Promise!vars)
    <3>1. ~freed /\ cancelled' = cancelled /\ Outcome = "waiting"
      BY <2>1, LastReply DEF ProxyReady, Outcome
    <3>2. CASE ~freed'
      BY <3>1, <3>2 DEF Outcome, Promise!vars
    <3>3. CASE freed' /\ ~cancelled
      <4>1. \A o \in Objects : given'[o] # <<>>
        BY <2>0, <3>1, <3>3 DEF Fair, TypeOK
      <4>2. Outcome' = "given"
        BY <3>3, <4>1, ObjectsAssumption DEF Outcome
      <4> QED
        BY <3>1, <3>3, <4>2 DEF Promise!Next, Promise!Give
    <3>4. CASE freed' /\ cancelled
      <4>1. given' = given
        BY <2>1, <3>4 DEF ProxyReady, OnProxiesReady
      <4>2. Outcome' = "dropped"
        BY <3>1, <3>4, <4>1 DEF Outcome, Fair
      <4> QED
        BY <3>1, <3>4, <4>2 DEF Promise!Next, Promise!Drop
    <3> QED
      BY <3>2, <3>3, <3>4
  <2>2. CASE DisposeService
    BY <2>2 DEF DisposeService, Outcome, Promise!Next, Promise!Leave, TypeOK
  <2>3. CASE UNCHANGED vars
    BY <2>3 DEF vars, Outcome, Promise!vars
  <2> QED
    BY <2>1, <2>2, <2>3 DEF Next, AnyReady
<1> QED
  BY <1>1, <1>2, Invariant, PTL DEF Spec, PromiseSteps
=============================================================================
