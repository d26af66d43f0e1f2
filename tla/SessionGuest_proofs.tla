-------------------------- MODULE SessionGuest_proofs --------------------------
(***************************************************************************)
(* Theorems about SessionGuest, for any sessions and any number of         *)
(* messages: types, that a listener of the flags is never out of date, and *)
(* that the flags are right once everything said is heard.                 *)
(***************************************************************************)
EXTENDS SessionGuest, FiniteSetTheorems, SequenceTheorems, TLAPS

Mirror == [f \in Flags |-> CASE f = "active" -> guest_is_active
                             [] f = "logged-in" -> guest_is_logged_in
                             [] OTHER -> guest_is_allowed]

-----------------------------------------------------------------------------
(* Queues. *)

LEMMA Received ==
  ASSUME TypeOK, msgs # << >>
  PROVE  Head(msgs) \in Msgs /\ Tail(msgs) \in Seq(Msgs)
BY DEF TypeOK

LEMMA Reported ==
  ASSUME TypeOK, dmmsgs # << >>
  PROVE  Head(dmmsgs) \in BOOLEAN /\ Tail(dmmsgs) \in Seq(BOOLEAN)
BY DEF TypeOK

LEMMA Sent ==
  ASSUME TypeOK
  PROVE  /\ \A proxy : Signal(proxy) => msgs' \in Seq(Msgs)
         /\ Append(msgs, [type |-> "error"]) \in Seq(Msgs)
         /\ Append(msgs, [type |-> "sessions", ids |-> listed]) \in Seq(Msgs)
<1>1. msgs \in Seq(Msgs) /\ listed \in SUBSET Sessions  BY DEF TypeOK
<1>2. /\ [type |-> "signal"] \in Msgs /\ [type |-> "error"] \in Msgs
      /\ [type |-> "sessions", ids |-> listed] \in Msgs
  BY <1>1 DEF Msgs
<1>3. /\ Append(msgs, [type |-> "signal"]) \in Seq(Msgs)
      /\ Append(msgs, [type |-> "error"]) \in Seq(Msgs)
      /\ Append(msgs, [type |-> "sessions", ids |-> listed]) \in Seq(Msgs)
  BY <1>1, <1>2
<1>4. \A proxy : Signal(proxy) => msgs' \in Seq(Msgs)
  BY <1>1, <1>3 DEF Signal
<1> QED BY <1>3, <1>4

-----------------------------------------------------------------------------
(* Setting the flags. *)

\* The flags as the listener keeps them, before and after each setter.
LEMMA SetAllowedFollows ==
  ASSUME ListenerIsFresh, NEW b \in BOOLEAN, SetAllowed(b),
         UNCHANGED <<guest_is_active, guest_is_logged_in>>
  PROVE  ListenerIsFresh'
BY DEF ListenerIsFresh, SetAllowed, SetFlag, Flags

LEMMA SessionsAreHeard ==
  ASSUME TypeOK, ListenerIsFresh, OnSessionListReady
  PROVE  /\ ListenerIsFresh'
         /\ guest_is_active' \in BOOLEAN /\ guest_is_logged_in' \in BOOLEAN
<1> DEFINE guests == Head(msgs).ids \cap GuestSessions
<1>1. /\ guest_is_logged_in' = (guests # {}) /\ guest_is_active' \in ActiveAfter(guests)
      /\ mirror' = SetFlag(SetFlag(mirror, "logged-in", guest_is_logged_in, guest_is_logged_in'),
                           "active", guest_is_active, guest_is_active')
      /\ guest_is_allowed' = guest_is_allowed
  BY DEF OnSessionListReady
<1>2. guest_is_active' \in BOOLEAN /\ (guest_is_active' => guests # {})
  <2>1. CASE guests = {}
    BY <1>1, <2>1 DEF ActiveAfter
  <2>2. CASE guests # {}
    BY <1>1, <2>2 DEF ActiveAfter
  <2> QED BY <2>1, <2>2
<1>3. mirror' = Mirror'
  BY <1>1 DEF ListenerIsFresh, SetFlag, Mirror, Flags
<1> QED BY <1>1, <1>2, <1>3 DEF ListenerIsFresh, Mirror

-----------------------------------------------------------------------------
(* The invariant, step by step. *)

IInv == TypeOK /\ ListenerIsFresh

\* The listener keeps Booleans because the flags are.
LEMMA MirrorType ==
  ASSUME ListenerIsFresh', guest_is_active' \in BOOLEAN, guest_is_logged_in' \in BOOLEAN,
         guest_is_allowed' \in BOOLEAN
  PROVE  mirror' \in [Flags -> BOOLEAN]
BY DEF ListenerIsFresh

LEMMA InitHolds == Init => IInv
<1> SUFFICES ASSUME Init PROVE IInv  OBVIOUS
<1>1. ListenerIsFresh  BY DEF Init, ListenerIsFresh, Flags
<1>2. msgs \in Seq(Msgs) /\ dmmsgs \in Seq(BOOLEAN)  BY DEF Init
<1>3. has_guest_account \in BOOLEAN  BY Zenon DEF Init
<1> QED BY <1>1, <1>2, <1>3, SessionsAssumption DEF Init, IInv, TypeOK

LEMMA WorldHolds == ASSUME IInv, World  PROVE IInv'
<1> USE DEF IInv
<1>1. CASE \E s \in Sessions : SessionNew(s) \/ SessionRemoved(s) \/ GhostGone(s) \/ ActiveSession(s)
  <2>1. PICK s \in Sessions : SessionNew(s) \/ SessionRemoved(s) \/ GhostGone(s) \/ ActiveSession(s)
    BY <1>1
  <2>2. UNCHANGED <<life, proxies, flags, asked, dmVars, mirror>>
    BY <2>1 DEF SessionNew, SessionRemoved, GhostGone, ActiveSession
  <2>3. msgs' \in Seq(Msgs)
    <3>1. UNCHANGED msgs \/ \E proxy : Signal(proxy)
      BY <2>1 DEF SessionNew, SessionRemoved, GhostGone, ActiveSession
    <3> QED BY <3>1, Sent DEF TypeOK
  <2>4. listed' \subseteq Sessions /\ ghosts' \subseteq Sessions /\ current' \in Sessions
    BY <2>1 DEF SessionNew, SessionRemoved, GhostGone, ActiveSession, TypeOK
  <2>5. misled' \in BOOLEAN
    BY <2>1 DEF SessionNew, SessionRemoved, GhostGone, ActiveSession, TypeOK
  <2> QED BY <2>2, <2>3, <2>4, <2>5 DEF TypeOK, ListenerIsFresh, flags, dmVars
<1>2. CASE AnswerSessions
  <2>1. msgs' \in Seq(Msgs) /\ misled' \in BOOLEAN
    BY <1>2, Sent DEF AnswerSessions, TypeOK
  <2>2. asked' \in Nat  BY <1>2 DEF AnswerSessions, TypeOK
  <2> QED BY <1>2, <2>1, <2>2 DEF AnswerSessions, TypeOK, ListenerIsFresh, flags, dmVars
<1>3. CASE GuestAccountChanges
  <2>1. has_guest_account' \in BOOLEAN  BY <1>3, Zenon DEF GuestAccountChanges
  <2>2. dmmsgs' \in Seq(BOOLEAN)
    <3>1. dmmsgs \in Seq(BOOLEAN)  BY DEF TypeOK
    <3>2. dmmsgs' = dmmsgs \/ \E b \in BOOLEAN : dmmsgs' = Append(dmmsgs, b)
      BY <1>3, <2>1 DEF GuestAccountChanges
    <3> QED BY <3>1, <3>2
  <2> QED BY <1>3, <2>1, <2>2 DEF GuestAccountChanges, TypeOK, ListenerIsFresh, flags, login1Vars
<1> QED BY <1>1, <1>2, <1>3 DEF World

LEMMA ObjectHolds == ASSUME IInv, Object  PROVE IInv'
<1> USE DEF IInv, NextMsg
<1>1. CASE OnSignal \/ OnError
  <2>1. msgs' \in Seq(Msgs)  BY <1>1, Received DEF OnSignal, OnError
  <2>2. asked' \in Nat  BY <1>1 DEF OnSignal, OnError, Ask, TypeOK
  <2>3. UNCHANGED <<life, proxies, flags, listed, ghosts, current, dmVars, misled, mirror>>
    BY <1>1 DEF OnSignal, OnError
  <2> QED BY <2>1, <2>2, <2>3 DEF TypeOK, ListenerIsFresh, flags, dmVars
<1>2. CASE OnSessionListReady
  <2>1. msgs' \in Seq(Msgs)  BY <1>2, Received DEF OnSessionListReady
  <2>2. /\ ListenerIsFresh'
        /\ guest_is_active' \in BOOLEAN /\ guest_is_logged_in' \in BOOLEAN
    BY <1>2, SessionsAreHeard
  <2>3. UNCHANGED <<life, proxies, guest_is_allowed, listed, ghosts, current, asked, dmVars, misled>>
    BY <1>2 DEF OnSessionListReady
  <2>4. guest_is_allowed' \in BOOLEAN  BY <2>3 DEF TypeOK
  <2>5. mirror' \in [Flags -> BOOLEAN]  BY <2>2, <2>4, MirrorType
  <2> QED BY <2>1, <2>2, <2>3, <2>5 DEF TypeOK, dmVars
<1>3. CASE OnGuestAccountChange
  <2>1. dmmsgs' \in Seq(BOOLEAN) /\ Head(dmmsgs) \in BOOLEAN
    BY <1>3, Reported DEF OnGuestAccountChange
  <2>2. /\ SetAllowed(Head(dmmsgs))
        /\ UNCHANGED <<life, proxies, guest_is_active, guest_is_logged_in, login1Vars,
                       has_guest_account, misled>>
    BY <1>3 DEF OnGuestAccountChange
  <2>3. ListenerIsFresh'  BY <2>1, <2>2, SetAllowedFollows
  <2>4. /\ guest_is_allowed' \in BOOLEAN
        /\ guest_is_active' \in BOOLEAN /\ guest_is_logged_in' \in BOOLEAN
    BY <2>1, <2>2 DEF SetAllowed, TypeOK
  <2>5. mirror' \in [Flags -> BOOLEAN]  BY <2>3, <2>4, MirrorType
  <2> QED BY <2>1, <2>2, <2>3, <2>4, <2>5 DEF TypeOK, login1Vars
<1> QED BY <1>1, <1>2, <1>3 DEF Object

LEMMA AllProxiesFinite == IsFiniteSet(AllProxies)
<1>1. IsFiniteSet({"login1"})  BY FS_Singleton
<1>2. IsFiniteSet({"login1"} \cup {"seat"})  BY <1>1, FS_AddElement
<1>3. IsFiniteSet(({"login1"} \cup {"seat"}) \cup {"dm"})  BY <1>2, FS_AddElement
<1>4. AllProxies = ({"login1"} \cup {"seat"}) \cup {"dm"}  BY DEF AllProxies
<1> QED BY <1>3, <1>4

LEMMA StartHolds == ASSUME IInv, Start  PROVE IInv'
<1> USE DEF IInv
<1>1. PICK got \in SUBSET AllProxies : SetProxies(got)
  BY DEF Start
<1>2. asked' \in Nat
  <2>1. IsFiniteSet(AllProxies)  BY AllProxiesFinite
  <2>2. IsFiniteSet(got \ {"dm"})  BY <2>1, FS_Subset
  <2>3. Cardinality(got \ {"dm"}) \in Nat  BY <2>2, FS_CardinalityType
  <2> QED BY <1>1, <2>3 DEF SetProxies
<1>3. /\ SetAllowed(has_guest_account) \/ UNCHANGED <<guest_is_allowed, mirror>>
      /\ UNCHANGED <<guest_is_active, guest_is_logged_in, listed, ghosts, current, msgs, dmVars,
                     misled>>
      /\ life' = "running" /\ proxies' = got
  BY <1>1 DEF SetProxies
<1>4. has_guest_account \in BOOLEAN  BY DEF TypeOK
<1>5. ListenerIsFresh'
  <2>1. CASE SetAllowed(has_guest_account)  BY <1>3, <1>4, <2>1, SetAllowedFollows
  <2>2. CASE UNCHANGED <<guest_is_allowed, mirror>>  BY <1>3, <2>2 DEF ListenerIsFresh
  <2> QED BY <1>3, <2>1, <2>2
<1>6. /\ guest_is_allowed' \in BOOLEAN
      /\ guest_is_active' \in BOOLEAN /\ guest_is_logged_in' \in BOOLEAN
  BY <1>3 DEF SetAllowed, TypeOK
<1>7. mirror' \in [Flags -> BOOLEAN]  BY <1>5, <1>6, MirrorType
<1> QED BY <1>2, <1>3, <1>5, <1>6, <1>7 DEF TypeOK, dmVars

LEMMA NextHolds == IInv /\ [Next]_vars => IInv'
<1> SUFFICES ASSUME IInv, [Next]_vars PROVE IInv'  OBVIOUS
<1>1. CASE Dispose
  <2>1. msgs' \in Seq(Msgs) /\ dmmsgs' \in Seq(BOOLEAN)  BY <1>1 DEF Dispose
  <2> QED BY <1>1, <2>1 DEF Dispose, IInv, TypeOK, ListenerIsFresh, flags
<1>2. CASE UNCHANGED vars
  BY <1>2 DEF vars, IInv, TypeOK, ListenerIsFresh, flags, login1Vars, dmVars
<1> QED BY <1>1, <1>2, WorldHolds, ObjectHolds, StartHolds DEF Next

\* Every variable has its type in every behaviour, for any sessions and any
\* bound on the messages.
THEOREM TypeCorrect == Spec => []TypeOK
<1>1. IInv => TypeOK  BY DEF IInv
<1> QED BY <1>1, InitHolds, NextHolds, PTL DEF Spec

\* set_guest_is_..._flag (guest.c): whoever reads a flag at its notify is up to date,
\* and a guest is active only while logged in, whichever sessions logind lists in
\* whatever order, and whichever services are there.
THEOREM FlagsAreHeard == Spec => []ListenerIsFresh
<1>1. IInv => ListenerIsFresh  BY DEF IInv
<1> QED BY <1>1, InitHolds, NextHolds, PTL DEF Spec
-----------------------------------------------------------------------------
(* The flags settle: until they are right, a message or a reply that puts  *)
(* them right is on its way.                                               *)

LoginAccurate ==
  /\ guest_is_logged_in = (Guests # {})
  /\ Cardinality(Guests) <= 1 /\ "seat" \in proxies => guest_is_active = (current \in Guests)

\* logind will be asked again, or the last thing it said is true.
LoginComing == asked > 0 \/ \E i \in 1..Len(msgs) : msgs[i].type = "signal"
LoginTold ==
  IF msgs = << >> THEN LoginAccurate
  ELSE msgs[Len(msgs)].type = "sessions" /\ msgs[Len(msgs)].ids = listed

AllowedTold ==
  IF dmmsgs = << >> THEN guest_is_allowed = has_guest_account
  ELSE dmmsgs[Len(dmmsgs)] = has_guest_account

Settling ==
  /\ life = "init" => dmmsgs = << >>
  /\ ghosts # {} => misled
  /\ Running /\ ~misled =>
       /\ "login1" \in proxies => LoginComing \/ LoginTold
       /\ "dm" \in proxies => AllowedTold

LEMMA LastAppended ==
  ASSUME NEW S, NEW q \in Seq(S), NEW e \in S
  PROVE  /\ Append(q, e) # << >> /\ Len(Append(q, e)) \in 1..Len(Append(q, e))
         /\ Append(q, e)[Len(Append(q, e))] = e
OBVIOUS

LEMMA LastKept ==
  ASSUME NEW S, NEW q \in Seq(S), q # << >>
  PROVE  /\ Tail(q) = << >> => Len(q) = 1 /\ Head(q) = q[Len(q)]
         /\ Tail(q) # << >> => Tail(q)[Len(Tail(q))] = q[Len(q)]
         /\ \A i \in 1..Len(q) : q[i] = Head(q) \/ \E j \in 1..Len(Tail(q)) : Tail(q)[j] = q[i]
<1>1. Len(Tail(q)) = Len(q) - 1 /\ \A j \in 1..Len(Tail(q)) : Tail(q)[j] = q[j + 1]
  OBVIOUS
<1>2. Head(q) = q[1] /\ Len(q) \in Nat \ {0}
  OBVIOUS
<1>3. Tail(q) = << >> <=> Len(Tail(q)) = 0
  <2>1. Tail(q) \in Seq(S)  OBVIOUS
  <2> QED BY <2>1, EmptySeq
<1>4. /\ Tail(q) = << >> => Len(q) = 1
      /\ Tail(q) # << >> => Len(q) - 1 \in 1..Len(Tail(q))
  BY <1>1, <1>2, <1>3
<1>5. ASSUME NEW i \in 1..Len(q)
      PROVE  q[i] = Head(q) \/ \E j \in 1..Len(Tail(q)) : Tail(q)[j] = q[i]
  <2>1. CASE i = 1  BY <1>2, <2>1
  <2>2. CASE i # 1
    <3>1. i - 1 \in 1..Len(Tail(q))  BY <1>1, <1>2, <2>2
    <3>2. Tail(q)[i - 1] = q[i]  BY <1>1, <3>1
    <3> QED BY <3>1, <3>2
  <2> QED BY <2>1, <2>2
<1> QED BY <1>1, <1>2, <1>3, <1>4, <1>5

\* A signal, an answer or a change of the display manager's flag is the last message.
LEMMA SignalComes ==
  ASSUME TypeOK, NEW proxy \in proxies, Signal(proxy)
  PROVE  LoginComing'
<1>1. msgs \in Seq(Msgs) /\ [type |-> "signal"] \in Msgs  BY DEF TypeOK, Msgs
<1>2. msgs' = Append(msgs, [type |-> "signal"])  BY DEF Signal
<1>3. Len(msgs') \in 1..Len(msgs') /\ msgs'[Len(msgs')] = [type |-> "signal"]
  BY <1>1, <1>2, LastAppended
<1> QED BY <1>3 DEF LoginComing

LEMMA SingleGuest ==
  ASSUME TypeOK, Cardinality(Guests) <= 1, Guests # {}
  PROVE  \E s : Guests = {s}
<1>1. IsFiniteSet(Guests)
  <2>1. Guests \subseteq Sessions  BY DEF TypeOK, Guests
  <2> QED BY <2>1, SessionsAssumption, FS_Subset
<1>2. Cardinality(Guests) \in Nat /\ Cardinality(Guests) # 0
  BY <1>1, FS_CardinalityType, FS_EmptySet
<1>3. Cardinality(Guests) = 1  BY <1>2
<1> QED BY <1>1, <1>3, FS_Singleton

\* logind's part: what each step leaves on its way.
LEMMA LoginHeard ==
  ASSUME TypeOK, OnSessionListReady, LoginComing \/ LoginTold
  PROVE  (LoginComing \/ LoginTold)'
<1>1. /\ msgs \in Seq(Msgs) /\ msgs # << >> /\ Head(msgs).type = "sessions"
      /\ msgs' = Tail(msgs) /\ asked' = asked /\ listed' = listed
      /\ current' = current /\ proxies' = proxies
  BY DEF OnSessionListReady, NextMsg, TypeOK
<1>2. CASE asked > 0
  BY <1>1, <1>2 DEF LoginComing
<1>3. CASE \E i \in 1..Len(msgs) : msgs[i].type = "signal"
  <2>1. PICK i \in 1..Len(msgs) : msgs[i].type = "signal"  BY <1>3
  <2>2. \E j \in 1..Len(Tail(msgs)) : Tail(msgs)[j] = msgs[i]  BY <1>1, <2>1, LastKept
  <2> QED BY <1>1, <2>1, <2>2 DEF LoginComing
<1>4. CASE msgs[Len(msgs)].type = "sessions" /\ msgs[Len(msgs)].ids = listed
  <2>1. CASE Tail(msgs) # << >>
    BY <1>1, <1>4, <2>1, LastKept DEF LoginTold
  <2>2. CASE Tail(msgs) = << >>
    <3>1. Head(msgs).ids = listed  BY <1>1, <1>4, <2>2, LastKept
    <3>2. guest_is_logged_in' = (Guests # {}) /\ guest_is_active' \in ActiveAfter(Guests)
      BY <3>1 DEF OnSessionListReady, Guests
    <3>3. Cardinality(Guests) <= 1 => guest_is_active' = (current \in Guests)
      <4>1. CASE Guests = {}
        <5>1. guest_is_active' = FALSE  BY <3>2, <4>1 DEF ActiveAfter
        <5>2. (current \in Guests) = FALSE  BY <4>1
        <5> QED BY <5>1, <5>2, Zenon
      <4>2. CASE Guests # {} /\ Cardinality(Guests) <= 1
        <5>1. PICK s : Guests = {s}  BY <4>2, SingleGuest
        <5>2. guest_is_active' = (s = current)
          <6>1. Guests # {} /\ {last = current : last \in Guests} = {s = current}
            BY <5>1, Zenon
          <6> QED BY <3>2, <6>1, Zenon DEF ActiveAfter
        <5>3. (s = current) = (current \in Guests)  BY <5>1
        <5> QED BY <5>2, <5>3, Zenon
      <4> QED BY <4>1, <4>2
    <3>4. Guests' = Guests  BY <1>1 DEF Guests
    <3>5. LoginAccurate'  BY <1>1, <3>2, <3>3, <3>4 DEF LoginAccurate
    <3> QED BY <1>1, <2>2, <3>5 DEF LoginTold
  <2> QED BY <2>1, <2>2
<1>5. msgs # << >>  BY <1>1
<1> QED BY <1>2, <1>3, <1>4, <1>5 DEF LoginComing, LoginTold

LEMMA ErrorPassed ==
  ASSUME TypeOK, OnError, LoginComing \/ LoginTold
  PROVE  (LoginComing \/ LoginTold)'
<1>1. /\ msgs \in Seq(Msgs) /\ msgs # << >> /\ Head(msgs).type = "error"
      /\ msgs' = Tail(msgs) /\ asked' = asked /\ listed' = listed
  BY DEF OnError, NextMsg, TypeOK
<1>2. CASE asked > 0
  BY <1>1, <1>2 DEF LoginComing
<1>3. CASE \E i \in 1..Len(msgs) : msgs[i].type = "signal"
  <2>1. PICK i \in 1..Len(msgs) : msgs[i].type = "signal"  BY <1>3
  <2>2. \E j \in 1..Len(Tail(msgs)) : Tail(msgs)[j] = msgs[i]  BY <1>1, <2>1, LastKept
  <2> QED BY <1>1, <2>1, <2>2 DEF LoginComing
<1>4. CASE msgs[Len(msgs)].type = "sessions" /\ msgs[Len(msgs)].ids = listed
  <2>1. Tail(msgs) # << >>  BY <1>1, <1>4, LastKept
  <2> QED BY <1>1, <1>4, <2>1, LastKept DEF LoginTold
<1> QED BY <1>1, <1>2, <1>3, <1>4 DEF LoginComing, LoginTold

LEMMA LoginSettlesNext ==
  ASSUME IInv, Settling, Next, Running', ~misled', "login1" \in proxies'
  PROVE  (LoginComing \/ LoginTold)'
<1> USE DEF IInv
<1>1. CASE Start
  <2>1. PICK got \in SUBSET AllProxies : SetProxies(got)  BY <1>1 DEF Start
  <2>2. "login1" \in got /\ asked' = Cardinality(got \ {"dm"})
    BY <2>1 DEF SetProxies
  <2>3. IsFiniteSet(got \ {"dm"})
    <3>1. IsFiniteSet(AllProxies)  BY AllProxiesFinite
    <3> QED BY <3>1, FS_Subset
  <2>4. got \ {"dm"} # {}  BY <2>2
  <2>5. asked' > 0  BY <2>2, <2>3, <2>4, FS_CardinalityType, FS_EmptySet
  <2> QED BY <2>5 DEF LoginComing
<1>2. CASE Object \/ (Running /\ World)
  <2>1. UNCHANGED <<life, proxies>> /\ (~misled' => ~misled)
    BY <1>2 DEF Object, World, OnSignal, OnSessionListReady, OnError, OnGuestAccountChange,
         SessionNew, SessionRemoved, GhostGone, ActiveSession, AnswerSessions,
         GuestAccountChanges
  <2>2. Running /\ ~misled /\ "login1" \in proxies /\ (LoginComing \/ LoginTold)
    BY <2>1 DEF Running, Settling
  <2>3. CASE OnSignal
    <3>1. asked' = asked + 1  BY <2>2, <2>3 DEF OnSignal, Ask
    <3>2. asked' > 0  BY <3>1 DEF TypeOK
    <3> QED BY <3>2 DEF LoginComing
  <2>4. CASE OnSessionListReady  BY <2>2, <2>4, LoginHeard
  <2>5. CASE OnError  BY <2>2, <2>5, ErrorPassed
  <2>6. CASE OnGuestAccountChange \/ GuestAccountChanges
    <3>1. UNCHANGED <<guest_is_active, guest_is_logged_in, login1Vars>>
      BY <2>6 DEF OnGuestAccountChange, GuestAccountChanges, flags
    <3> QED BY <2>1, <2>2, <3>1
      DEF login1Vars, LoginComing, LoginTold, LoginAccurate, Guests
  <2>7. CASE \E s \in Sessions : SessionNew(s) \/ SessionRemoved(s)
    <3>1. Signal("login1")  BY <2>7 DEF SessionNew, SessionRemoved
    <3> QED BY <2>2, <3>1, SignalComes
  <2>8. CASE \E s \in Sessions : GhostGone(s)
    BY <2>2, <2>8 DEF GhostGone, Settling
  <2>9. CASE \E s \in Sessions : ActiveSession(s)
    <3>1. Signal("seat") /\ UNCHANGED <<flags, listed, asked>>
      BY <2>9 DEF ActiveSession
    <3>2. CASE "seat" \in proxies  BY <3>1, <3>2, SignalComes
    <3>3. CASE "seat" \notin proxies
      <4>1. msgs' = msgs  BY <3>1, <3>3 DEF Signal
      <4> QED BY <2>1, <2>2, <3>1, <3>3, <4>1
        DEF flags, LoginComing, LoginTold, LoginAccurate, Guests
    <3> QED BY <3>2, <3>3
  <2>10. CASE AnswerSessions
    <3>1. msgs' = Append(msgs, [type |-> "sessions", ids |-> listed]) /\ listed' = listed
      BY <2>10 DEF AnswerSessions
    <3>2. msgs \in Seq(Msgs) /\ [type |-> "sessions", ids |-> listed] \in Msgs
      BY DEF TypeOK, Msgs
    <3>3. msgs' # << >> /\ msgs'[Len(msgs')] = [type |-> "sessions", ids |-> listed]
      BY <3>1, <3>2, LastAppended
    <3> QED BY <3>1, <3>3 DEF LoginTold
  <2> QED BY <1>2, <2>3, <2>4, <2>5, <2>6, <2>7, <2>8, <2>9, <2>10 DEF Object, World
<1>3. ~Dispose  BY DEF Dispose, Running
<1> QED BY <1>1, <1>2, <1>3 DEF Next

\* The display manager's part.
LEMMA AllowedSettlesNext ==
  ASSUME IInv, Settling, Next, Running', ~misled', "dm" \in proxies'
  PROVE  AllowedTold'
<1> USE DEF IInv
<1>1. CASE Start
  <2>1. PICK got \in SUBSET AllProxies : SetProxies(got)  BY <1>1 DEF Start
  <2>2. dmmsgs = << >>  BY <2>1 DEF SetProxies, Settling
  <2>3. SetAllowed(has_guest_account) /\ UNCHANGED dmVars  BY <2>1 DEF SetProxies
  <2> QED BY <2>2, <2>3 DEF SetAllowed, dmVars, AllowedTold
<1>2. CASE Object \/ (Running /\ World)
  <2>1. UNCHANGED <<life, proxies>> /\ (~misled' => ~misled)
    BY <1>2 DEF Object, World, OnSignal, OnSessionListReady, OnError, OnGuestAccountChange,
         SessionNew, SessionRemoved, GhostGone, ActiveSession, AnswerSessions,
         GuestAccountChanges
  <2>2. Running /\ ~misled /\ "dm" \in proxies /\ AllowedTold
    BY <2>1 DEF Running, Settling
  <2>3. CASE OnGuestAccountChange
    <3>1. /\ dmmsgs \in Seq(BOOLEAN) /\ dmmsgs # << >> /\ dmmsgs' = Tail(dmmsgs)
          /\ guest_is_allowed' = Head(dmmsgs) /\ has_guest_account' = has_guest_account
      BY <2>3 DEF OnGuestAccountChange, SetAllowed, TypeOK
    <3>2. dmmsgs[Len(dmmsgs)] = has_guest_account  BY <2>2, <3>1 DEF AllowedTold
    <3>3. CASE Tail(dmmsgs) = << >>  BY <3>1, <3>2, <3>3, LastKept DEF AllowedTold
    <3>4. CASE Tail(dmmsgs) # << >>  BY <3>1, <3>2, <3>4, LastKept DEF AllowedTold
    <3> QED BY <3>3, <3>4
  <2>4. CASE GuestAccountChanges
    <3>1. dmmsgs \in Seq(BOOLEAN) /\ has_guest_account' \in BOOLEAN
      BY <2>4, Zenon DEF GuestAccountChanges, TypeOK
    <3>2. dmmsgs' = Append(dmmsgs, has_guest_account')
      BY <2>2, <2>4 DEF GuestAccountChanges
    <3>3. dmmsgs' # << >> /\ dmmsgs'[Len(dmmsgs')] = has_guest_account'
      BY <3>1, <3>2, LastAppended
    <3> QED BY <3>3 DEF AllowedTold
  <2>5. CASE UNCHANGED <<guest_is_allowed, dmVars>>
    BY <2>2, <2>5 DEF dmVars, AllowedTold
  <2>6. \/ OnGuestAccountChange \/ GuestAccountChanges
        \/ UNCHANGED <<guest_is_allowed, dmVars>>
    BY <1>2 DEF Object, World, OnSignal, OnSessionListReady, OnError, flags,
         SessionNew, SessionRemoved, GhostGone, ActiveSession, AnswerSessions
  <2> QED BY <2>3, <2>4, <2>5, <2>6
<1>3. ~Dispose  BY DEF Dispose, Running
<1> QED BY <1>1, <1>2, <1>3 DEF Next

LEMMA SettlingNext == IInv /\ Settling /\ [Next]_vars => Settling'
<1> SUFFICES ASSUME IInv, Settling, [Next]_vars PROVE Settling'  OBVIOUS
<1>1. CASE UNCHANGED vars
  BY <1>1 DEF vars, flags, login1Vars, dmVars, Settling, Running, LoginComing, LoginTold,
     LoginAccurate, AllowedTold, Guests
<1>2. CASE Next
  <2>1. life' = "init" => dmmsgs' = << >>
    <3>1. life' # "init"
      BY <1>2 DEF Next, Start, SetProxies, Dispose, Running, Object, World, NextMsg, OnSignal,
         OnSessionListReady, OnError, OnGuestAccountChange, SessionNew, SessionRemoved,
         GhostGone, ActiveSession, AnswerSessions, GuestAccountChanges
    <3> QED BY <3>1
  <2>2. ghosts' # {} => misled'
    BY <1>2 DEF Settling, Next, Start, SetProxies, Dispose, Object, World, OnSignal,
       OnSessionListReady, OnError, OnGuestAccountChange, SessionNew, SessionRemoved,
       GhostGone, ActiveSession, AnswerSessions, GuestAccountChanges, login1Vars
  <2> QED BY <1>2, <2>1, <2>2, LoginSettlesNext, AllowedSettlesNext DEF Settling
<1> QED BY <1>1, <1>2

\* "Whether or not the Guest account is logged in" and "has the current session"
\* (guest.c): whatever sessions come and go while replies are on their way, for
\* any number of messages and whichever services are there, the flags are right
\* once all messages are handled, unless a call failed or a dead session was listed.
THEOREM GuestFlagsSettle == Spec => []GuestSettles
<1>1. Init => Settling  BY DEF Init, Settling, Running
<1>2. Settling => GuestSettles
  <2> SUFFICES ASSUME Settling, Quiet, ~misled PROVE Accurate
    BY DEF GuestSettles
  <2>1. "login1" \in proxies => LoginAccurate
    BY DEF Settling, Quiet, LoginComing, LoginTold
  <2>2. "dm" \in proxies => guest_is_allowed = has_guest_account
    BY DEF Settling, Quiet, AllowedTold
  <2> QED BY <2>1, <2>2 DEF Accurate, LoginAccurate
<1> QED BY <1>1, <1>2, InitHolds, NextHolds, SettlingNext, PTL DEF Spec
=============================================================================
