-------------------------- MODULE EndSession_proofs --------------------------
(***************************************************************************)
(* Theorems about EndSession, for any desktops and any number of requests: *)
(* types, that nothing ends the session which the user did not confirm,    *)
(* that each yes is acted on once, and that no handler outlives its dialog.*)
(***************************************************************************)
EXTENDS EndSession, FiniteSetTheorems, SequenceTheorems, TLAPS

-----------------------------------------------------------------------------
(* Counters, calls and messages. *)

LEMMA PlusType ==
  ASSUME NEW count \in [Kinds -> Nat], NEW kind \in Kinds, NEW n \in Nat
  PROVE  /\ Plus(count, kind, n) \in [Kinds -> Nat]
         /\ Plus(count, kind, n)[kind] = count[kind] + n
         /\ \A k \in Kinds \ {kind} : Plus(count, kind, n)[k] = count[k]
BY DEF Plus

LEMMA EndNowType ==
  ASSUME TypeOK, NEW kind \in Kinds, NEW n \in Nat, EndNow(kind, n)
  PROVE  /\ called' \in [Kinds -> Nat] /\ logouts' \in Nat
         /\ manager_logouts' \in Nat /\ UNCHANGED <<accepted, refused>>
<1>1. called' \in [Kinds -> Nat]  BY PlusType DEF EndNow, TypeOK
<1>2. logouts' \in Nat  BY DEF EndNow, TypeOK
<1>3. manager_logouts' \in Nat /\ UNCHANGED <<accepted, refused>>
  <2>1. ManagerOwned \in BOOLEAN  BY DEF ManagerOwned
  <2> QED BY <2>1 DEF EndNow, TypeOK
<1> QED BY <1>1, <1>2, <1>3

LEMMA MsgFields ==
  ASSUME NEW m \in Msgs
  PROVE  /\ m.type \in {"opened", "failed", "confirmed"} => m.kind \in Kinds
         /\ m.type \in {"opened", "failed", "confirmed", "canceled", "closed", "vanished", "appeared"}
BY DEF Msgs

\* What the shell sends.
LEMMA ReplyType ==
  ASSUME NEW type \in {"opened", "failed", "confirmed"}, NEW kind \in Kinds
  PROVE  /\ Reply(type, kind) \in Seq(Msgs) /\ Len(Reply(type, kind)) = 1
         /\ Reply(type, kind)[1] = [type |-> type, kind |-> kind]
BY DEF Reply, Msgs

LEMMA SignalsType ==
  ASSUME NEW types \in Seq({"canceled", "closed", "vanished", "appeared"})
  PROVE  /\ Signals(types) \in Seq(Msgs) /\ Len(Signals(types)) = Len(types)
         /\ \A i \in 1..Len(types) : Signals(types)[i].type = types[i]
BY DEF Signals, Msgs

LEMMA SignalsSent ==
  /\ Signals(<<"canceled", "closed">>) \in Seq(Msgs) /\ Signals(<<"closed">>) \in Seq(Msgs)
  /\ Signals(<<"vanished">>) \in Seq(Msgs) /\ Signals(<<"appeared">>) \in Seq(Msgs)
<1> DEFINE S == {"canceled", "closed", "vanished", "appeared"}
<1>1. /\ <<"canceled", "closed">> \in Seq(S) /\ <<"closed">> \in Seq(S)
      /\ <<"vanished">> \in Seq(S) /\ <<"appeared">> \in Seq(S)
  OBVIOUS
<1> QED BY <1>1, SignalsType

LEMMA FailuresType ==
  ASSUME NEW kinds \in Seq(Kinds)
  PROVE  [i \in DOMAIN kinds |-> [type |-> "failed", kind |-> kinds[i]]] \in Seq(Msgs)
BY DEF Msgs

LEMMA SentType ==
  ASSUME TypeOK, NEW msgs \in Seq(Msgs), Send(msgs)
  PROVE  /\ dialogmsg' \in Seq(Msgs)
         /\ \A i \in 1..Len(dialogmsg') :
              \/ \E j \in 1..Len(dialogmsg) : dialogmsg'[i] = dialogmsg[j]
              \/ \E j \in 1..Len(msgs) : dialogmsg'[i] = msgs[j]
<1>1. dialogmsg \in Seq(Msgs) /\ dialogmsg' = dialogmsg \o msgs  BY DEF Send, TypeOK
<1>2. ASSUME NEW i \in 1..Len(dialogmsg')
      PROVE  \/ \E j \in 1..Len(dialogmsg) : dialogmsg'[i] = dialogmsg[j]
             \/ \E j \in 1..Len(msgs) : dialogmsg'[i] = msgs[j]
  <2>1. CASE i <= Len(dialogmsg)  BY <1>1, <2>1
  <2>2. CASE i > Len(dialogmsg)
    <3>1. i - Len(dialogmsg) \in 1..Len(msgs) /\ dialogmsg'[i] = msgs[i - Len(dialogmsg)]
      BY <1>1, <2>2
    <3> QED BY <3>1
  <2> QED BY <1>1, <2>1, <2>2
<1> QED BY <1>1, <1>2

LEMMA OneAppended ==
  ASSUME NEW s \in Seq(Msgs), NEW t \in Seq(Msgs), Len(t) = 1, NEW j \in 1..Len(s \o t)
  PROVE  \/ j \in 1..Len(s) /\ (s \o t)[j] = s[j]
         \/ (s \o t)[j] = t[1]
<1>1. Len(s) \in Nat  OBVIOUS
<1>2. Len(s \o t) = Len(s) + Len(t)  BY ConcatProperties
<1>3. CASE j <= Len(s)  BY <1>1, <1>3
<1>4. CASE j = Len(s) + 1  BY <1>1, <1>4
<1> QED BY <1>1, <1>2, <1>3, <1>4

LEMMA ReceivedType ==
  ASSUME TypeOK, dialogmsg # << >>
  PROVE  /\ Head(dialogmsg) \in Msgs /\ Tail(dialogmsg) \in Seq(Msgs)
         /\ \A i \in 1..Len(Tail(dialogmsg)) :
              i + 1 \in 1..Len(dialogmsg) /\ Tail(dialogmsg)[i] = dialogmsg[i + 1]
BY DEF TypeOK
-----------------------------------------------------------------------------
(* Types. *)

LEMMA InitType == Init => TypeOK
<1> SUFFICES ASSUME Init PROVE TypeOK  OBVIOUS
<1>1. opening \in Seq(Kinds) /\ dialogmsg \in Seq(Msgs)  BY DEF Init
<1>2. running \in BOOLEAN /\ shell_owned \in BOOLEAN /\ suppress \in BOOLEAN  BY Zenon DEF Init
<1>3. called \in [Kinds -> Nat] /\ confirmed \in [Kinds -> Nat] /\ failed \in [Kinds -> Nat]
  BY DEF Init
<1>4. requests \in 0..MaxRequests  BY BoundAssumption DEF Init
<1>5. /\ desktop \in Desktops /\ alive \in BOOLEAN /\ manager_logouts \in Nat
      /\ accepted \in Nat /\ refused \in Nat
      /\ proxies \subseteq Proxies /\ creating \subseteq Proxies
      /\ overlapped \in BOOLEAN /\ broken \in BOOLEAN
      /\ handlers \in Nat /\ logouts \in Nat /\ shown \in Kinds \cup {NoDialog}
  BY DEF Init
<1> QED BY <1>1, <1>2, <1>3, <1>4, <1>5 DEF TypeOK

LEMMA AskType == ASSUME TypeOK, NEW kind \in Kinds, Ask(kind)  PROVE TypeOK'
<1>1. requests' \in 0..MaxRequests
  BY BoundAssumption DEF Ask, TypeOK
<1>2. overlapped' \in BOOLEAN
  BY Zenon DEF Ask
<1>3. DialogType(kind) \in Kinds
  BY DEF DialogType, Kinds
<1>4. /\ handlers' \in Nat /\ opening' \in Seq(Kinds)
      /\ called' \in [Kinds -> Nat] /\ logouts' \in Nat
      /\ manager_logouts' \in Nat /\ UNCHANGED <<accepted, refused>>
      /\ confirmed' \in [Kinds -> Nat]
  <2>1. CASE Prompt = "NONE"
    <3>1. EndNow(kind, 1) /\ confirmed' = Plus(confirmed, kind, 1) /\ UNCHANGED <<handlers, opening>>
      BY <2>1 DEF Ask
    <3> QED BY <3>1, EndNowType, PlusType DEF TypeOK
  <2>2. CASE Prompt = "PROGRAM"
    BY <2>2 DEF Ask, TypeOK, logoutVars
  <2>3. CASE Prompt = "LOMIRI"
    <3>1. ShowDialog(DialogType(kind)) /\ UNCHANGED <<called, logouts, logoutVars, confirmed>>
      BY <2>3 DEF Ask
    <3> QED BY <1>3, <3>1 DEF ShowDialog, TypeOK, logoutVars
  <2>4. CASE Prompt = "UTILS"
    <3>1. PICK n \in {0, 1} : /\ EndNow(kind, n) /\ confirmed' = Plus(confirmed, kind, n)
                              /\ UNCHANGED <<handlers, opening>>
      BY <2>4 DEF Ask
    <3> QED BY <3>1, EndNowType, PlusType DEF TypeOK
  <2> QED BY <2>1, <2>2, <2>3, <2>4 DEF Prompt
<1> QED BY <1>1, <1>2, <1>4 DEF Ask, TypeOK

\* The session manager's answer changes nothing but what happened.
LEMMA ManagerOnlyAnswers ==
  AnswerManager \/ OnManagerRefuses
    => UNCHANGED <<desktop, alive, suppress, objectVars, shellVars, historyVars>>
BY DEF AnswerManager, OnManagerRefuses

LEMMA ShellType == ASSUME TypeOK, Shell  PROVE TypeOK'
<1>1. CASE AnswerOpen
  <2>1. Head(opening) \in Kinds /\ Tail(opening) \in Seq(Kinds)
    BY <1>1 DEF AnswerOpen, TypeOK
  <2>2. dialogmsg' \in Seq(Msgs)
    BY <1>1, <2>1, ReplyType, SentType DEF AnswerOpen
  <2>3. failed' \in [Kinds -> Nat]
    <3>1. UNCHANGED failed \/ failed' = Plus(failed, Head(opening), 1)
      BY <1>1 DEF AnswerOpen
    <3>2. failed \in [Kinds -> Nat]  BY DEF TypeOK
    <3>3. Plus(failed, Head(opening), 1) \in [Kinds -> Nat]  BY <2>1, <3>2, PlusType
    <3> QED BY <3>1, <3>2, <3>3
  <2>4. broken' \in BOOLEAN /\ shown' \in Kinds \cup {NoDialog}
    BY <1>1, <2>1 DEF AnswerOpen, TypeOK
  <2> QED BY <1>1, <2>1, <2>2, <2>3, <2>4 DEF AnswerOpen, TypeOK, objectVars, logoutVars
<1>2. CASE OpenFails
  <2>1. Head(opening) \in Kinds /\ Tail(opening) \in Seq(Kinds)
    BY <1>2 DEF OpenFails, TypeOK
  <2>2. dialogmsg' \in Seq(Msgs)
    BY <1>2, <2>1, ReplyType, SentType DEF OpenFails
  <2>3. failed' \in [Kinds -> Nat]
    BY <1>2, <2>1, PlusType DEF OpenFails, TypeOK
  <2> QED BY <1>2, <2>1, <2>2, <2>3 DEF OpenFails, TypeOK, objectVars, logoutVars
<1>3. CASE AnswerLogout
  BY <1>3 DEF AnswerLogout, TypeOK, objectVars, historyVars
<1>4. CASE UserCancels
  <2>1. dialogmsg' \in Seq(Msgs)
    BY <1>4, SignalsSent, SentType DEF UserCancels
  <2> QED BY <1>4, <2>1 DEF UserCancels, TypeOK, objectVars, historyVars, logoutVars
<1>5. CASE ShellVanishes
  <2>1. [i \in DOMAIN opening |-> [type |-> "failed", kind |-> opening[i]]]
           \o Signals(<<"vanished">>) \in Seq(Msgs)
    BY SignalsSent, FailuresType DEF TypeOK
  <2>2. dialogmsg' \in Seq(Msgs)
    BY <1>5, <2>1, SentType DEF ShellVanishes
  <2>3. ASSUME NEW k \in Kinds PROVE Cardinality({i \in DOMAIN opening : opening[i] = k}) \in Nat
    <3>1. IsFiniteSet(1..Len(opening))  BY FS_Interval DEF TypeOK
    <3>2. {i \in DOMAIN opening : opening[i] = k} \subseteq 1..Len(opening)
      BY SMTT(30) DEF TypeOK
    <3> QED BY <3>1, <3>2, FS_Subset, FS_CardinalityType
  <2>4. failed' \in [Kinds -> Nat]
    <3> DEFINE n(k) == Cardinality({i \in DOMAIN opening : opening[i] = k})
    <3>1. failed' = [k \in Kinds |-> failed[k] + n(k)]  BY <1>5 DEF ShellVanishes
    <3>2. \A k \in Kinds : n(k) \in Nat  BY <2>3
    <3>3. \A k \in Kinds : failed[k] \in Nat  BY DEF TypeOK
    <3> HIDE DEF n
    <3> QED BY <3>1, <3>2, <3>3
  <2>5. opening' \in Seq(Kinds) /\ shown' = NoDialog /\ running' = FALSE /\ broken' = TRUE
    BY <1>5 DEF ShellVanishes
  <2> QED BY <1>5, <2>2, <2>4, <2>5 DEF ShellVanishes, TypeOK, objectVars, logoutVars
<1>6. CASE ShellAppears
  <2>1. dialogmsg' \in Seq(Msgs)
    BY <1>6, SignalsSent, SentType DEF ShellAppears
  <2> QED BY <1>6, <2>1 DEF ShellAppears, TypeOK, objectVars, historyVars, logoutVars
<1>7. ASSUME NEW kind \in Kinds, UserConfirms(kind)  PROVE TypeOK'
  <2>1. Reply("confirmed", kind) \o Signals(<<"closed">>) \in Seq(Msgs)
    <3>1. Reply("confirmed", kind) \in Seq(Msgs)  BY ReplyType
    <3> QED BY <3>1, SignalsSent
  <2>2. dialogmsg' \in Seq(Msgs)
    BY <1>7, <2>1, SentType DEF UserConfirms
  <2>3. confirmed' \in [Kinds -> Nat]
    BY <1>7, PlusType DEF UserConfirms, TypeOK
  <2> QED BY <1>7, <2>2, <2>3 DEF UserConfirms, TypeOK, objectVars, logoutVars
<1> QED BY <1>1, <1>2, <1>3, <1>4, <1>5, <1>6, <1>7 DEF Shell

LEMMA ManagerType == ASSUME TypeOK, AnswerManager \/ OnManagerRefuses  PROVE TypeOK'
<1>1. manager_logouts' \in Nat /\ accepted' \in Nat /\ refused' \in Nat
  BY DEF AnswerManager, OnManagerRefuses, TypeOK
<1> QED BY <1>1, ManagerOnlyAnswers DEF TypeOK, objectVars, shellVars, historyVars

LEMMA ObjectType == ASSUME TypeOK, Object  PROVE TypeOK'
<1> USE DEF NextMsg
<1>1. ASSUME NEW proxy \in Proxies, OnProxyReady(proxy)  PROVE TypeOK'
  BY <1>1 DEF OnProxyReady, TypeOK, shellVars, logoutVars
<1>2. CASE OnOpened \/ OnDialogDone \/ OnNameOwner
  <2>1. dialogmsg' \in Seq(Msgs)
    BY <1>2, ReceivedType DEF OnOpened, OnDialogDone, OnNameOwner
  <2>2. handlers' \in Nat
    BY <1>2 DEF OnOpened, OnDialogDone, OnNameOwner, TypeOK, objectVars
  <2>3. UNCHANGED shell_owned \/ shell_owned' = (Head(dialogmsg).type = "appeared")
    BY <1>2 DEF OnOpened, OnDialogDone, OnNameOwner, objectVars
  <2>4. shell_owned' \in BOOLEAN
    BY <2>3 DEF TypeOK
  <2> QED BY <1>2, <2>1, <2>2, <2>4 DEF OnOpened, OnDialogDone, OnNameOwner, TypeOK, objectVars, historyVars, logoutVars
<1>3. CASE OnOpenFailed \/ OnConfirmed
  <2>1. PICK kind \in Kinds, n \in Nat : EndNow(kind, n)
    BY <1>3, ReceivedType, MsgFields DEF OnOpenFailed, OnConfirmed, TypeOK, Kinds
  <2>2. called' \in [Kinds -> Nat] /\ logouts' \in Nat
      /\ manager_logouts' \in Nat /\ UNCHANGED <<accepted, refused>>
    BY <2>1, EndNowType
  <2>3. dialogmsg' \in Seq(Msgs)
    BY <1>3, ReceivedType DEF OnOpenFailed, OnConfirmed
  <2> QED BY <1>3, <2>2, <2>3 DEF OnOpenFailed, OnConfirmed, TypeOK, historyVars
<1>4. CASE OnLogoutFailed
  <2>1. manager_logouts' \in Nat  BY <1>4 DEF OnLogoutFailed, TypeOK
  <2> QED BY <1>4, <2>1 DEF OnLogoutFailed, TypeOK, objectVars
<1>5. CASE OnManagerRefuses
  BY <1>5, ManagerType
<1> QED BY <1>1, <1>2, <1>3, <1>4, <1>5 DEF Object

LEMMA NextType == TypeOK /\ [Next]_vars => TypeOK'
<1> SUFFICES ASSUME TypeOK, [Next]_vars PROVE TypeOK'  OBVIOUS
<1>1. CASE ToggleSuppress
  BY <1>1, Zenon DEF ToggleSuppress, TypeOK, objectVars, shellVars, historyVars, logoutVars
<1>2. CASE Dispose
  <2>1. dialogmsg' \in Seq(Msgs)  BY <1>2 DEF Dispose
  <2> QED BY <1>2, <2>1 DEF Dispose, TypeOK, historyVars, logoutVars
<1>3. CASE UNCHANGED vars
  BY <1>3 DEF vars, TypeOK, objectVars, shellVars, historyVars, logoutVars
<1> QED BY <1>1, <1>2, <1>3, AskType, ShellType, ManagerType, ObjectType DEF Next

\* Every variable has its type in every behaviour, for any number of requests.
THEOREM TypeCorrect == Spec => []TypeOK
BY InitType, NextType, PTL DEF Spec
-----------------------------------------------------------------------------
(* CancelIsHeeded.  What is called was confirmed or failed to open; while it is *)
(* on its way to us, the message that says so is all there is to know it by.    *)

SomeFailed == \E t \in Kinds : failed[t] > 0
Expected(msg) ==
  /\ msg.type = "confirmed" => confirmed[msg.kind] > 0
  /\ msg.type = "failed" => SomeFailed
MessagesExpected == \A i \in 1..Len(dialogmsg) : Expected(dialogmsg[i])
IInv == TypeOK /\ MessagesExpected /\ CancelIsHeeded

Grow == \A k \in Kinds : confirmed'[k] >= confirmed[k] /\ failed'[k] >= failed[k]

\* What was expected once stays so.
LEMMA ExpectedStays ==
  ASSUME TypeOK, TypeOK', Grow, NEW msg \in Msgs, Expected(msg)  PROVE Expected(msg)'
<1>1. msg.type = "confirmed" => msg.kind \in Kinds
  BY MsgFields
<1>2. \A k \in Kinds : /\ confirmed[k] \in Nat /\ confirmed'[k] \in Nat
                       /\ failed[k] \in Nat /\ failed'[k] \in Nat
  BY DEF TypeOK
<1> QED BY <1>1, <1>2 DEF Expected, Grow, SomeFailed

LEMMA CalledStays ==
  ASSUME TypeOK, TypeOK', Grow, CancelIsHeeded,
         \A k \in Kinds : \/ called'[k] = called[k] \/ confirmed'[k] > 0
                          \/ k = "logout" /\ SomeFailed'
  PROVE  CancelIsHeeded'
<1>1. \A k \in Kinds : /\ confirmed[k] \in Nat /\ confirmed'[k] \in Nat
                       /\ failed[k] \in Nat /\ failed'[k] \in Nat
  BY DEF TypeOK
<1> QED BY <1>1 DEF CancelIsHeeded, Grow, SomeFailed

LEMMA GrowPlus ==
  ASSUME TypeOK, NEW kind \in Kinds, NEW n \in Nat
  PROVE  /\ \A k \in Kinds : confirmed[k] >= confirmed[k] /\ failed[k] >= failed[k]
         /\ \A k \in Kinds : /\ Plus(confirmed, kind, n)[k] >= confirmed[k]
                             /\ Plus(failed, kind, n)[k] >= failed[k]
<1>1. confirmed \in [Kinds -> Nat] /\ failed \in [Kinds -> Nat]  BY DEF TypeOK
<1>2. \A k \in Kinds : confirmed[k] \in Nat /\ failed[k] \in Nat  BY <1>1
<1>3. ASSUME NEW k \in Kinds
      PROVE  Plus(confirmed, kind, n)[k] >= confirmed[k] /\ Plus(failed, kind, n)[k] >= failed[k]
  BY <1>1, <1>2 DEF Plus
<1> QED BY <1>2, <1>3

\* Messages that wait, and those that are sent if they are expected.
LEMMA QueueExpected ==
  ASSUME TypeOK, TypeOK', Grow, MessagesExpected
  PROVE  /\ UNCHANGED dialogmsg => MessagesExpected'
         /\ dialogmsg # << >> /\ dialogmsg' = Tail(dialogmsg) => MessagesExpected'
         /\ \A msgs \in Seq(Msgs) :
              Send(msgs) /\ (\A j \in 1..Len(msgs) : Expected(msgs[j])') => MessagesExpected'
<1>1. \A i \in 1..Len(dialogmsg) : dialogmsg[i] \in Msgs  BY DEF TypeOK
<1>2. \A i \in 1..Len(dialogmsg) : Expected(dialogmsg[i])  BY DEF MessagesExpected
<1>3. ASSUME NEW i \in 1..Len(dialogmsg)
      PROVE  \A m : m = dialogmsg[i] => Expected(m)'
  <2>1. PICK m \in Msgs : m = dialogmsg[i]  BY <1>1
  <2>2. Expected(m)'  BY <1>2, <2>1, ExpectedStays
  <2> QED BY <2>1, <2>2
<1>4. ASSUME UNCHANGED dialogmsg PROVE MessagesExpected'
  BY <1>3, <1>4 DEF MessagesExpected, Expected
<1>5. ASSUME dialogmsg # << >>, dialogmsg' = Tail(dialogmsg) PROVE MessagesExpected'
  BY <1>3, <1>5, ReceivedType DEF MessagesExpected, Expected
<1>6. ASSUME NEW msgs \in Seq(Msgs), Send(msgs), \A j \in 1..Len(msgs) : Expected(msgs[j])'
      PROVE  MessagesExpected'
  <2>1. ASSUME NEW i \in 1..Len(dialogmsg')  PROVE Expected(dialogmsg[i])'
    <3>1. CASE \E j \in 1..Len(dialogmsg) : dialogmsg'[i] = dialogmsg[j]
      BY <1>3, <3>1 DEF Expected
    <3>2. CASE \E j \in 1..Len(msgs) : dialogmsg'[i] = msgs[j]
      BY <1>6, <3>2 DEF Expected
    <3> QED BY <1>6, <2>1, <3>1, <3>2, SentType
  <2> QED BY <2>1 DEF MessagesExpected
<1> QED BY <1>4, <1>5, <1>6
LEMMA InitHeeded == Init => IInv
BY InitType DEF IInv, Init, MessagesExpected, CancelIsHeeded

LEMMA AskHeeded ==
  ASSUME IInv, TypeOK', NEW kind \in Kinds, Ask(kind)  PROVE IInv'
<1> USE DEF IInv
<1>1. UNCHANGED <<dialogmsg, failed>>
  BY DEF Ask
<1>2. CASE UNCHANGED <<called, confirmed>>
  <2>1. Grow  BY <1>1, <1>2, GrowPlus DEF Grow
  <2> QED BY <1>1, <1>2, <2>1, QueueExpected, CalledStays
<1>3. ASSUME NEW n \in {0, 1}, EndNow(kind, n), confirmed' = Plus(confirmed, kind, n)
      PROVE  IInv'
  <2>1. Grow  BY <1>1, <1>3, GrowPlus DEF Grow
  <2>2. called' = Plus(called, kind, n)  BY <1>3 DEF EndNow
  <2>3. \A k \in Kinds : called'[k] = called[k] \/ confirmed'[k] > 0
    <3>1. /\ called \in [Kinds -> Nat] /\ confirmed \in [Kinds -> Nat]
          /\ confirmed[kind] \in Nat /\ called[kind] \in Nat
      BY DEF TypeOK
    <3> QED BY <1>3, <2>2, <3>1 DEF Plus
  <2> QED BY <1>1, <2>1, <2>3, QueueExpected, CalledStays
<1>4. CASE Prompt \in {"PROGRAM", "LOMIRI"}
  BY <1>2, <1>4 DEF Ask
<1>5. CASE Prompt \in {"NONE", "UTILS"}
  <2>1. PICK n \in {0, 1} : EndNow(kind, n) /\ confirmed' = Plus(confirmed, kind, n)
    BY <1>5 DEF Ask
  <2> QED BY <1>3, <2>1
<1> QED BY <1>4, <1>5 DEF Prompt

\* What the shell reports is expected at once.
LEMMA FailureCounts ==
  ASSUME TypeOK, NEW kind \in Kinds, failed' = Plus(failed, kind, 1)
  PROVE  SomeFailed'
<1>1. failed \in [Kinds -> Nat] /\ failed[kind] \in Nat  BY DEF TypeOK
<1>2. failed'[kind] > 0  BY <1>1 DEF Plus
<1> QED BY <1>2 DEF SomeFailed

LEMMA SignalsExpected ==
  /\ \A j \in 1..Len(Signals(<<"canceled", "closed">>)) :
        Signals(<<"canceled", "closed">>)[j].type \notin {"confirmed", "failed"}
  /\ \A j \in 1..Len(Signals(<<"closed">>)) : Signals(<<"closed">>)[j].type = "closed"
  /\ \A j \in 1..Len(Signals(<<"appeared">>)) : Signals(<<"appeared">>)[j].type = "appeared"
  /\ \A j \in 1..Len(Signals(<<"vanished">>)) : Signals(<<"vanished">>)[j].type = "vanished"
  /\ Len(Signals(<<"closed">>)) = 1 /\ Len(Signals(<<"vanished">>)) = 1
BY DEF Signals

\* A step of the shell that only sends signals.
LEMMA OnlySignals ==
  ASSUME TypeOK, TypeOK', MessagesExpected, UNCHANGED <<confirmed, failed>>,
         NEW msgs \in Seq(Msgs), Send(msgs),
         \A j \in 1..Len(msgs) : msgs[j].type \notin {"confirmed", "failed"}
  PROVE  Grow /\ MessagesExpected'
<1>1. Grow  BY GrowPlus DEF Grow, Kinds
<1>2. \A j \in 1..Len(msgs) : Expected(msgs[j])'  BY DEF Expected
<1> QED BY <1>1, <1>2, QueueExpected

LEMMA OpenAnswered ==
  ASSUME TypeOK, TypeOK', MessagesExpected, NEW kind \in Kinds, UNCHANGED confirmed,
         \/ Send(Reply("opened", kind)) /\ UNCHANGED failed
         \/ Send(Reply("failed", kind)) /\ failed' = Plus(failed, kind, 1)
  PROVE  Grow /\ MessagesExpected'
<1>1. CASE Send(Reply("opened", kind)) /\ UNCHANGED failed
  <2>1. \A j \in 1..Len(Reply("opened", kind)) : Reply("opened", kind)[j].type = "opened"
    BY DEF Reply
  <2> QED BY <1>1, <2>1, ReplyType, OnlySignals
<1>2. CASE Send(Reply("failed", kind)) /\ failed' = Plus(failed, kind, 1)
  <2>1. Grow  BY <1>2, GrowPlus DEF Grow
  <2>2. \A j \in 1..Len(Reply("failed", kind)) : Reply("failed", kind)[j].type = "failed"
    BY DEF Reply
  <2>3. SomeFailed'  BY <1>2, FailureCounts
  <2>4. \A j \in 1..Len(Reply("failed", kind)) : Expected(Reply("failed", kind)[j])'
    BY <2>2, <2>3 DEF Expected
  <2> QED BY <1>2, <2>1, <2>4, ReplyType, QueueExpected
<1> QED BY <1>1, <1>2

LEMMA ShellHeeded == ASSUME IInv, TypeOK', Shell  PROVE IInv'
<1> USE DEF IInv
<1>1. called' = called
  BY DEF Shell, AnswerOpen, OpenFails, AnswerLogout, UserCancels, ShellVanishes, ShellAppears,
         UserConfirms, objectVars
<1>2. CASE AnswerOpen \/ OpenFails
  <2>1. Head(opening) \in Kinds
    BY <1>2 DEF AnswerOpen, OpenFails, TypeOK
  <2>2. /\ UNCHANGED confirmed
        /\ \/ Send(Reply("opened", Head(opening))) /\ UNCHANGED failed
           \/ Send(Reply("failed", Head(opening))) /\ failed' = Plus(failed, Head(opening), 1)
    BY <1>2 DEF AnswerOpen, OpenFails
  <2>3. Grow /\ MessagesExpected'
    BY <2>1, <2>2, OpenAnswered
  <2> QED BY <1>1, <2>3, CalledStays
<1>3. CASE AnswerLogout
  <2>1. UNCHANGED <<confirmed, failed, dialogmsg>>
    BY <1>3 DEF AnswerLogout, historyVars
  <2>2. Grow  BY <2>1, GrowPlus DEF Grow, Kinds
  <2> QED BY <1>1, <2>1, <2>2, QueueExpected, CalledStays
<1>4. CASE UserCancels \/ ShellAppears
  <2>1. /\ UNCHANGED <<confirmed, failed>>
        /\ \/ Send(Signals(<<"canceled", "closed">>)) \/ Send(Signals(<<"closed">>))
           \/ Send(Signals(<<"appeared">>))
    BY <1>4 DEF UserCancels, ShellAppears, historyVars
  <2>2. Grow /\ MessagesExpected'
    <3>1. CASE Send(Signals(<<"canceled", "closed">>))
      BY <2>1, <3>1, SignalsSent, SignalsExpected, OnlySignals
    <3>2. CASE Send(Signals(<<"closed">>))
      BY <2>1, <3>2, SignalsSent, SignalsExpected, OnlySignals
    <3>3. CASE Send(Signals(<<"appeared">>))
      BY <2>1, <3>3, SignalsSent, SignalsExpected, OnlySignals
    <3> QED BY <2>1, <3>1, <3>2, <3>3
  <2> QED BY <1>1, <2>2, CalledStays
<1>5. CASE ShellVanishes
  <2> DEFINE n(k) == Cardinality({i \in DOMAIN opening : opening[i] = k})
             lost == [i \in DOMAIN opening |-> [type |-> "failed", kind |-> opening[i]]]
             gone == Signals(<<"vanished">>)
  <2>1. /\ UNCHANGED confirmed /\ Send(lost \o gone)
        /\ failed' = [k \in Kinds |-> failed[k] + n(k)]
    BY <1>5 DEF ShellVanishes
  <2>2. ASSUME NEW k \in Kinds
        PROVE  n(k) \in Nat /\ \A i \in DOMAIN opening : opening[i] = k => n(k) > 0
    <3>0. DOMAIN opening = 1..Len(opening) /\ Len(opening) \in Nat  BY DEF TypeOK
    <3>1. IsFiniteSet(1..Len(opening))  BY <3>0, FS_Interval
    <3>2. {i \in DOMAIN opening : opening[i] = k} \subseteq 1..Len(opening)  BY <3>0
    <3>3. IsFiniteSet({i \in DOMAIN opening : opening[i] = k})  BY <3>1, <3>2, FS_Subset
    <3>4. n(k) \in Nat  BY <3>3, FS_CardinalityType
    <3>5. n(k) = 0 => {i \in DOMAIN opening : opening[i] = k} = {}  BY <3>3, FS_EmptySet
    <3>6. \A i \in DOMAIN opening : opening[i] = k => n(k) # 0  BY <3>5
    <3> QED BY <3>4, <3>6
  <2>3. \A k \in Kinds : failed[k] \in Nat /\ confirmed[k] \in Nat  BY DEF TypeOK
  <2>4. \A k \in Kinds : failed'[k] = failed[k] + n(k)  BY <2>1
  <2>5. \A i \in DOMAIN opening : opening[i] \in Kinds  BY DEF TypeOK
  <2>6. \A k \in Kinds : n(k) \in Nat  BY <2>2
  <2>7. \A i \in DOMAIN opening : n(opening[i]) > 0  BY <2>2, <2>5
  <2> HIDE DEF n
  <2>8. Grow  BY <2>1, <2>3, <2>4, <2>6 DEF Grow
  <2>9. opening # << >> => SomeFailed'
    <3>1. ASSUME opening # << >>  PROVE 1 \in DOMAIN opening  BY <3>1 DEF TypeOK
    <3>2. ASSUME NEW i \in DOMAIN opening  PROVE failed'[opening[i]] > 0
      BY <2>3, <2>4, <2>5, <2>6, <2>7
    <3> QED BY <2>5, <3>1, <3>2 DEF SomeFailed
  <2>10. lost \in Seq(Msgs) /\ gone \in Seq(Msgs) /\ Len(lost) = Len(opening) /\ Len(gone) = 1
         /\ gone[1].type = "vanished" /\ \A j \in 1..Len(lost) : lost[j].type = "failed"
    <3>1. Len(gone) = 1 /\ gone[1].type = "vanished"  BY SignalsExpected
    <3>2. lost \in Seq(Msgs) /\ gone \in Seq(Msgs)  BY FailuresType, SignalsSent DEF TypeOK
    <3>3. Len(lost) = Len(opening) /\ \A j \in 1..Len(lost) : lost[j].type = "failed"
      BY SMTT(30) DEF TypeOK
    <3> QED BY <3>1, <3>2, <3>3
  <2>11. PICK msgs \in Seq(Msgs) : msgs = lost \o gone
    <3>1. lost \in Seq(Msgs) /\ gone \in Seq(Msgs)  BY <2>10
    <3> HIDE DEF lost, gone
    <3>2. lost \o gone \in Seq(Msgs)  BY <3>1
    <3> QED BY <3>2
  <2>12. \A j \in 1..Len(msgs) : Expected(msgs[j])'
    <3> SUFFICES ASSUME NEW j \in 1..Len(msgs)
                 PROVE  /\ msgs[j].type # "confirmed"
                        /\ msgs[j].type = "failed" => SomeFailed'
      BY DEF Expected
    <3> HIDE DEF lost, gone
    <3>1. (j \in 1..Len(lost) /\ msgs[j] = lost[j]) \/ msgs[j] = gone[1]
      BY <2>10, <2>11, OneAppended
    <3>2. ASSUME j \in 1..Len(lost)  PROVE opening # << >>
      <4>1. Len(opening) # 0  BY <2>10, <3>2
      <4> QED BY <4>1
    <3> QED BY <2>9, <2>10, <3>1, <3>2
  <2>13. MessagesExpected'  BY <2>1, <2>8, <2>11, <2>12, QueueExpected
  <2> QED BY <1>1, <2>8, <2>13, CalledStays
<1>6. ASSUME NEW kind \in Kinds, UserConfirms(kind)  PROVE IInv'
  <2> DEFINE yes == Reply("confirmed", kind)
             gone == Signals(<<"closed">>)
  <2>1. UNCHANGED failed /\ Send(yes \o gone) /\ confirmed' = Plus(confirmed, kind, 1)
    BY <1>6 DEF UserConfirms
  <2>2. Grow  BY <2>1, GrowPlus DEF Grow
  <2>3. confirmed'[kind] > 0
    <3>1. confirmed \in [Kinds -> Nat] /\ confirmed[kind] \in Nat  BY DEF TypeOK
    <3> QED BY <2>1, <3>1 DEF Plus
  <2>4. /\ yes \in Seq(Msgs) /\ Len(yes) = 1 /\ gone \in Seq(Msgs) /\ Len(gone) = 1
        /\ yes[1].kind = kind /\ yes[1].type = "confirmed" /\ gone[1].type = "closed"
    <3>1. yes \in Seq(Msgs) /\ Len(yes) = 1 /\ yes[1] = [type |-> "confirmed", kind |-> kind]
      BY ReplyType
    <3>2. gone \in Seq(Msgs) /\ Len(gone) = 1 /\ gone[1].type = "closed"
      BY SignalsSent, SignalsExpected
    <3> QED BY <3>1, <3>2
  <2>5. \A j \in 1..Len(yes \o gone) : Expected((yes \o gone)[j])'
    <3> SUFFICES ASSUME NEW j \in 1..Len(yes \o gone)
                 PROVE  /\ (yes \o gone)[j].type = "confirmed" => confirmed'[(yes \o gone)[j].kind] > 0
                        /\ (yes \o gone)[j].type # "failed"
      BY DEF Expected
    <3> HIDE DEF yes, gone
    <3>1. (j \in 1..Len(yes) /\ (yes \o gone)[j] = yes[j]) \/ (yes \o gone)[j] = gone[1]
      BY <2>4, OneAppended
    <3>2. j \in 1..Len(yes) => j = 1  BY <2>4
    <3> QED BY <2>3, <2>4, <3>1, <3>2
  <2>6. yes \o gone \in Seq(Msgs)  BY <2>4
  <2>7. MessagesExpected'  BY <2>1, <2>2, <2>5, <2>6, QueueExpected
  <2> QED BY <1>1, <2>2, <2>7, CalledStays
<1> QED BY <1>2, <1>3, <1>4, <1>5, <1>6 DEF Shell

LEMMA ObjectHeeded == ASSUME IInv, TypeOK', Object  PROVE IInv'
<1> USE DEF IInv, NextMsg
<1>1. UNCHANGED <<confirmed, failed>>
  BY DEF Object, OnProxyReady, OnOpened, OnOpenFailed, OnConfirmed, OnDialogDone, OnNameOwner,
         OnLogoutFailed, OnManagerRefuses, historyVars
<1>2. Grow  BY <1>1, GrowPlus DEF Grow, Kinds
<1>3. MessagesExpected'
  <2>1. \/ UNCHANGED dialogmsg
        \/ dialogmsg # << >> /\ dialogmsg' = Tail(dialogmsg)
    BY DEF Object, OnProxyReady, OnOpened, OnOpenFailed, OnConfirmed, OnDialogDone, OnNameOwner,
           OnLogoutFailed, OnManagerRefuses, shellVars
  <2> QED BY <1>2, <2>1, QueueExpected
<1>4. \A k \in Kinds : \/ called'[k] = called[k] \/ confirmed'[k] > 0
                       \/ k = "logout" /\ SomeFailed'
  <2>1. CASE UNCHANGED called
    BY <2>1
  <2>2. CASE OnOpenFailed
    <3>1. /\ dialogmsg # << >> /\ Head(dialogmsg).type = "failed"
          /\ called' = Plus(called, "logout", 1)
      BY <2>2 DEF OnOpenFailed, EndNow
    <3>2. Head(dialogmsg) = dialogmsg[1] /\ 1 \in 1..Len(dialogmsg)
      BY <3>1 DEF TypeOK
    <3>3. SomeFailed  BY <3>1, <3>2 DEF MessagesExpected, Expected
    <3>4. SomeFailed'  BY <1>1, <3>3 DEF SomeFailed
    <3>5. \A k \in Kinds \ {"logout"} : called'[k] = called[k]
      BY <3>1 DEF Plus, TypeOK
    <3> QED BY <3>4, <3>5
  <2>3. CASE OnConfirmed
    <3>1. /\ dialogmsg # << >> /\ Head(dialogmsg).type = "confirmed"
          /\ called' = Plus(called, Head(dialogmsg).kind, handlers)
      BY <2>3 DEF OnConfirmed, EndNow
    <3>2. Head(dialogmsg) = dialogmsg[1] /\ 1 \in 1..Len(dialogmsg)
      BY <3>1 DEF TypeOK
    <3>3. confirmed[Head(dialogmsg).kind] > 0  BY <3>1, <3>2 DEF MessagesExpected, Expected
    <3>4. \A k \in Kinds \ {Head(dialogmsg).kind} : called'[k] = called[k]
      BY <3>1 DEF Plus, TypeOK
    <3> QED BY <1>1, <3>3, <3>4
  <2> QED BY <2>1, <2>2, <2>3 DEF Object, OnProxyReady, OnOpened, OnDialogDone, OnNameOwner,
                                  OnLogoutFailed, OnManagerRefuses, objectVars
<1> QED BY <1>2, <1>3, <1>4, CalledStays

LEMMA NextHeeded == IInv /\ [Next]_vars => IInv'
<1> SUFFICES ASSUME IInv, [Next]_vars PROVE IInv'  OBVIOUS
<1>1. TypeOK'  BY NextType DEF IInv
<1>2. CASE ToggleSuppress \/ Dispose \/ AnswerManager \/ UNCHANGED vars
  <2>1. UNCHANGED <<confirmed, failed, called>> /\ (UNCHANGED dialogmsg \/ dialogmsg' = << >>)
    BY <1>2 DEF ToggleSuppress, Dispose, AnswerManager, vars, objectVars, shellVars, historyVars
  <2>2. Grow  BY <2>1, GrowPlus DEF Grow, Kinds, IInv
  <2>3. UNCHANGED dialogmsg => MessagesExpected'  BY <1>1, <2>2, QueueExpected DEF IInv
  <2>4. dialogmsg' = << >> => MessagesExpected'  BY DEF MessagesExpected
  <2> QED BY <1>1, <2>1, <2>2, <2>3, <2>4, CalledStays DEF IInv
<1> QED BY <1>1, <1>2, AskHeeded, ShellHeeded, ObjectHeeded DEF Next

\* "No action is taken when the user cancels the dialog" (test-actions.cc:200):
\* whatever ends the session was confirmed, or is the logout that a dialog which
\* failed to open stands for, for any number of requests, dialogs and failures.
THEOREM NothingUnconfirmed == Spec => []CancelIsHeeded
<1>1. IInv => CancelIsHeeded  BY DEF IInv
<1> QED BY <1>1, InitHeeded, NextHeeded, PTL DEF Spec
-----------------------------------------------------------------------------
(* OneAnswerOneCall.  As long as nothing fails and dialogs do not overlap, the  *)
(* dialog goes round: idle, asked for, shown, and answered with its messages on *)
(* their way.  Only between the answer and its arrival do called and confirmed  *)
(* differ, and exactly one set of handlers hears it.                            *)

Sig(type) == [type |-> type]
Msg(type, kind) == [type |-> type, kind |-> kind]
Closed == Sig("closed")

Idle ==
  /\ opening = << >> /\ shown = NoDialog /\ handlers = 0 /\ called = confirmed
  /\ \/ dialogmsg \in {<< >>, <<Closed>>}
     \/ dialogmsg = <<Sig("appeared")>> /\ running
AskedFor ==
  /\ running /\ shown = NoDialog /\ handlers = 1 /\ called = confirmed
  /\ dialogmsg = << >> /\ \E t \in Kinds : opening = <<t>>
Showing ==
  /\ running /\ shown # NoDialog /\ handlers = 1 /\ called = confirmed /\ opening = << >>
  /\ dialogmsg = << >> \/ \E t \in Kinds : dialogmsg = <<Msg("opened", t)>>
Dismissed ==
  /\ shown = NoDialog /\ handlers = 1 /\ called = confirmed /\ opening = << >>
  /\ \/ dialogmsg \in {<<Closed>>, <<Sig("canceled"), Closed>>}
     \/ \E t \in Kinds : dialogmsg \in {<<Msg("opened", t), Closed>>,
                                        <<Msg("opened", t), Sig("canceled"), Closed>>}
Confirming(k) ==
  /\ shown = NoDialog /\ handlers = 1 /\ confirmed = Plus(called, k, 1) /\ opening = << >>
  /\ \/ dialogmsg = <<Msg("confirmed", k), Closed>>
     \/ \E t \in Kinds : dialogmsg = <<Msg("opened", t), Msg("confirmed", k), Closed>>
Round == Idle \/ AskedFor \/ Showing \/ Dismissed \/ \E k \in Kinds : Confirming(k)

Undisturbed == alive /\ ~overlapped /\ ~broken
OneAtATime == Undisturbed => Round /\ (shell_owned => running)

\* Head and Tail of a short queue, and what is sent to one.
LEMMA ShortQueues ==
  ASSUME NEW a, NEW b, NEW c
  PROVE  /\ Head(<<a>>) = a /\ Head(<<a, b>>) = a /\ Head(<<a, b, c>>) = a
         /\ Tail(<<a>>) = << >> /\ Tail(<<a, b>>) = <<b>> /\ Tail(<<a, b, c>>) = <<b, c>>
         /\ <<a>> # << >> /\ <<a, b>> # << >> /\ <<a, b, c>> # << >>
OBVIOUS

LEMMA ShortSent ==
  ASSUME NEW a, NEW b, NEW c
  PROVE  /\ << >> \o <<a>> = <<a>> /\ << >> \o <<a, b>> = <<a, b>>
         /\ <<a>> \o <<b>> = <<a, b>> /\ <<a>> \o <<b, c>> = <<a, b, c>>
<1> DEFINE S == {a, b, c}
<1>1. /\ << >> \in Seq(S) /\ <<a>> \in Seq(S) /\ <<b>> \in Seq(S) /\ <<a, b>> \in Seq(S)
      /\ <<b, c>> \in Seq(S) /\ <<a, b, c>> \in Seq(S)
  OBVIOUS
<1> HIDE DEF S
<1>2. << >> \o <<a>> = <<a>> /\ << >> \o <<a, b>> = <<a, b>>
  BY <1>1
<1>3. <<a>> \o <<b>> = <<a, b>>
  <2>1. <<a>> \o <<b>> \in Seq(S) /\ Len(<<a>> \o <<b>>) = 2
    BY <1>1, ConcatProperties
  <2>2. (<<a>> \o <<b>>)[1] = a /\ (<<a>> \o <<b>>)[2] = b
    BY <1>1, ConcatProperties
  <2>3. \A i \in 1..2 : (<<a>> \o <<b>>)[i] = (<<a, b>>)[i]
    BY <2>2
  <2> QED BY <1>1, <2>1, <2>3, SeqEqual
<1>4. <<a>> \o <<b, c>> = <<a, b, c>>
  <2>1. <<a>> \o <<b, c>> \in Seq(S) /\ Len(<<a>> \o <<b, c>>) = 3
    BY <1>1, ConcatProperties
  <2>2. (<<a>> \o <<b, c>>)[1] = a
    BY <1>1, ConcatProperties
  <2>3. (<<a>> \o <<b, c>>)[2] = b
    BY <1>1, ConcatProperties
  <2>4. (<<a>> \o <<b, c>>)[3] = c
    BY <1>1, ConcatProperties
  <2>5. \A i \in 1..3 : (<<a>> \o <<b, c>>)[i] = (<<a, b, c>>)[i]
    BY <2>2, <2>3, <2>4
  <2> QED BY <1>1, <2>1, <2>5, SeqEqual
<1> QED BY <1>2, <1>3, <1>4

LEMMA SignalsAre ==
  /\ Signals(<<"closed">>) = <<Closed>> /\ Signals(<<"appeared">>) = <<Sig("appeared")>>
  /\ Signals(<<"canceled", "closed">>) = <<Sig("canceled"), Closed>>
BY DEF Signals, Sig, Closed

LEMMA MsgTypes ==
  /\ \A kind : Msg("opened", kind).type = "opened"
  /\ \A kind : Msg("confirmed", kind).type = "confirmed" /\ Msg("confirmed", kind).kind = kind
  /\ Sig("canceled").type = "canceled" /\ Sig("appeared").type = "appeared"
  /\ Closed.type = "closed"
BY DEF Msg, Sig, Closed

\* The round only turns as long as nothing disturbs it.
LEMMA StillUndisturbed == ASSUME [Next]_vars, Undisturbed'  PROVE Undisturbed
<1>1. ASSUME NEW kind \in Kinds, Ask(kind)  PROVE Undisturbed
  BY <1>1 DEF Ask, Undisturbed
<1>2. ASSUME NEW proxy \in Proxies, OnProxyReady(proxy)  PROVE Undisturbed
  BY <1>2 DEF OnProxyReady, Undisturbed
<1>3. CASE Shell
  <2>1. CASE AnswerOpen
    BY <2>1 DEF AnswerOpen, Undisturbed
  <2>2. CASE OpenFails \/ ShellVanishes
    BY <2>2 DEF OpenFails, ShellVanishes, Undisturbed
  <2>3. CASE AnswerLogout \/ UserCancels \/ ShellAppears
    <3>1. UNCHANGED <<alive, overlapped, broken>>
      BY <2>3 DEF AnswerLogout, UserCancels, ShellAppears, historyVars
    <3> QED BY <3>1, Zenon DEF Undisturbed
  <2>4. ASSUME NEW kind \in Kinds, UserConfirms(kind)  PROVE Undisturbed
    BY <2>4 DEF UserConfirms, Undisturbed
  <2> QED BY <1>3, <2>1, <2>2, <2>3, <2>4 DEF Shell
<1>4. CASE OnOpened \/ OnOpenFailed \/ OnConfirmed \/ OnDialogDone \/ OnNameOwner
  <2>1. UNCHANGED <<alive, overlapped, broken>>
    BY <1>4 DEF OnOpened, OnOpenFailed, OnConfirmed, OnDialogDone, OnNameOwner, historyVars
  <2> QED BY <2>1, Zenon DEF Undisturbed
<1>5. CASE OnLogoutFailed
  BY <1>5 DEF OnLogoutFailed, Undisturbed
<1>6. CASE ToggleSuppress \/ Dispose \/ AnswerManager \/ OnManagerRefuses \/ UNCHANGED vars
  <2>1. UNCHANGED <<overlapped, broken>> /\ (UNCHANGED alive \/ ~alive')
    BY <1>6 DEF ToggleSuppress, Dispose, AnswerManager, OnManagerRefuses, vars, historyVars
  <2> QED BY <2>1, Zenon DEF Undisturbed
<1> QED BY <1>1, <1>2, <1>3, <1>4, <1>5, <1>6 DEF Next, Object

roundVars == <<handlers, called, confirmed, running, opening, shown, dialogmsg>>

LEMMA RoundRests == ASSUME Round, UNCHANGED roundVars  PROVE Round'
BY DEF Round, Idle, AskedFor, Showing, Dismissed, Confirming, roundVars

LEMMA AskTurns ==
  ASSUME Round, shell_owned => running, NEW kind \in Kinds, Ask(kind), ~overlapped'
  PROVE  Round'
<1>1. Quiet /\ dialogmsg' = << >> /\ shown' = shown /\ running' = running
  BY DEF Ask, Quiet
<1>2. Idle
  BY <1>1, ShortQueues DEF Quiet, Round, AskedFor, Showing, Dismissed, Confirming
<1>3. CASE Prompt = "LOMIRI"
  <2>1. ShowDialog(DialogType(kind)) /\ UNCHANGED <<called, confirmed>>
    BY <1>3 DEF Ask
  <2>2. DialogType(kind) \in Kinds
    BY DEF DialogType, Kinds
  <2>3. handlers' = 1 /\ opening' = <<DialogType(kind)>>
    BY <1>2, <2>1 DEF ShowDialog, Idle
  <2>4. running
    BY <1>3 DEF Prompt
  <2> QED BY <1>1, <1>2, <2>1, <2>2, <2>3, <2>4 DEF Round, AskedFor, Idle
<1>4. CASE Prompt # "LOMIRI"
  <2>1. UNCHANGED <<handlers, opening>> /\ called' = confirmed'
    <3>1. CASE Prompt = "NONE"
      BY <1>2, <3>1 DEF Ask, EndNow, Idle
    <3>2. CASE Prompt = "PROGRAM"
      BY <1>2, <3>2 DEF Ask, Idle
    <3>3. CASE Prompt = "UTILS"
      BY <1>2, <3>3 DEF Ask, EndNow, Idle
    <3> QED BY <1>4, <3>1, <3>2, <3>3 DEF Prompt
  <2> QED BY <1>1, <1>2, <2>1 DEF Round, Idle
<1> QED BY <1>3, <1>4

LEMMA ShellTurns ==
  ASSUME TypeOK, Round, shell_owned => running, Shell, ~broken'
  PROVE  Round' /\ (shell_owned' => running')
<1>1. CASE AnswerOpen
  <2>1. PICK t \in Kinds : AskedFor /\ opening = <<t>>
    BY <1>1 DEF AnswerOpen, Round, Idle, AskedFor, Showing, Dismissed, Confirming
  <2>2. Head(opening) = t /\ Tail(opening) = << >>
    BY <2>1, ShortQueues
  <2>3. shown' = t /\ Send(Reply("opened", t)) /\ opening' = << >>
    BY <1>1, <2>2 DEF AnswerOpen
  <2>4. dialogmsg' = <<Msg("opened", t)>>
    BY <2>1, <2>3, ShortSent DEF Send, Reply, Msg, AskedFor
  <2>5. UNCHANGED <<handlers, called, confirmed, running, shell_owned>>
    BY <1>1 DEF AnswerOpen, objectVars
  <2>6. t # NoDialog  BY DEF Kinds, NoDialog
  <2>7. Showing'
    BY <2>1, <2>3, <2>4, <2>5, <2>6 DEF Showing, AskedFor
  <2> QED BY <2>5, <2>7 DEF Round
<1>2. CASE AnswerLogout
  <2>1. UNCHANGED roundVars /\ shell_owned' = shell_owned /\ running' = running
    BY <1>2 DEF AnswerLogout, roundVars, objectVars, historyVars
  <2> QED BY <2>1, RoundRests
<1>3. CASE UserCancels
  <2>1. Showing
    BY <1>3 DEF UserCancels, Round, Idle, AskedFor, Dismissed, Confirming
  <2>2. /\ shown' = NoDialog /\ UNCHANGED <<handlers, called, confirmed, running, opening, shell_owned>>
        /\ dialogmsg' \in {dialogmsg \o <<Sig("canceled"), Closed>>, dialogmsg \o <<Closed>>}
    BY <1>3, SignalsAre DEF UserCancels, Send, objectVars, historyVars
  <2>3. \/ dialogmsg' \in {<<Closed>>, <<Sig("canceled"), Closed>>}
        \/ \E t \in Kinds : dialogmsg' \in {<<Msg("opened", t), Closed>>,
                                            <<Msg("opened", t), Sig("canceled"), Closed>>}
    <3>1. CASE dialogmsg = << >>
      BY <2>2, <3>1, ShortSent
    <3>2. ASSUME NEW t \in Kinds, dialogmsg = <<Msg("opened", t)>>
          PROVE  dialogmsg' \in {<<Msg("opened", t), Closed>>,
                                 <<Msg("opened", t), Sig("canceled"), Closed>>}
      BY <2>2, <3>2, ShortSent
    <3> QED BY <2>1, <3>1, <3>2 DEF Showing
  <2>4. Dismissed'
    BY <2>1, <2>2, <2>3 DEF Dismissed, Showing
  <2> QED BY <2>2, <2>4 DEF Round
<1>4. CASE ShellAppears
  <2>1. Idle
    BY <1>4, ShortQueues DEF ShellAppears, Round, AskedFor, Showing, Dismissed, Confirming
  <2>2. dialogmsg' = <<Sig("appeared")>> /\ running'
    BY <1>4, SignalsAre, ShortSent DEF ShellAppears, Send
  <2>3. UNCHANGED <<handlers, called, confirmed, opening, shown>>
    BY <1>4 DEF ShellAppears, objectVars, historyVars
  <2>4. Idle'
    BY <2>1, <2>2, <2>3 DEF Idle
  <2> QED BY <2>2, <2>4 DEF Round
<1>5. ASSUME NEW kind \in Kinds, UserConfirms(kind)
      PROVE  Round' /\ (shell_owned' => running')
  <2>1. Showing
    BY <1>5 DEF UserConfirms, Round, Idle, AskedFor, Dismissed, Confirming
  <2>2. /\ shown' = NoDialog /\ UNCHANGED <<handlers, called, running, opening, shell_owned>>
        /\ confirmed' = Plus(confirmed, kind, 1)
        /\ dialogmsg' = dialogmsg \o (Reply("confirmed", kind) \o Signals(<<"closed">>))
    BY <1>5 DEF UserConfirms, Send, objectVars
  <2>3. Reply("confirmed", kind) \o Signals(<<"closed">>) = <<Msg("confirmed", kind), Closed>>
    BY SignalsAre, ShortSent DEF Reply, Msg
  <2>4. \/ dialogmsg' = <<Msg("confirmed", kind), Closed>>
        \/ \E t \in Kinds : dialogmsg' = <<Msg("opened", t), Msg("confirmed", kind), Closed>>
    <3>1. CASE dialogmsg = << >>
      BY <2>2, <2>3, <3>1, ShortSent
    <3>2. ASSUME NEW t \in Kinds, dialogmsg = <<Msg("opened", t)>>
          PROVE  dialogmsg' = <<Msg("opened", t), Msg("confirmed", kind), Closed>>
      <4>1. dialogmsg' = <<Msg("opened", t)>> \o <<Msg("confirmed", kind), Closed>>
        BY <2>2, <2>3, <3>2, Zenon
      <4> QED BY <4>1, ShortSent, Zenon
    <3> QED BY <2>1, <3>1, <3>2 DEF Showing
  <2>5. Confirming(kind)'
    BY <2>1, <2>2, <2>4 DEF Confirming, Showing
  <2> QED BY <2>1, <2>2, <2>5 DEF Round
<1>6. ~OpenFails /\ ~ShellVanishes
  BY DEF OpenFails, ShellVanishes
<1> QED BY <1>1, <1>2, <1>3, <1>4, <1>5, <1>6 DEF Shell

\* What comes first of the messages says where the round is.
LEMMA FirstSays ==
  ASSUME Round, dialogmsg # << >>
  PROVE  /\ Head(dialogmsg).type \notin {"failed", "vanished"}
         /\ Head(dialogmsg).type = "appeared" => Idle /\ running /\ Tail(dialogmsg) = << >>
         /\ Head(dialogmsg).type = "confirmed" =>
              Confirming(Head(dialogmsg).kind) /\ Tail(dialogmsg) = <<Closed>>
              /\ Head(dialogmsg).kind \in Kinds
         /\ Head(dialogmsg).type \in {"canceled", "closed"} =>
              (Idle \/ Dismissed) /\ Tail(dialogmsg) \in {<< >>, <<Closed>>}
         /\ Head(dialogmsg).type = "opened" =>
              \/ Showing /\ Tail(dialogmsg) = << >>
              \/ Dismissed /\ Tail(dialogmsg) \in {<<Closed>>, <<Sig("canceled"), Closed>>}
              \/ \E k \in Kinds : Confirming(k) /\ Tail(dialogmsg) = <<Msg("confirmed", k), Closed>>
<1>1. CASE Idle
  <2>1. CASE dialogmsg = <<Closed>>
    BY <1>1, <2>1, ShortQueues, MsgTypes
  <2>2. CASE dialogmsg = <<Sig("appeared")>> /\ running
    BY <1>1, <2>2, ShortQueues, MsgTypes
  <2> QED BY <1>1, <2>1, <2>2 DEF Idle
<1>2. CASE Showing
  <2>1. PICK t \in Kinds : dialogmsg = <<Msg("opened", t)>>
    BY <1>2 DEF Showing
  <2>2. Head(dialogmsg) = Msg("opened", t) /\ Tail(dialogmsg) = << >>
    BY <2>1, ShortQueues
  <2>3. Head(dialogmsg).type = "opened"
    BY <2>2, MsgTypes
  <2> QED BY <1>2, <2>2, <2>3
<1>3. CASE Dismissed
  <2>1. CASE dialogmsg = <<Closed>>
    <3>1. Head(dialogmsg).type = "closed" /\ Tail(dialogmsg) = << >>
      BY <2>1, ShortQueues, MsgTypes
    <3> QED BY <1>3, <3>1
  <2>2. CASE dialogmsg = <<Sig("canceled"), Closed>>
    <3>1. Head(dialogmsg).type = "canceled" /\ Tail(dialogmsg) = <<Closed>>
      BY <2>2, ShortQueues, MsgTypes
    <3> QED BY <1>3, <3>1
  <2>3. ASSUME NEW t \in Kinds, dialogmsg \in {<<Msg("opened", t), Closed>>,
                                               <<Msg("opened", t), Sig("canceled"), Closed>>}
        PROVE  /\ Head(dialogmsg).type = "opened"
               /\ Tail(dialogmsg) \in {<<Closed>>, <<Sig("canceled"), Closed>>}
    <3>1. /\ Head(dialogmsg) = Msg("opened", t)
          /\ Tail(dialogmsg) \in {<<Closed>>, <<Sig("canceled"), Closed>>}
      <4>1. CASE dialogmsg = <<Msg("opened", t), Closed>>
        BY <4>1, ShortQueues
      <4>2. CASE dialogmsg = <<Msg("opened", t), Sig("canceled"), Closed>>
        BY <4>2, ShortQueues
      <4> QED BY <2>3, <4>1, <4>2
    <3>2. Head(dialogmsg).type = "opened"
      BY <3>1, MsgTypes
    <3> QED BY <3>1, <3>2
  <2>4. CASE /\ Head(dialogmsg).type = "opened"
             /\ Tail(dialogmsg) \in {<<Closed>>, <<Sig("canceled"), Closed>>}
    BY <1>3, <2>4
  <2> QED BY <1>3, <2>1, <2>2, <2>3, <2>4 DEF Dismissed
<1>4. ASSUME NEW k \in Kinds, Confirming(k)
      PROVE  \/ /\ Head(dialogmsg).type = "confirmed" /\ Head(dialogmsg).kind = k
                /\ Tail(dialogmsg) = <<Closed>>
             \/ /\ Head(dialogmsg).type = "opened"
                /\ Tail(dialogmsg) = <<Msg("confirmed", k), Closed>>
  <2>1. CASE dialogmsg = <<Msg("confirmed", k), Closed>>
    <3>1. Head(dialogmsg) = Msg("confirmed", k) /\ Tail(dialogmsg) = <<Closed>>
      BY <2>1, ShortQueues
    <3> QED BY <3>1, MsgTypes
  <2>2. ASSUME NEW t \in Kinds, dialogmsg = <<Msg("opened", t), Msg("confirmed", k), Closed>>
        PROVE  /\ Head(dialogmsg).type = "opened"
               /\ Tail(dialogmsg) = <<Msg("confirmed", k), Closed>>
    <3>1. Head(dialogmsg) = Msg("opened", t) /\ Tail(dialogmsg) = <<Msg("confirmed", k), Closed>>
      BY <2>2, ShortQueues
    <3> QED BY <3>1, MsgTypes
  <2> QED BY <1>4, <2>1, <2>2 DEF Confirming
<1>5. CASE \E k \in Kinds : Confirming(k)
  BY <1>4, <1>5
<1>6. ~AskedFor
  BY DEF AskedFor
<1> QED BY <1>1, <1>2, <1>3, <1>5, <1>6 DEF Round

LEMMA ObjectTurns ==
  ASSUME TypeOK, Round, shell_owned => running, Object, ~broken'
  PROVE  Round' /\ (shell_owned' => running')
<1> USE DEF NextMsg
<1>1. ASSUME NEW proxy \in Proxies, OnProxyReady(proxy)
      PROVE  Round' /\ (shell_owned' => running')
  <2>1. UNCHANGED roundVars /\ shell_owned' = shell_owned /\ running' = running
    BY <1>1 DEF OnProxyReady, roundVars, shellVars
  <2> QED BY <2>1, RoundRests
<1>2. CASE OnOpened
  <2>1. /\ dialogmsg # << >> /\ Head(dialogmsg).type = "opened" /\ dialogmsg' = Tail(dialogmsg)
        /\ UNCHANGED <<handlers, called, confirmed, running, opening, shown, shell_owned>>
    BY <1>2 DEF OnOpened, objectVars, historyVars
  <2>2. CASE Showing /\ dialogmsg' = << >>
    BY <2>1, <2>2 DEF Round, Showing
  <2>3. CASE Dismissed /\ dialogmsg' \in {<<Closed>>, <<Sig("canceled"), Closed>>}
    BY <2>1, <2>3 DEF Round, Dismissed
  <2>4. ASSUME NEW k \in Kinds, Confirming(k), dialogmsg' = <<Msg("confirmed", k), Closed>>
        PROVE  Confirming(k)'
    BY <2>1, <2>4 DEF Confirming
  <2>5. CASE \E k \in Kinds : Confirming(k)'
    BY <2>1, <2>5 DEF Round
  <2> QED BY <2>1, <2>2, <2>3, <2>4, <2>5, FirstSays
<1>3. CASE OnConfirmed
  <2> DEFINE k == Head(dialogmsg).kind
  <2>1. /\ dialogmsg # << >> /\ Head(dialogmsg).type = "confirmed" /\ dialogmsg' = Tail(dialogmsg)
        /\ called' = Plus(called, k, handlers)
        /\ UNCHANGED <<handlers, confirmed, running, opening, shown, shell_owned>>
    BY <1>3 DEF OnConfirmed, EndNow, historyVars
  <2>2. Confirming(k) /\ dialogmsg' = <<Closed>>
    BY <2>1, FirstSays
  <2>3. called' = confirmed
    BY <2>1, <2>2 DEF Confirming
  <2>4. Dismissed'
    BY <2>1, <2>2, <2>3 DEF Dismissed, Confirming
  <2> QED BY <2>1, <2>4 DEF Round
<1>4. CASE OnDialogDone
  <2>1. /\ dialogmsg # << >> /\ Head(dialogmsg).type \in {"canceled", "closed"}
        /\ dialogmsg' = Tail(dialogmsg) /\ handlers' = 0
        /\ UNCHANGED <<called, confirmed, running, opening, shown, shell_owned>>
    BY <1>4 DEF OnDialogDone, historyVars
  <2>2. (Idle \/ Dismissed) /\ dialogmsg' \in {<< >>, <<Closed>>}
    BY <2>1, FirstSays
  <2>3. Idle'
    BY <2>1, <2>2 DEF Idle, Dismissed
  <2> QED BY <2>1, <2>3 DEF Round
<1>5. CASE OnNameOwner
  <2>1. /\ dialogmsg # << >> /\ Head(dialogmsg).type \in {"vanished", "appeared"}
        /\ dialogmsg' = Tail(dialogmsg)
        /\ UNCHANGED <<handlers, called, confirmed, running, opening, shown>>
    BY <1>5 DEF OnNameOwner, historyVars
  <2>2. Idle /\ running /\ dialogmsg' = << >>
    BY <2>1, FirstSays
  <2>3. Idle'
    BY <2>1, <2>2 DEF Idle
  <2> QED BY <2>1, <2>2, <2>3 DEF Round
<1>6. ~OnOpenFailed
  BY FirstSays DEF OnOpenFailed
<1>7. ~OnLogoutFailed
  BY DEF OnLogoutFailed
<1>8. CASE OnManagerRefuses
  <2>1. UNCHANGED roundVars /\ shell_owned' = shell_owned /\ running' = running
    BY <1>8 DEF OnManagerRefuses, roundVars, objectVars, shellVars, historyVars
  <2> QED BY <2>1, RoundRests
<1> QED BY <1>1, <1>2, <1>3, <1>4, <1>5, <1>6, <1>7, <1>8 DEF Object

LEMMA NextTurns == TypeOK /\ OneAtATime /\ [Next]_vars => OneAtATime'
<1> SUFFICES ASSUME TypeOK, OneAtATime, [Next]_vars, Undisturbed'
             PROVE  Round' /\ (shell_owned' => running')
  BY DEF OneAtATime
<1>1. Round /\ (shell_owned => running)
  BY StillUndisturbed DEF OneAtATime
<1>2. ~broken' /\ ~overlapped' /\ alive'
  BY DEF Undisturbed
<1>3. ASSUME NEW kind \in Kinds, Ask(kind)  PROVE Round' /\ (shell_owned' => running')
  <2>1. UNCHANGED <<shell_owned, running>>  BY <1>3 DEF Ask
  <2> QED BY <1>1, <1>2, <1>3, <2>1, AskTurns
<1>4. CASE ToggleSuppress \/ AnswerManager \/ UNCHANGED vars
  <2>1. UNCHANGED roundVars /\ shell_owned' = shell_owned /\ running' = running
    BY <1>4 DEF ToggleSuppress, AnswerManager, vars, roundVars, objectVars, shellVars, historyVars
  <2> QED BY <1>1, <2>1, RoundRests
<1>5. ~Dispose  BY <1>2 DEF Dispose
<1> QED BY <1>1, <1>2, <1>3, <1>4, <1>5, ShellTurns, ObjectTurns DEF Next

LEMMA InitTurns == Init => OneAtATime
BY DEF Init, OneAtATime, Round, Idle

LEMMA QuietIsIdle == OneAtATime => OneAnswerOneCall
<1> SUFFICES ASSUME OneAtATime, alive, Quiet, ~overlapped, ~broken  PROVE called = confirmed
  BY DEF OneAnswerOneCall
<1>1. Round  BY DEF OneAtATime, Undisturbed
<1>2. Idle
  BY <1>1, ShortQueues DEF Quiet, Round, AskedFor, Showing, Dismissed, Confirming
<1> QED BY <1>2 DEF Idle

\* As long as the user waits for a dialog and nothing fails, each yes is acted on
\* once: on_confirmed runs for one set of handlers, however many dialogs were
\* opened and answered before.
THEOREM EachYesIsDone == Spec => []OneAnswerOneCall
BY InitType, NextType, InitTurns, NextTurns, QuietIsIdle, PTL DEF Spec

-----------------------------------------------------------------------------
(* ListensOnlyWhileOpen, with any overlap: it is inductive with the types.      *)

Listens == opening # << >> \/ shown # NoDialog \/ Closing

\* A message that is handled takes away no other "closed"; one that is sent adds
\* at its end.
LEMMA ClosingStays ==
  ASSUME TypeOK, Closing
  PROVE  /\ (dialogmsg # << >> /\ dialogmsg' = Tail(dialogmsg) /\ Head(dialogmsg).type # "closed")
              => Closing'
         /\ \A msgs \in Seq(Msgs) : Send(msgs) => Closing'
<1>1. PICK i \in 1..Len(dialogmsg) : dialogmsg[i].type = "closed"
  BY DEF Closing, TypeOK
<1>2. dialogmsg \in Seq(Msgs)  BY DEF TypeOK
<1>3. ASSUME dialogmsg # << >>, dialogmsg' = Tail(dialogmsg), Head(dialogmsg).type # "closed"
      PROVE  Closing'
  <2>1. i # 1 /\ i - 1 \in 1..Len(Tail(dialogmsg))  BY <1>1, <1>2, <1>3
  <2>2. Tail(dialogmsg)[i - 1] = dialogmsg[i]  BY <1>2, <2>1
  <2>3. DOMAIN Tail(dialogmsg) = 1..Len(Tail(dialogmsg))  BY <1>2, <1>3, ReceivedType
  <2> QED BY <1>1, <1>3, <2>1, <2>2, <2>3 DEF Closing
<1>4. ASSUME NEW msgs \in Seq(Msgs), Send(msgs)  PROVE Closing'
  <2>1. dialogmsg' = dialogmsg \o msgs  BY <1>4 DEF Send
  <2>2. dialogmsg' \in Seq(Msgs) /\ i \in 1..Len(dialogmsg') /\ dialogmsg'[i] = dialogmsg[i]
    BY <1>1, <1>2, <1>4, <2>1, ConcatProperties
  <2>3. i \in DOMAIN dialogmsg'  BY <2>2
  <2> QED BY <1>1, <2>2, <2>3 DEF Closing
<1> QED BY <1>3, <1>4

\* Whoever closes the dialog says so.
LEMMA ClosedIsSent ==
  ASSUME TypeOK, NEW msgs \in Seq(Msgs), Len(msgs) > 0, msgs[Len(msgs)].type = "closed", Send(msgs)
  PROVE  Closing'
<1>1. dialogmsg \in Seq(Msgs) /\ dialogmsg' = dialogmsg \o msgs  BY DEF TypeOK, Send
<1> DEFINE n == Len(dialogmsg) + Len(msgs)
<1>2. dialogmsg' \in Seq(Msgs) /\ n \in 1..Len(dialogmsg') /\ dialogmsg'[n] = msgs[Len(msgs)]
  BY <1>1, ConcatProperties
<1>3. n \in DOMAIN dialogmsg'  BY <1>2
<1> QED BY <1>2, <1>3 DEF Closing

LEMMA NextListens == TypeOK /\ ListensOnlyWhileOpen /\ [Next]_vars => ListensOnlyWhileOpen'
<1> SUFFICES ASSUME TypeOK, ListensOnlyWhileOpen, [Next]_vars, handlers' > 0, ~broken'
             PROVE  Listens'
  BY DEF ListensOnlyWhileOpen, Listens
<1>1. ASSUME handlers > 0, ~broken  PROVE Listens
  BY <1>1 DEF ListensOnlyWhileOpen, Listens
<1>2. ASSUME NEW kind \in Kinds, Ask(kind)  PROVE Listens'
  <2>1. CASE Prompt = "LOMIRI"
    <3>1. opening' = Append(opening, DialogType(kind))
      BY <1>2, <2>1 DEF Ask, ShowDialog
    <3>2. DialogType(kind) \in Kinds  BY DEF DialogType, Kinds
    <3>3. opening' # << >>  BY <3>1, <3>2, SMTT(30) DEF TypeOK
    <3> QED BY <3>3 DEF Listens
  <2>2. CASE Prompt # "LOMIRI"
    <3>1. UNCHANGED <<handlers, opening>>
      BY <1>2, <2>2 DEF Ask, Prompt
    <3>2. UNCHANGED <<shown, dialogmsg, broken>>
      BY <1>2 DEF Ask
    <3> QED BY <1>1, <3>1, <3>2 DEF Listens, Closing
  <2> QED BY <2>1, <2>2
<1>3. CASE Shell
  <2>1. CASE AnswerOpen
    <3>1. shown' = Head(opening) /\ Head(opening) \in Kinds
      BY <2>1 DEF AnswerOpen, TypeOK
    <3> QED BY <3>1 DEF Listens, Kinds, NoDialog
  <2>2. CASE AnswerLogout
    <3>1. UNCHANGED <<handlers, broken, opening, shown, dialogmsg>>
      BY <2>2 DEF AnswerLogout, objectVars, historyVars
    <3> QED BY <1>1, <3>1 DEF Listens, Closing
  <2>3. CASE UserCancels
    <3>1. PICK types \in {<<"canceled", "closed">>, <<"closed">>} : Send(Signals(types))
      BY <2>3 DEF UserCancels
    <3>2. /\ Signals(types) \in Seq(Msgs) /\ Len(Signals(types)) > 0
          /\ Signals(types)[Len(Signals(types))].type = "closed"
      <4>1. CASE types = <<"closed">>
        BY <4>1, SignalsSent DEF Signals
      <4>2. CASE types = <<"canceled", "closed">>
        BY <4>2, SignalsSent DEF Signals
      <4> QED BY <4>1, <4>2
    <3>3. Closing'  BY <3>1, <3>2, ClosedIsSent
    <3> QED BY <3>3 DEF Listens
  <2>4. CASE ShellAppears
    <3>1. UNCHANGED <<handlers, broken, opening, shown>> /\ Send(Signals(<<"appeared">>))
      BY <2>4 DEF ShellAppears, objectVars, historyVars
    <3>2. Closing => Closing'  BY <3>1, SignalsSent, ClosingStays
    <3> QED BY <1>1, <3>1, <3>2 DEF Listens
  <2>5. ASSUME NEW kind \in Kinds, UserConfirms(kind)  PROVE Listens'
    <3> DEFINE yes == Reply("confirmed", kind)
               gone == Signals(<<"closed">>)
    <3>1. Send(yes \o gone)  BY <2>5 DEF UserConfirms
    <3>2. /\ yes \in Seq(Msgs) /\ Len(yes) = 1 /\ gone \in Seq(Msgs) /\ Len(gone) = 1
          /\ gone[1].type = "closed"
      <4>1. yes \in Seq(Msgs) /\ Len(yes) = 1  BY ReplyType
      <4>2. gone \in Seq(Msgs) /\ Len(gone) = 1 /\ gone[1].type = "closed"
        BY SignalsSent, SignalsExpected
      <4> QED BY <4>1, <4>2
    <3> HIDE DEF yes, gone
    <3>3. yes \o gone \in Seq(Msgs) /\ Len(yes \o gone) = 2 /\ (yes \o gone)[2] = gone[1]
      BY <3>2, ConcatProperties
    <3> DEFINE msgs == yes \o gone
    <3>4. Send(msgs) /\ msgs \in Seq(Msgs) /\ Len(msgs) > 0 /\ msgs[Len(msgs)].type = "closed"
      BY <3>1, <3>2, <3>3
    <3> HIDE DEF msgs
    <3>5. Closing'  BY <3>4, ClosedIsSent
    <3> QED BY <3>5 DEF Listens
  <2>6. ~OpenFails /\ ~ShellVanishes
    BY DEF OpenFails, ShellVanishes
  <2> QED BY <1>3, <2>1, <2>2, <2>3, <2>4, <2>5, <2>6 DEF Shell
<1>4. ASSUME NEW proxy \in Proxies, OnProxyReady(proxy)  PROVE Listens'
  <2>1. UNCHANGED <<handlers, opening, shown, dialogmsg>> /\ ~broken
    BY <1>4 DEF OnProxyReady, shellVars
  <2> QED BY <1>1, <2>1 DEF Listens, Closing
<1>5. CASE OnOpened \/ OnOpenFailed \/ OnConfirmed \/ OnNameOwner
  <2>1. /\ dialogmsg # << >> /\ Head(dialogmsg).type # "closed" /\ dialogmsg' = Tail(dialogmsg)
        /\ UNCHANGED <<handlers, opening, shown, broken>>
    BY <1>5 DEF OnOpened, OnOpenFailed, OnConfirmed, OnNameOwner, NextMsg, objectVars, historyVars
  <2>2. Closing => Closing'  BY <2>1, ClosingStays
  <2> QED BY <1>1, <2>1, <2>2 DEF Listens
<1>6. CASE ToggleSuppress \/ AnswerManager \/ OnManagerRefuses \/ UNCHANGED vars
  <2>1. UNCHANGED <<handlers, broken, opening, shown, dialogmsg>>
    BY <1>6 DEF ToggleSuppress, AnswerManager, OnManagerRefuses, vars, objectVars, shellVars, historyVars
  <2> QED BY <1>1, <2>1 DEF Listens, Closing
<1>7. ~OnDialogDone /\ ~OnLogoutFailed /\ ~Dispose
  BY DEF OnDialogDone, OnLogoutFailed, Dispose
<1> QED BY <1>2, <1>3, <1>4, <1>5, <1>6, <1>7 DEF Next, Object

\* stop_listening_to_dialog runs for every dialog that is closed: no handler
\* outlives the dialog it was connected for, whatever overlaps, unless the shell
\* fails.
THEOREM NobodyListensOn == Spec => []ListensOnlyWhileOpen
<1>1. Init => ListensOnlyWhileOpen  BY DEF Init, ListensOnlyWhileOpen
<1> QED BY <1>1, InitType, NextType, NextListens, PTL DEF Spec
=============================================================================
