----------------------- MODULE SessionActions_proofs -----------------------
(***************************************************************************)
(* Theorems about SessionActions, for any desktops, settings, answers and  *)
(* bounds: types, that the listener hears of every change of a property,   *)
(* and that the cached flags follow the services.                          *)
(*                                                                         *)
(* PropertiesMirrored is inductive with the types and CreatedOnce.  The    *)
(* argument is a table of what each property is computed from (NowTable):  *)
(* a step changes what a read of a property returns only if it notifies    *)
(* the property or leaves a signal on its way that the object or the       *)
(* listener waits for.                                                     *)
(***************************************************************************)
EXTENDS SessionActions, TLAPS

-----------------------------------------------------------------------------
(* What each property is computed from. *)

NowTable ==
  /\ Now["can-lock"] = ~Locked("disable-lock-screen")
  /\ Now["can-logout"] = (~settings["suppress-logout-menuitem"] /\ ~Locked("disable-log-out"))
  /\ Now["can-reboot"] = CanReboot
  /\ Now["can-switch"] = (~Locked("disable-user-switching") /\ seat_allows_activation)
  /\ Now["can-prompt"] = ~settings["suppress-logout-restart-shutdown"]
  /\ Now["has-online-account-error"] = ("webcredentials" \in proxies /\ error_status)
  /\ \A p \in Powers : Now[p] = power[p]

LEMMA NowIs == NowTable
<1>1. ~settings["suppress-logout-restart-shutdown"] <=> PromptStatus # "NONE"
  BY DEF PromptStatus
<1> QED BY <1>1 DEF NowTable, Now, Properties, Powers

LEMMA NowWillBe == NowTable'
BY NowIs, PTL

LEMMA PropertiesAre ==
  Properties = {"can-lock", "can-logout", "can-reboot", "can-switch", "can-prompt",
                "has-online-account-error"} \cup Powers
BY DEF Properties, Powers

-----------------------------------------------------------------------------
(* Types. *)

\* TypeOK without the listener.
SourceTypes ==
  /\ desktop \in Desktops /\ alive \in BOOLEAN
  /\ settings \in [Keys -> BOOLEAN] /\ unseen \subseteq Keys
  /\ proxies \subseteq SessionProxies \cup SystemProxies
  /\ creating \subseteq SessionProxies \cup SystemProxies
  /\ power \in [Powers -> BOOLEAN] /\ seat_allows_activation \in BOOLEAN
  /\ error_status \in BOOLEAN /\ dialog_owned \in BOOLEAN
  /\ answer \in [Powers -> Answers] /\ asked \subseteq Powers
  /\ unanswered \subseteq Powers /\ seat_told \in BOOLEAN
  /\ can_multi_session \in BOOLEAN /\ web_error \in BOOLEAN
  /\ changes \in Seq(Changes)

LEMMA TypeParts == TypeOK <=> SourceTypes /\ mirror \in [Properties -> BOOLEAN]
BY DEF TypeOK, SourceTypes

LEMMA NowType == SourceTypes => Now \in [Properties -> BOOLEAN]
<1> SUFFICES ASSUME SourceTypes, NEW p \in Properties PROVE Now[p] \in BOOLEAN
  BY DEF Now
<1>1. p \in Powers => power[p] \in BOOLEAN  BY DEF SourceTypes
<1>2. error_status \in BOOLEAN /\ seat_allows_activation \in BOOLEAN  BY DEF SourceTypes
<1>3. CanReboot \in BOOLEAN /\ \A key \in Keys : Locked(key) \in BOOLEAN
  BY DEF CanReboot, Locked
<1> QED BY <1>1, <1>2, <1>3, NowIs, PropertiesAre
        DEF NowTable, Keys, LockdownKeys, IndicatorKeys

\* A step that tells the listener nothing of any property tells it nothing.
LEMMA TellsSomething ==
  [Next]_vars => UNCHANGED mirror \/ \E props : Notify(props)
<1>1. CASE UNCHANGED vars \/ Dispose \/ SeatChanges \/ WebErrorChanges \/ DialogOwnerChanges
  BY <1>1 DEF vars, Dispose, SeatChanges, WebErrorChanges, DialogOwnerChanges
<1>2. CASE \/ \E key \in Keys : WriteSetting(key) \/ SettingChanged(key)
           \/ \E got \in SUBSET SystemProxies : SetProxies(got)
           \/ \E p \in Powers : OnPowerReady(p)
  BY <1>2 DEF WriteSetting, SettingChanged, SetProxies, OnPowerReady
<1>3. CASE OnWebcredentialsReady \/ OnDialogReady
  BY <1>3 DEF OnWebcredentialsReady, OnDialogReady
<1>4. CASE OnSeatChange \/ OnWebErrorChange \/ OnDialogOwner
  BY <1>4 DEF OnSeatChange, OnWebErrorChange, OnDialogOwner
<1> QED BY <1>1, <1>2, <1>3, <1>4, ActionsAssumption DEF Next

LEMMA ToldType ==
  ASSUME SourceTypes', NEW props, Notify(props), mirror \in [Properties -> BOOLEAN]
  PROVE  mirror' \in [Properties -> BOOLEAN]
<1>1. (Now \in [Properties -> BOOLEAN])'
  BY NowType, PTL
<1> QED BY <1>1 DEF Notify

LEMMA ChangesType ==
  ASSUME changes \in Seq(Changes)
  PROVE  /\ \A of, value : of \in {"seat", "webcredentials", "dialog"} /\ value \in BOOLEAN /\ Tell(of, value)
                => changes' \in Seq(Changes)
         /\ changes # << >> => Head(changes).value \in BOOLEAN /\ Tail(changes) \in Seq(Changes)
<1>1. ASSUME changes # << >>
      PROVE Head(changes).value \in BOOLEAN /\ Tail(changes) \in Seq(Changes)
  <2>1. Head(changes) \in Changes  BY <1>1
  <2> QED BY <1>1, <2>1 DEF Changes
<1>2. ASSUME NEW of \in {"seat", "webcredentials", "dialog"}, NEW value \in BOOLEAN, Tell(of, value)
      PROVE changes' \in Seq(Changes)
  <2>1. [of |-> of, value |-> value] \in Changes  BY DEF Changes
  <2> QED BY <1>2, <2>1 DEF Tell
<1> QED BY <1>1, <1>2

LEMMA SourcesNext == SourceTypes /\ [Next]_vars => SourceTypes'
<1> SUFFICES ASSUME SourceTypes, [Next]_vars PROVE SourceTypes'
  OBVIOUS
<1> USE DEF SourceTypes, objectVars, serviceVars, SessionProxies, SystemProxies
<1>1. ASSUME NEW key \in Keys, WriteSetting(key) \/ SettingChanged(key) PROVE SourceTypes'
  BY <1>1 DEF WriteSetting, SettingChanged
<1>2. CASE SeatChanges \/ WebErrorChanges
  <2>1. can_multi_session' \in BOOLEAN /\ web_error' \in BOOLEAN
    BY <1>2 DEF SeatChanges, WebErrorChanges
  <2>2. changes' \in Seq(Changes)
    BY <1>2, <2>1, ChangesType DEF SeatChanges, WebErrorChanges
  <2> QED BY <1>2, <2>1, <2>2 DEF SeatChanges, WebErrorChanges
<1>3. CASE DialogOwnerChanges
  <2>1. changes' \in Seq(Changes)  BY <1>3, ChangesType DEF DialogOwnerChanges
  <2> QED BY <1>3, <2>1 DEF DialogOwnerChanges
<1>4. ASSUME NEW got \in SUBSET SystemProxies, SetProxies(got) PROVE SourceTypes'
  BY <1>4 DEF SetProxies
<1>5. ASSUME NEW p \in Powers, OnPowerReady(p) PROVE SourceTypes'
  BY <1>5 DEF OnPowerReady
<1>6. CASE OnWebcredentialsReady
  BY <1>6 DEF OnWebcredentialsReady
<1>7. CASE OnDialogReady
  BY <1>7 DEF OnDialogReady
<1>8. CASE OnSeatChange \/ OnWebErrorChange \/ OnDialogOwner
  <2>1. Head(changes).value \in BOOLEAN /\ Tail(changes) \in Seq(Changes)
    BY <1>8, ChangesType DEF OnSeatChange, OnWebErrorChange, OnDialogOwner, NextChange
  <2> QED BY <1>8, <2>1 DEF OnSeatChange, OnWebErrorChange, OnDialogOwner
<1>9. CASE Dispose
  <2>1. changes' \in Seq(Changes)  BY <1>9 DEF Dispose
  <2> QED BY <1>9, <2>1 DEF Dispose
<1>10. CASE UNCHANGED vars
  BY <1>10 DEF vars
<1> QED BY <1>1, <1>2, <1>3, <1>4, <1>5, <1>6, <1>7, <1>8, <1>9, <1>10, ActionsAssumption DEF Next

LEMMA InitType == Init => TypeOK
<1> SUFFICES ASSUME Init PROVE TypeOK  OBVIOUS
<1>1. SourceTypes
  <2>1. settings \in [Keys -> BOOLEAN] /\ power \in [Powers -> BOOLEAN]  BY DEF Init
  <2>2. changes \in Seq(Changes)  BY DEF Init
  <2> QED BY <2>1, <2>2 DEF Init, SourceTypes
<1>2. mirror \in [Properties -> BOOLEAN]  BY <1>1, NowType DEF Init
<1> QED BY <1>1, <1>2, TypeParts

LEMMA NextType == TypeOK /\ [Next]_vars => TypeOK'
<1> SUFFICES ASSUME TypeOK, [Next]_vars PROVE TypeOK'  OBVIOUS
<1>1. SourceTypes'  BY TypeParts, SourcesNext
<1>2. mirror' \in [Properties -> BOOLEAN]  BY <1>1, TypeParts, TellsSomething, ToldType
<1> QED BY <1>1, <1>2 DEF TypeOK, SourceTypes

\* Every variable of the actions object has its type in every behaviour.
THEOREM TypeCorrect == Spec => []TypeOK
BY InitType, NextType, PTL DEF Spec
-----------------------------------------------------------------------------
(* PropertiesMirrored. *)

Owed(p) == \E key \in unseen : p \in Heard(key)
Mirrored(p) == mirror[p] = Now[p] \/ Owed(p)

\* What a step owes the listener: it notifies what it changes, or leaves a signal
\* on its way that will, and no signal on its way is lost.
LEMMA StepMirrors ==
  ASSUME TypeOK, PropertiesMirrored, alive, NEW props, Notify(props) \/ (props = {} /\ UNCHANGED mirror),
         \A p \in Properties \ props : /\ Now'[p] = Now[p] \/ Owed(p)'
                                       /\ Owed(p) => Owed(p)'
  PROVE  PropertiesMirrored'
<1> SUFFICES ASSUME NEW p \in Properties PROVE Mirrored(p)'
  BY DEF PropertiesMirrored, Mirrored, Owed
<1>1. CASE p \in props
  BY <1>1 DEF Notify, Mirrored
<1>2. CASE p \notin props
  <2>1. mirror'[p] = mirror[p]  BY <1>2 DEF Notify
  <2>2. Mirrored(p)  BY DEF PropertiesMirrored, Mirrored, Owed
  <2> QED BY <1>2, <2>1, <2>2 DEF Mirrored
<1> QED BY <1>1, <1>2

\* A setting that is written is on its way to the properties computed from it.
LEMMA WrittenIsAwaited ==
  ASSUME TypeOK, PropertiesMirrored, NEW key \in Keys, WriteSetting(key)
  PROVE  PropertiesMirrored'
<1>1. /\ alive /\ unseen' = unseen \cup {key} /\ settings' = [settings EXCEPT ![key] = ~@]
      /\ UNCHANGED <<mirror, desktop, proxies, power, seat_allows_activation, error_status>>
      /\ Present(key)
  BY DEF WriteSetting, objectVars, serviceVars
<1>2. \A k \in Keys \ {key} : settings'[k] = settings[k]
  BY <1>1 DEF TypeOK
<1>3. ASSUME NEW p \in Properties  PROVE Now'[p] = Now[p] \/ p \in Heard(key)
  <2>1. CASE p \in Powers
    BY <1>1, <2>1, NowIs, NowWillBe DEF NowTable
  <2>2. CASE p = "can-lock" \/ p = "can-switch"
    BY <1>1, <1>2, <2>2, NowIs, NowWillBe DEF NowTable, Locked, Heard, Notified, ListenedTo, Keys, LockdownKeys
  <2>3. CASE p = "can-logout"
    BY <1>1, <1>2, <2>3, NowIs, NowWillBe
       DEF NowTable, Locked, Heard, Notified, ListenedTo, Keys, LockdownKeys, IndicatorKeys
  <2>4. CASE p = "can-reboot"
    <3>1. CASE key \in {"suppress-restart-menuitem", "suppress-shutdown-menuitem", "force-restart-menuitem"}
      BY <2>4, <3>1 DEF Heard, Notified
    <3>2. CASE key \notin {"suppress-restart-menuitem", "suppress-shutdown-menuitem", "force-restart-menuitem"}
      <4>1. UNCHANGED CanReboot
        BY <1>1, <1>2, <3>2 DEF CanReboot, Keys, IndicatorKeys
      <4> QED BY <2>4, <4>1, NowIs, NowWillBe DEF NowTable
    <3> QED BY <3>1, <3>2
  <2>5. CASE p = "can-prompt"
    BY <1>1, <1>2, <2>5, NowIs, NowWillBe DEF NowTable, Heard, Notified, Keys, IndicatorKeys
  <2>6. CASE p = "has-online-account-error"
    BY <1>1, <2>6, NowIs, NowWillBe DEF NowTable
  <2> QED BY <2>1, <2>2, <2>3, <2>4, <2>5, <2>6, PropertiesAre
<1>4. \A p : (Owed(p) => Owed(p)') /\ (p \in Heard(key) => Owed(p)')
  BY <1>1 DEF Owed, Heard, Notified, ListenedTo
<1> QED BY <1>1, <1>3, <1>4, StepMirrors

\* Its signal makes them heard; the properties have not changed meanwhile.
LEMMA SignalIsEnough ==
  ASSUME TypeOK, PropertiesMirrored, NEW key \in Keys, SettingChanged(key)
  PROVE  PropertiesMirrored'
<1>1. /\ alive /\ unseen' = unseen \ {key} /\ Notify(Heard(key)) /\ UNCHANGED desktop
      /\ UNCHANGED <<settings, proxies, power, seat_allows_activation, error_status>>
  BY DEF SettingChanged, objectVars, serviceVars
<1>2. \A p \in Properties : Now'[p] = Now[p]
  BY <1>1, NowIs, NowWillBe, PropertiesAre DEF NowTable, Locked, CanReboot
<1>3. \A p \in Properties \ Heard(key) : Owed(p) => Owed(p)'
  BY <1>1 DEF Owed, Heard, Notified, ListenedTo
<1> QED BY <1>1, <1>2, <1>3, StepMirrors

\* No other step touches the settings and their signals.
LEMMA OtherSources ==
  ASSUME TypeOK, PropertiesMirrored, alive, UNCHANGED <<settings, unseen, desktop>>,
         NEW props, Notify(props) \/ (props = {} /\ UNCHANGED mirror),
         seat_allows_activation' # seat_allows_activation => "can-switch" \in props,
         ("webcredentials" \in proxies' /\ error_status') # ("webcredentials" \in proxies /\ error_status)
           => "has-online-account-error" \in props,
         \A p \in Powers : power'[p] # power[p] => p \in props
  PROVE  PropertiesMirrored'
<1>1. ASSUME NEW p \in Properties \ props  PROVE Now'[p] = Now[p]
  <2>1. UNCHANGED <<Locked("disable-lock-screen"), Locked("disable-log-out"),
                    Locked("disable-user-switching"), CanReboot>>
    BY DEF Locked, CanReboot
  <2>2. CASE p \in {"can-lock", "can-logout", "can-reboot", "can-prompt"}
    BY <2>1, <2>2, NowIs, NowWillBe DEF NowTable
  <2>3. CASE p = "can-switch"
    BY <1>1, <2>1, <2>3, NowIs, NowWillBe DEF NowTable
  <2>4. CASE p = "has-online-account-error"
    BY <1>1, <2>4, NowIs, NowWillBe DEF NowTable
  <2>5. CASE p \in Powers
    BY <1>1, <2>5, NowIs, NowWillBe DEF NowTable
  <2> QED BY <2>2, <2>3, <2>4, <2>5, PropertiesAre
<1>2. \A p : Owed(p) => Owed(p)'
  BY DEF Owed, Heard, Notified, ListenedTo
<1> QED BY <1>1, <1>2, StepMirrors

\* A proxy arrives once: the credentials' proxy cannot replace one that has
\* reported an error, whose end it would not announce.
CreatedOnce == creating \cap proxies = {}

LEMMA NextCreatedOnce == CreatedOnce /\ [Next]_vars => CreatedOnce'
<1> SUFFICES ASSUME CreatedOnce, [Next]_vars PROVE CreatedOnce'
  OBVIOUS
<1>1. ASSUME NEW got \in SUBSET SystemProxies, SetProxies(got) PROVE CreatedOnce'
  BY <1>1 DEF SetProxies, CreatedOnce
<1>2. CASE OnWebcredentialsReady \/ OnDialogReady
  BY <1>2 DEF OnWebcredentialsReady, OnDialogReady, CreatedOnce
<1>3. CASE Dispose
  BY <1>3 DEF Dispose, CreatedOnce
<1>4. CASE UNCHANGED <<creating, proxies>>
  BY <1>4 DEF CreatedOnce
<1>5. ASSUME NEW key \in Keys, WriteSetting(key) \/ SettingChanged(key) PROVE CreatedOnce'
  BY <1>4, <1>5 DEF WriteSetting, SettingChanged, objectVars
<1>6. CASE SeatChanges \/ WebErrorChanges \/ DialogOwnerChanges \/ UNCHANGED vars
  BY <1>4, <1>6 DEF SeatChanges, WebErrorChanges, DialogOwnerChanges, vars, objectVars
<1>7. ASSUME NEW p \in Powers, OnPowerReady(p) PROVE CreatedOnce'
  BY <1>4, <1>7 DEF OnPowerReady
<1>8. CASE OnSeatChange \/ OnWebErrorChange \/ OnDialogOwner
  BY <1>4, <1>8 DEF OnSeatChange, OnWebErrorChange, OnDialogOwner
<1> QED BY <1>1, <1>2, <1>3, <1>5, <1>6, <1>7, <1>8, ActionsAssumption DEF Next

LEMMA NextMirrored ==
  TypeOK /\ CreatedOnce /\ PropertiesMirrored /\ [Next]_vars => PropertiesMirrored'
<1> SUFFICES ASSUME TypeOK, CreatedOnce, PropertiesMirrored, [Next]_vars PROVE PropertiesMirrored'
  OBVIOUS
<1>1. ASSUME NEW key \in Keys, WriteSetting(key) \/ SettingChanged(key) PROVE PropertiesMirrored'
  BY <1>1, WrittenIsAwaited, SignalIsEnough
<1>2. CASE SeatChanges \/ WebErrorChanges \/ DialogOwnerChanges
  <2>1. alive /\ UNCHANGED <<settings, unseen, desktop, objectVars, mirror>>
    BY <1>2 DEF SeatChanges, WebErrorChanges, DialogOwnerChanges, serviceVars
  <2> DEFINE props == {}
  <2> QED BY <2>1, OtherSources DEF objectVars
<1>3. ASSUME NEW got \in SUBSET SystemProxies, SetProxies(got) PROVE PropertiesMirrored'
  <2>1. "webcredentials" \in proxies' <=> "webcredentials" \in proxies
    BY <1>3 DEF SetProxies, SystemProxies
  <2> QED BY <1>3, <2>1, OtherSources DEF SetProxies
<1>4. ASSUME NEW p \in Powers, OnPowerReady(p) PROVE PropertiesMirrored'
  <2>1. \A q \in Powers \ {p} : power'[q] = power[q]
    BY <1>4 DEF OnPowerReady, TypeOK
  <2>2. PICK props : Notify(props) /\ (power' # power => p \in props)
    BY <1>4 DEF OnPowerReady
  <2>3. \A q \in Powers : power'[q] # power[q] => q \in props
    BY <2>1, <2>2
  <2> QED BY <1>4, <2>2, <2>3, OtherSources DEF OnPowerReady
<1>5. CASE OnWebcredentialsReady
  <2>1. /\ alive
        /\ UNCHANGED <<settings, unseen, desktop, seat_allows_activation, power>>
    BY <1>5 DEF OnWebcredentialsReady, serviceVars
  <2>2. CASE proxies' = proxies \cup {"webcredentials"} /\ error_status' = web_error
             /\ Notify(IF web_error THEN {"has-online-account-error"} ELSE {})
    <3>1. CASE web_error
      BY <2>1, <2>2, <3>1, OtherSources
    <3>2. CASE ~web_error
      <4>1. "webcredentials" \notin proxies
        BY <1>5 DEF OnWebcredentialsReady, CreatedOnce
      <4> QED BY <2>1, <2>2, <3>2, <4>1, OtherSources
    <3> QED BY <3>1, <3>2
  <2>3. CASE UNCHANGED <<proxies, error_status, mirror>>
    BY <2>1, <2>3, OtherSources
  <2> QED BY <1>5, <2>2, <2>3 DEF OnWebcredentialsReady
<1>6. CASE OnDialogReady
  <2>1. "webcredentials" \in proxies' <=> "webcredentials" \in proxies
    BY <1>6 DEF OnDialogReady
  <2> QED BY <1>6, <2>1, OtherSources DEF OnDialogReady, serviceVars
<1>7. CASE OnSeatChange
  BY <1>7, OtherSources DEF OnSeatChange, NextChange, serviceVars
<1>8. CASE OnWebErrorChange
  BY <1>8, OtherSources DEF OnWebErrorChange, NextChange, serviceVars
<1>9. CASE OnDialogOwner
  BY <1>9, OtherSources DEF OnDialogOwner, NextChange, serviceVars
<1>10. CASE Dispose
  BY <1>10 DEF Dispose, PropertiesMirrored
<1>11. CASE UNCHANGED vars
  BY <1>11, OtherSources DEF vars, objectVars, serviceVars, PropertiesMirrored
<1> QED BY <1>1, <1>2, <1>3, <1>4, <1>5, <1>6, <1>7, <1>8, <1>9, <1>10, <1>11, ActionsAssumption
        DEF Next

\* A listener that keeps what it read of the eight properties at the object's
\* notifies, and that watches "suppress-logout-menuitem" itself as the menu service
\* does, is up to date or will be told: for any set of settings, any desktop and
\* any order of settings, proxies, replies and property changes.
THEOREM EveryChangeIsHeard == Spec => []PropertiesMirrored
<1>1. Init => CreatedOnce /\ PropertiesMirrored
  BY DEF Init, CreatedOnce, PropertiesMirrored
<1> QED BY <1>1, InitType, NextType, NextCreatedOnce, NextMirrored, PTL DEF Spec
-----------------------------------------------------------------------------
(* ServicesReflected. *)

\* The object knows the value of one service, or its latest change is queued.
Unmentioned(queue, of) == \A i \in 1..Len(queue) : queue[i].of # of
Tracked(queue, of, known, value) ==
  \/ Unmentioned(queue, of) /\ known = value
  \/ \E i \in 1..Len(queue) : /\ queue[i].of = of /\ queue[i].value = value
                              /\ \A j \in (i + 1)..Len(queue) : queue[j].of # of

ErrorIsComing ==
  IF "webcredentials" \in proxies THEN Tracked(changes, "webcredentials", error_status, web_error)
  ELSE Unmentioned(changes, "webcredentials")
SeatIsComing ==
  IF seat_told THEN /\ "seat" \in proxies
                    /\ Tracked(changes, "seat", seat_allows_activation, can_multi_session)
  ELSE Unmentioned(changes, "seat") /\ seat_allows_activation = TRUE
PowerIsKnown ==
  "login1" \in proxies =>
    /\ SystemProxies \cap creating = {}
    /\ \A p \in Powers \ (asked \cup unanswered) : power[p] = (answer[p] = "yes")
Reflected == alive => ErrorIsComing /\ PowerIsKnown
SeatReflected == alive => SeatIsComing

LEMMA AppendTracks ==
  ASSUME NEW queue \in Seq(Changes), NEW change \in Changes, NEW of, NEW known, NEW value
  PROVE  /\ change.of # of /\ Unmentioned(queue, of) => Unmentioned(Append(queue, change), of)
         /\ change.of # of /\ Tracked(queue, of, known, value)
              => Tracked(Append(queue, change), of, known, value)
         /\ change.of = of /\ change.value = value
              => Tracked(Append(queue, change), of, known, value)
<1> DEFINE q == Append(queue, change)
<1>1. /\ Len(queue) \in Nat /\ Len(q) = Len(queue) + 1 /\ q[Len(q)] = change
      /\ \A i \in 1..Len(queue) : q[i] = queue[i]
  OBVIOUS
<1> HIDE DEF q
<1>2. change.of # of /\ Unmentioned(queue, of) => Unmentioned(q, of)
  BY <1>1 DEF Unmentioned
<1>3. ASSUME change.of # of, Tracked(queue, of, known, value)
      PROVE  Tracked(q, of, known, value)
  <2>1. CASE Unmentioned(queue, of) /\ known = value
    BY <1>2, <1>3, <2>1 DEF Tracked
  <2>2. CASE ~(Unmentioned(queue, of) /\ known = value)
    <3>1. PICK i \in 1..Len(queue) :
            /\ queue[i].of = of /\ queue[i].value = value
            /\ \A j \in (i + 1)..Len(queue) : queue[j].of # of
      BY <1>3, <2>2 DEF Tracked
    <3>2. i \in 1..Len(q) /\ q[i].of = of /\ q[i].value = value
      BY <1>1, <3>1
    <3>3. \A j \in (i + 1)..Len(q) : q[j].of # of
      BY <1>1, <1>3, <3>1
    <3> QED BY <3>2, <3>3 DEF Tracked
  <2> QED BY <2>1, <2>2
<1>4. ASSUME change.of = of, change.value = value
      PROVE  Tracked(q, of, known, value)
  <2>1. Len(q) \in 1..Len(q) /\ (Len(q) + 1)..Len(q) = {}
    BY <1>1
  <2> QED BY <1>1, <1>4, <2>1 DEF Tracked
<1> QED BY <1>2, <1>3, <1>4 DEF q

LEMMA TailTracks ==
  ASSUME NEW queue \in Seq(Changes), queue # << >>, NEW of, NEW known, NEW value
  PROVE  /\ Unmentioned(queue, of) => Unmentioned(Tail(queue), of)
         /\ Head(queue).of # of /\ Tracked(queue, of, known, value)
              => Tracked(Tail(queue), of, known, value)
         /\ Head(queue).of = of /\ Tracked(queue, of, known, value)
              => Tracked(Tail(queue), of, Head(queue).value, value)
<1> DEFINE q == Tail(queue)
<1>1. /\ Len(queue) \in Nat \ {0} /\ Len(q) = Len(queue) - 1 /\ Head(queue) = queue[1]
      /\ \A i \in 1..Len(q) : q[i] = queue[i + 1]
  OBVIOUS
<1> HIDE DEF q
<1>2. Unmentioned(queue, of) => Unmentioned(q, of)
  BY <1>1 DEF Unmentioned
<1>3. ASSUME NEW i \in 2..Len(queue), queue[i].of = of, queue[i].value = value,
             \A j \in (i + 1)..Len(queue) : queue[j].of # of, NEW any
      PROVE  Tracked(q, of, any, value)
  <2>1. i - 1 \in 1..Len(q) /\ q[i - 1] = queue[i]
    BY <1>1
  <2>2. \A j \in ((i - 1) + 1)..Len(q) : q[j].of # of
    BY <1>1, <1>3
  <2> QED BY <1>3, <2>1, <2>2 DEF Tracked
<1>4. ASSUME Head(queue).of # of, Tracked(queue, of, known, value)
      PROVE  Tracked(q, of, known, value)
  <2>1. CASE Unmentioned(queue, of) /\ known = value
    BY <1>2, <2>1 DEF Tracked
  <2>2. CASE ~(Unmentioned(queue, of) /\ known = value)
    <3>1. PICK i \in 1..Len(queue) :
            /\ queue[i].of = of /\ queue[i].value = value
            /\ \A j \in (i + 1)..Len(queue) : queue[j].of # of
      BY <1>4, <2>2 DEF Tracked
    <3>2. i \in 2..Len(queue)  BY <1>1, <1>4, <3>1
    <3> QED BY <1>3, <3>1, <3>2
  <2> QED BY <2>1, <2>2
<1>5. ASSUME Head(queue).of = of, Tracked(queue, of, known, value)
      PROVE  Tracked(q, of, Head(queue).value, value)
  <2>1. ~Unmentioned(queue, of)  BY <1>1, <1>5 DEF Unmentioned
  <2>2. PICK i \in 1..Len(queue) :
          /\ queue[i].of = of /\ queue[i].value = value
          /\ \A j \in (i + 1)..Len(queue) : queue[j].of # of
    BY <1>5, <2>1 DEF Tracked
  <2>3. CASE i = 1
    <3>1. Unmentioned(q, of) /\ Head(queue).value = value
      BY <1>1, <2>2, <2>3 DEF Unmentioned
    <3> QED BY <3>1 DEF Tracked
  <2>4. CASE i # 1
    <3>1. i \in 2..Len(queue)  BY <1>1, <2>4
    <3> QED BY <1>3, <2>2, <3>1
  <2> QED BY <2>3, <2>4
<1> QED BY <1>2, <1>4, <1>5 DEF q

\* Other changes of the queue, and none, leave the error status tracked.
LEMMA ErrorStaysTracked ==
  ASSUME TypeOK, ErrorIsComing, UNCHANGED <<web_error, error_status>>,
         "webcredentials" \in proxies' <=> "webcredentials" \in proxies,
         \/ UNCHANGED changes
         \/ \E change \in Changes : /\ change.of # "webcredentials"
                                    /\ changes' = Append(changes, change)
         \/ /\ changes # << >> /\ Head(changes).of # "webcredentials"
            /\ changes' = Tail(changes)
  PROVE  ErrorIsComing'
<1>1. changes \in Seq(Changes)  BY DEF TypeOK
<1>2. CASE UNCHANGED changes
  BY <1>2 DEF ErrorIsComing, Tracked, Unmentioned
<1>3. ASSUME NEW change \in Changes, change.of # "webcredentials", changes' = Append(changes, change)
      PROVE  ErrorIsComing'
  BY <1>1, <1>3, AppendTracks DEF ErrorIsComing
<1>4. ASSUME changes # << >>, Head(changes).of # "webcredentials", changes' = Tail(changes)
      PROVE  ErrorIsComing'
  BY <1>1, <1>4, TailTracks DEF ErrorIsComing
<1> QED BY <1>2, <1>3, <1>4

LEMMA PowerStaysKnown ==
  ASSUME PowerIsKnown, UNCHANGED <<power, answer, asked, unanswered>>,
         creating' \subseteq creating, "login1" \in proxies' <=> "login1" \in proxies
  PROVE  PowerIsKnown'
BY DEF PowerIsKnown, SystemProxies

\* Nothing brings a disposed object back.
LEMMA StaysAlive == [Next]_vars /\ alive' => alive
BY DEF Next, vars, objectVars, WriteSetting, SettingChanged, SeatChanges, WebErrorChanges,
       DialogOwnerChanges, SetProxies, OnPowerReady, OnWebcredentialsReady, OnDialogReady,
       OnSeatChange, OnWebErrorChange, OnDialogOwner, NextChange, Dispose

LEMMA NextReflected == TypeOK /\ CreatedOnce /\ Reflected /\ [Next]_vars => Reflected'
<1> SUFFICES ASSUME TypeOK, CreatedOnce, [Next]_vars, alive, ErrorIsComing, PowerIsKnown, alive'
             PROVE  ErrorIsComing' /\ PowerIsKnown'
  BY StaysAlive DEF Reflected
<1> USE DEF objectVars, serviceVars
<1>1. ASSUME NEW key \in Keys, WriteSetting(key) \/ SettingChanged(key)
      PROVE  ErrorIsComing' /\ PowerIsKnown'
  BY <1>1, ErrorStaysTracked, PowerStaysKnown DEF WriteSetting, SettingChanged
<1>2. CASE SeatChanges \/ DialogOwnerChanges
  <2>1. UNCHANGED changes \/ \E change \in Changes : /\ change.of # "webcredentials"
                                                    /\ changes' = Append(changes, change)
    BY <1>2 DEF SeatChanges, DialogOwnerChanges, Tell, Changes, TypeOK
  <2> QED BY <1>2, <2>1, ErrorStaysTracked, PowerStaysKnown DEF SeatChanges, DialogOwnerChanges
<1>3. CASE WebErrorChanges
  <2>1. PowerIsKnown'
    BY <1>3, PowerStaysKnown DEF WebErrorChanges
  <2>2. CASE "webcredentials" \in proxies
    <3> DEFINE change == [of |-> "webcredentials", value |-> web_error']
    <3>1. change \in Changes /\ changes' = Append(changes, change) /\ "webcredentials" \in proxies'
      BY <1>3, <2>2 DEF WebErrorChanges, Tell, Changes, TypeOK
    <3>2. Tracked(changes', "webcredentials", error_status', web_error')
      BY <3>1, AppendTracks DEF TypeOK
    <3> QED BY <2>1, <3>1, <3>2 DEF ErrorIsComing
  <2>3. CASE "webcredentials" \notin proxies
    BY <1>3, <2>1, <2>3 DEF WebErrorChanges, Tell, ErrorIsComing, Unmentioned
  <2> QED BY <2>2, <2>3
<1>4. ASSUME NEW got \in SUBSET SystemProxies, SetProxies(got)
      PROVE  ErrorIsComing' /\ PowerIsKnown'
  <2>1. ErrorIsComing'
    BY <1>4, ErrorStaysTracked DEF SetProxies, SystemProxies
  <2>2. "login1" \notin proxies
    BY <1>4 DEF SetProxies, PowerIsKnown
  <2>3. PowerIsKnown'
    BY <1>4, <2>2 DEF SetProxies, PowerIsKnown
  <2> QED BY <2>1, <2>3
<1>5. ASSUME NEW p \in Powers, OnPowerReady(p)  PROVE ErrorIsComing' /\ PowerIsKnown'
  <2>1. ErrorIsComing'
    BY <1>5, ErrorStaysTracked DEF OnPowerReady
  <2>2. /\ UNCHANGED <<answer, creating, proxies>> /\ asked' = asked \ {p}
        /\ \/ power' = [power EXCEPT ![p] = (answer[p] = "yes")] /\ UNCHANGED unanswered
           \/ UNCHANGED power /\ unanswered' = unanswered \cup {p}
    BY <1>5 DEF OnPowerReady
  <2>3. PowerIsKnown'
    BY <2>2 DEF PowerIsKnown, TypeOK
  <2> QED BY <2>1, <2>3
<1>6. CASE OnWebcredentialsReady
  <2>1. PowerIsKnown'
    BY <1>6, PowerStaysKnown DEF OnWebcredentialsReady
  <2>2. "webcredentials" \notin proxies /\ UNCHANGED <<changes, web_error>>
    BY <1>6 DEF OnWebcredentialsReady, CreatedOnce
  <2>3. ErrorIsComing'
    BY <1>6, <2>2 DEF OnWebcredentialsReady, ErrorIsComing, Tracked, Unmentioned
  <2> QED BY <2>1, <2>3
<1>7. CASE OnDialogReady
  BY <1>7, ErrorStaysTracked, PowerStaysKnown DEF OnDialogReady
<1>8. CASE OnSeatChange \/ OnDialogOwner
  BY <1>8, ErrorStaysTracked, PowerStaysKnown DEF OnSeatChange, OnDialogOwner, NextChange
<1>9. CASE OnWebErrorChange
  <2>1. PowerIsKnown'
    BY <1>9, PowerStaysKnown DEF OnWebErrorChange
  <2>2. /\ changes \in Seq(Changes) /\ changes # << >> /\ Head(changes).of = "webcredentials"
        /\ changes' = Tail(changes) /\ error_status' = Head(changes).value
        /\ UNCHANGED <<proxies, web_error>>
    BY <1>9 DEF OnWebErrorChange, NextChange, TypeOK
  <2>3. ErrorIsComing'
    BY <2>2, TailTracks DEF ErrorIsComing
  <2> QED BY <2>1, <2>3
<1>10. CASE UNCHANGED vars
  BY <1>10, ErrorStaysTracked, PowerStaysKnown DEF vars
<1> QED BY <1>1, <1>2, <1>3, <1>4, <1>5, <1>6, <1>7, <1>8, <1>9, <1>10, ActionsAssumption
        DEF Next, Dispose

\* Likewise for the seat.
LEMMA SeatStaysTracked ==
  ASSUME TypeOK, SeatIsComing, UNCHANGED <<can_multi_session, seat_allows_activation, seat_told>>,
         proxies \subseteq proxies',
         \/ UNCHANGED changes
         \/ \E change \in Changes : change.of # "seat" /\ changes' = Append(changes, change)
         \/ changes # << >> /\ Head(changes).of # "seat" /\ changes' = Tail(changes)
  PROVE  SeatIsComing'
<1>1. changes \in Seq(Changes)  BY DEF TypeOK
<1>2. CASE UNCHANGED changes
  BY <1>2 DEF SeatIsComing, Tracked, Unmentioned
<1>3. ASSUME NEW change \in Changes, change.of # "seat", changes' = Append(changes, change)
      PROVE  SeatIsComing'
  BY <1>1, <1>3, AppendTracks DEF SeatIsComing
<1>4. ASSUME changes # << >>, Head(changes).of # "seat", changes' = Tail(changes)
      PROVE  SeatIsComing'
  BY <1>1, <1>4, TailTracks DEF SeatIsComing
<1> QED BY <1>2, <1>3, <1>4

LEMMA NextSeatReflected == TypeOK /\ SeatReflected /\ [Next]_vars => SeatReflected'
<1> SUFFICES ASSUME TypeOK, [Next]_vars, alive, SeatIsComing, alive'  PROVE SeatIsComing'
  BY StaysAlive DEF SeatReflected
<1> USE DEF objectVars, serviceVars
<1>1. ASSUME NEW key \in Keys, WriteSetting(key) \/ SettingChanged(key)  PROVE SeatIsComing'
  BY <1>1, SeatStaysTracked DEF WriteSetting, SettingChanged
<1>2. CASE SeatChanges
  <2>1. CASE "seat" \in proxies
    <3> DEFINE change == [of |-> "seat", value |-> can_multi_session']
    <3>1. change \in Changes /\ changes' = Append(changes, change)
      BY <1>2, <2>1 DEF SeatChanges, Tell, Changes, TypeOK
    <3>2. Tracked(changes', "seat", seat_allows_activation', can_multi_session')
      BY <3>1, AppendTracks DEF TypeOK
    <3>3. "seat" \in proxies' /\ seat_told'
      BY <1>2, <2>1 DEF SeatChanges
    <3> QED BY <3>2, <3>3 DEF SeatIsComing
  <2>2. CASE "seat" \notin proxies
    BY <1>2, <2>2 DEF SeatChanges, Tell, SeatIsComing, Unmentioned
  <2> QED BY <2>1, <2>2
<1>3. CASE WebErrorChanges \/ DialogOwnerChanges
  <2>1. UNCHANGED changes \/ \E change \in Changes : /\ change.of # "seat"
                                                    /\ changes' = Append(changes, change)
    BY <1>3 DEF WebErrorChanges, DialogOwnerChanges, Tell, Changes, TypeOK
  <2> QED BY <1>3, <2>1, SeatStaysTracked DEF WebErrorChanges, DialogOwnerChanges
<1>4. ASSUME NEW got \in SUBSET SystemProxies, SetProxies(got)  PROVE SeatIsComing'
  BY <1>4, SeatStaysTracked DEF SetProxies
<1>5. ASSUME NEW p \in Powers, OnPowerReady(p)  PROVE SeatIsComing'
  BY <1>5, SeatStaysTracked DEF OnPowerReady
<1>6. CASE OnWebcredentialsReady \/ OnDialogReady
  BY <1>6, SeatStaysTracked DEF OnWebcredentialsReady, OnDialogReady
<1>7. CASE OnWebErrorChange \/ OnDialogOwner
  BY <1>7, SeatStaysTracked DEF OnWebErrorChange, OnDialogOwner, NextChange
<1>8. CASE OnSeatChange
  <2>1. /\ changes \in Seq(Changes) /\ changes # << >> /\ Head(changes).of = "seat"
        /\ changes' = Tail(changes) /\ seat_allows_activation' = Head(changes).value
        /\ UNCHANGED <<proxies, can_multi_session, seat_told>>
    BY <1>8 DEF OnSeatChange, NextChange, TypeOK
  <2>2. seat_told
    BY <2>1 DEF SeatIsComing, Unmentioned
  <2> QED BY <2>1, <2>2, TailTracks DEF SeatIsComing
<1>9. CASE UNCHANGED vars
  BY <1>9, SeatStaysTracked DEF vars
<1> QED BY <1>1, <1>2, <1>3, <1>4, <1>5, <1>6, <1>7, <1>8, <1>9, ActionsAssumption
        DEF Next, Dispose

LEMMA InitReflected == Init => CreatedOnce /\ Reflected /\ SeatReflected
BY DEF Init, CreatedOnce, Reflected, ErrorIsComing, PowerIsKnown, SeatReflected, SeatIsComing,
       Unmentioned, SessionProxies, SystemProxies

LEMMA EmptyQueueTells == TypeOK /\ Reflected /\ SeatReflected => ServicesReflected
BY DEF TypeOK, Reflected, ErrorIsComing, PowerIsKnown, SeatReflected, SeatIsComing, Tracked,
       Unmentioned, ServicesReflected

\* When the services' messages are handled the cached flags are what the services
\* say, for any length of the queue and any order of changes, replies and new
\* proxies: the latest change of error-status or of the seat is never overtaken by
\* an older one.
THEOREM FlagsFollow == Spec => []ServicesReflected
BY InitType, InitReflected, NextType, NextCreatedOnce, NextReflected, NextSeatReflected,
   EmptyQueueTells, PTL DEF Spec
=============================================================================
