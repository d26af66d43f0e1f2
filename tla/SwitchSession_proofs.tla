------------------------ MODULE SwitchSession_proofs ------------------------
(***************************************************************************)
(* Theorems about SwitchSession, for any number of clicks: its types, and  *)
(* that a session left for another one is locked.                          *)
(*                                                                         *)
(* AwayIsLocked is not inductive: the switch call that puts another        *)
(* session in front was sent long before.  What is kept from the click on  *)
(* is that as long as such a call is on its way the session is locked, a   *)
(* lock is on its way, or one was asked for in vain.                       *)
(***************************************************************************)
EXTENDS SwitchSession, TLAPS

Covered == locked \/ in_vain \/ \E l \in Lockers : locking[l] > 0

\* The strengthening: a switch that happened or may still happen is covered.
IInv == switching # <<>> \/ away => Covered

\* No locker has more requests coming than there were clicks.
Types == SwitchTypeOK /\ \A l \in Lockers : locking[l] <= clicks

\* A lock request only adds to what is on its way, or is remembered as in vain.
LEMMA LockCovers ==
  ASSUME Types, LockCurrentSession
  PROVE  /\ locking' \in [Lockers -> Nat] /\ in_vain' \in BOOLEAN
         /\ \A l \in Lockers : locking'[l] <= clicks + 1
         /\ in_vain' \/ \E l \in Lockers : locking'[l] > 0
<1> USE ClicksAssumption
<1>0. locking \in [Lockers -> Nat] /\ in_vain \in BOOLEAN /\ clicks \in Nat
  BY DEF Types, SwitchTypeOK
<1>1. locking' \in [Lockers -> Nat] /\ \A l \in Lockers : locking'[l] <= clicks + 1
  BY <1>0 DEF Types, LockCurrentSession
<1>2. in_vain' \in BOOLEAN
  BY Zenon DEF LockCurrentSession
<1>3. CASE Chosen = {}
  BY <1>1, <1>2, <1>3, Zenon DEF LockCurrentSession
<1>4. CASE Chosen # {}
  <2>1. PICK l \in Lockers : l \in Chosen
    BY <1>4 DEF Chosen, Lockers, SessionProxies
  <2>2. locking'[l] > 0
    BY <1>0, <2>1 DEF LockCurrentSession
  <2> QED
    BY <1>1, <1>2, <2>2
<1> QED
  BY <1>3, <1>4

LEMMA InitTypes == SwitchInit => Types
<1> SUFFICES ASSUME SwitchInit PROVE Types
  OBVIOUS
<1> USE ClicksAssumption DEF SwitchInit
<1>1. locking \in [Lockers -> 0..MaxClicks] /\ clicks \in 0..MaxClicks
      /\ \A l \in Lockers : locking[l] <= clicks
  OBVIOUS
<1>2. switching \in Seq(Targets)
  OBVIOUS
<1>3. lock_program \in BOOLEAN /\ shell_owned \in BOOLEAN
      /\ locked \in BOOLEAN /\ away \in BOOLEAN /\ in_vain \in BOOLEAN
  BY Zenon
<1>4. session_asked \subseteq SessionProxies /\ session_proxies \subseteq SessionProxies
  OBVIOUS
<1> QED
  BY <1>1, <1>2, <1>3, <1>4 DEF Types, SwitchTypeOK

LEMMA InitCovered == SwitchInit => IInv
BY DEF SwitchInit, IInv

LEMMA NextTypes == Types /\ [SwitchNext]_allVars => Types'
<1> SUFFICES ASSUME Types, [SwitchNext]_allVars PROVE Types'
  OBVIOUS
<1> USE ClicksAssumption DEF Types, SwitchTypeOK, callVars, screenVars, sessionVars
<1>1. CASE AnyReady /\ UNCHANGED sessionVars
  BY <1>1
<1>2. ASSUME NEW p \in SessionProxies, OnSessionProxyReady(p) PROVE Types'
  BY <1>2 DEF OnSessionProxyReady
<1>3. CASE SwitchToScreensaver
  BY <1>3, LockCovers DEF SwitchToScreensaver, Click
<1>4. ASSUME NEW target \in Targets, SwitchTo(target) PROVE Types'
  <2>1. CASE HasDmSeat
    <3>1. switching' \in Seq(Targets)
      BY <1>4, <2>1 DEF SwitchTo
    <3> QED
      BY <1>4, <2>1, <3>1, LockCovers DEF SwitchTo, Click
  <2>2. CASE ~HasDmSeat
    BY <1>4, <2>2 DEF SwitchTo, Click
  <2> QED
    BY <2>1, <2>2
<1>5. CASE DisposeAll
  BY <1>5 DEF DisposeAll
<1>6. ASSUME NEW l \in Lockers, HandleLock(l) PROVE Types'
  <2>1. locking' \in [Lockers -> 0..MaxClicks] /\ \A k \in Lockers : locking'[k] <= clicks
    BY <1>6 DEF HandleLock
  <2>2. locked' \in BOOLEAN /\ in_vain' \in BOOLEAN
    BY <1>6 DEF HandleLock
  <2> QED
    BY <1>6, <2>1, <2>2 DEF HandleLock
<1>7. CASE HandleSwitch
  <2>1. switching' \in Seq(Targets)
    BY <1>7 DEF HandleSwitch
  <2>2. away' \in BOOLEAN
    BY <1>7 DEF HandleSwitch
  <2> QED
    BY <1>7, <2>1, <2>2 DEF HandleSwitch
<1>8. CASE ComeBack \/ Unlock \/ ShellComesOrGoes
  BY <1>8 DEF ComeBack, Unlock, ShellComesOrGoes
<1>9. CASE UNCHANGED allVars
  BY <1>9 DEF allVars
<1> QED
  BY <1>1, <1>2, <1>3, <1>4, <1>5, <1>6, <1>7, <1>8, <1>9 DEF SwitchNext

LEMMA NextCovered == Unhurried /\ Types /\ IInv /\ [SwitchNext]_allVars => IInv'
<1> SUFFICES ASSUME Unhurried, Types, IInv, [SwitchNext]_allVars, (switching # <<>> \/ away)'
             PROVE Covered'
  BY DEF IInv
<1> USE DEF IInv, Covered, callVars, screenVars, sessionVars
<1>1. CASE AnyReady /\ UNCHANGED sessionVars
  BY <1>1
<1>2. ASSUME NEW p \in SessionProxies, OnSessionProxyReady(p) PROVE Covered'
  BY <1>2 DEF OnSessionProxyReady
<1>3. CASE SwitchToScreensaver
  BY <1>3, LockCovers DEF SwitchToScreensaver
<1>4. ASSUME NEW target \in Targets, SwitchTo(target) PROVE Covered'
  <2>1. CASE HasDmSeat
    BY <1>4, <2>1, LockCovers DEF SwitchTo
  <2>2. CASE ~HasDmSeat
    BY <1>4, <2>2 DEF SwitchTo, Click
  <2> QED
    BY <2>1, <2>2
<1>5. CASE DisposeAll
  BY <1>5 DEF DisposeAll
<1>6. ASSUME NEW l \in Lockers, HandleLock(l) PROVE Covered'
  BY <1>6 DEF HandleLock
<1>7. CASE HandleSwitch
  BY <1>7 DEF HandleSwitch
<1>8. CASE ComeBack \/ Unlock \/ ShellComesOrGoes
  \* nobody unlocks a session that is not in front or is about to be left
  <2>1. CASE Unlock
    BY <1>8, <2>1 DEF Unlock
  <2>2. CASE ComeBack \/ ShellComesOrGoes
    BY <1>8, <2>2 DEF ComeBack, ShellComesOrGoes
  <2> QED
    BY <1>8, <2>1, <2>2
<1>9. CASE UNCHANGED allVars
  BY <1>9 DEF allVars
<1> QED
  BY <1>1, <1>2, <1>3, <1>4, <1>5, <1>6, <1>7, <1>8, <1>9 DEF SwitchNext

\* The types hold for any number of clicks: no locker ever has more requests on
\* its way than there were clicks, and no request is taken twice.
THEOREM SwitchTypesHold == SwitchSpec => []SwitchTypeOK
<1>1. Types => SwitchTypeOK
  BY DEF Types
<1> QED
  BY <1>1, InitTypes, NextTypes, PTL DEF SwitchSpec

\* If nobody unlocks the screen while their own request is on its way, a session
\* that the indicator left for another one is locked, or its lock is on its way,
\* or was asked for in vain: for any number of clicks, with and without a display
\* manager, whatever lockers there are and however the calls overtake each other.
THEOREM LeftIsLocked == ASSUME Unhurried PROVE SwitchSpec => []AwayIsLocked
<1>1. Types /\ IInv => AwayIsLocked
  BY DEF IInv, Covered, AwayIsLocked
<1>2. Types /\ IInv /\ [SwitchNext]_allVars => (Types /\ IInv)'
  BY NextTypes, NextCovered
<1>3. SwitchInit => Types /\ IInv
  BY InitTypes, InitCovered
<1> QED
  BY <1>1, <1>2, <1>3, PTL DEF SwitchSpec
=============================================================================
