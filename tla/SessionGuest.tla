---------------------------- MODULE SessionGuest ----------------------------
(***************************************************************************)
(* The guest account as the D-Bus guest object sees it                     *)
(* (src/src/backend-dbus/guest.c): whether the display manager allows it,  *)
(* whether a guest is logged in and whether our session is the guest's.    *)
(* The last two come from logind's ListSessions, asked again after each    *)
(* session-new, session-removed and change of the seat's active session.   *)
(***************************************************************************)
EXTENDS Naturals, Sequences, FiniteSets

CONSTANTS
  Sessions,        \* logind session ids, all on our seat
  GuestSessions,   \* those of a user "guest-..." with a uid below 1000
  FirstSession,    \* XDG_SESSION_ID when the program starts
  CurrentMoves,    \* TRUE: XDG_SESSION_ID follows the active session, as in the tests
  MaxMsgs          \* bound: messages and calls on their way

ASSUME SessionsAssumption ==
  /\ IsFiniteSet(Sessions) /\ GuestSessions \subseteq Sessions /\ FirstSession \in Sessions
ASSUME SwitchesAssumption ==
  /\ CurrentMoves \in BOOLEAN /\ MaxMsgs \in Nat

VARIABLES
  life,               \* "init", "running", "disposed"
  proxies,            \* which of the proxies are there
  guest_is_active, guest_is_logged_in, guest_is_allowed,
  \* ---- logind
  listed,             \* what ListSessions returns
  ghosts,             \* those of them that are gone
  current,            \* XDG_SESSION_ID
  asked,              \* ListSessions calls not answered yet
  msgs,               \* logind's messages on their way to us
  \* ---- the display manager
  has_guest_account,
  dmmsgs,             \* its property changes on their way to us
  misled,             \* history: a call failed, or a dead session may have been listed
  \* ---- a listener
  mirror              \* the three flags as last read at a notify

flags == <<guest_is_active, guest_is_logged_in, guest_is_allowed>>
login1Vars == <<listed, ghosts, current, asked, msgs>>
dmVars == <<has_guest_account, dmmsgs>>
vars == <<life, proxies, flags, login1Vars, dmVars, misled, mirror>>

AllProxies == {"login1", "seat", "dm"}
Flags == {"active", "logged-in", "allowed"}
Running == life = "running"

-----------------------------------------------------------------------------
(* logind (external). *)

Room == Len(msgs) + asked < MaxMsgs
Signal(proxy) == msgs' = IF proxy \in proxies THEN Append(msgs, [type |-> "signal"]) ELSE msgs

SessionNew(s) ==
  /\ s \notin listed /\ Room
  /\ listed' = listed \cup {s}
  /\ Signal("login1")
  /\ UNCHANGED <<life, proxies, flags, ghosts, current, asked, dmVars, misled, mirror>>

SessionRemoved(s) ==
  /\ s \in listed \ ghosts /\ Room
  /\ \/ listed' = listed \ {s} /\ UNCHANGED <<ghosts, misled>>
     \/ ghosts' = ghosts \cup {s} /\ misled' = TRUE /\ UNCHANGED listed
  /\ Signal("login1")
  /\ UNCHANGED <<life, proxies, flags, current, asked, dmVars, mirror>>

GhostGone(s) ==
  /\ s \in ghosts
  /\ listed' = listed \ {s} /\ ghosts' = ghosts \ {s}
  /\ UNCHANGED <<life, proxies, flags, current, asked, msgs, dmVars, misled, mirror>>

ActiveSession(s) ==
  /\ s \in listed /\ Room
  /\ current' = IF CurrentMoves THEN s ELSE current
  /\ Signal("seat")
  /\ UNCHANGED <<life, proxies, flags, listed, ghosts, asked, dmVars, misled, mirror>>

AnswerSessions ==
  /\ asked > 0
  /\ asked' = asked - 1
  /\ \/ msgs' = Append(msgs, [type |-> "sessions", ids |-> listed]) /\ UNCHANGED misled
     \/ msgs' = Append(msgs, [type |-> "error"]) /\ misled' = TRUE
  /\ UNCHANGED <<life, proxies, flags, listed, ghosts, current, dmVars, mirror>>

\* The display manager (external) allows guests or not.
GuestAccountChanges ==
  /\ Len(dmmsgs) < MaxMsgs
  /\ has_guest_account' = ~has_guest_account
  /\ dmmsgs' = IF "dm" \in proxies THEN Append(dmmsgs, has_guest_account') ELSE dmmsgs
  /\ UNCHANGED <<life, proxies, flags, login1Vars, misled, mirror>>

-----------------------------------------------------------------------------
(* The object. *)

NextMsg(type) == Running /\ msgs # << >> /\ Head(msgs).type = type
Ask(n) == asked' = asked + IF "login1" \in proxies THEN n ELSE 0

\* Mistaken listener: it keeps nothing but the flag it just read.
SetFlagForgets(heard, flag, old, new) == IF old = new THEN heard ELSE [f \in {flag} |-> new]

\* set_guest_is_..._flag: the flags are set one after the other, each with a
\* notify if it changes, at which a listener reads that flag.
SetFlag(heard, flag, old, new) == IF old = new THEN heard ELSE [heard EXCEPT ![flag] = new]

\* Mistaken update_session_list: a guest who is logged in is not asked after.
OnSignalWhileOut ==
  /\ NextMsg("signal")
  /\ Ask(IF guest_is_logged_in THEN 0 ELSE 1)
  /\ msgs' = Tail(msgs)
  /\ UNCHANGED <<life, proxies, flags, listed, ghosts, current, dmVars, misled, mirror>>

\* update_session_list, on each signal of logind and its seat
OnSignal ==
  /\ NextMsg("signal")
  /\ Ask(1)
  /\ msgs' = Tail(msgs)
  /\ UNCHANGED <<life, proxies, flags, listed, ghosts, current, dmVars, misled, mirror>>

\* on_login1_manager_session_list_ready.  Each guest session of the reply sets
\* is_active anew, so the last one in the reply decides; the reply has no order.
ActiveAfter(guests) ==
  IF guests = {} THEN {FALSE} ELSE {last = current : last \in guests}

\* Mistaken set_guest_is_logged_in_flag: an unchanged flag ends the whole update's
\* notifications.
OnSessionListReadyStopsEarly ==
  /\ NextMsg("sessions")
  /\ LET guests == Head(msgs).ids \cap GuestSessions
     IN /\ guest_is_logged_in' = (guests # {})
        /\ guest_is_active' \in ActiveAfter(guests)
  /\ mirror' = IF guest_is_logged_in' = guest_is_logged_in THEN mirror
               ELSE [mirror EXCEPT !["logged-in"] = guest_is_logged_in',
                                   !["active"] = guest_is_active']
  /\ msgs' = Tail(msgs)
  /\ UNCHANGED <<life, proxies, guest_is_allowed, listed, ghosts, current, asked, dmVars, misled>>

OnSessionListReady ==
  /\ NextMsg("sessions")
  /\ LET guests == Head(msgs).ids \cap GuestSessions
     IN /\ guest_is_logged_in' = (guests # {})
        /\ guest_is_active' \in ActiveAfter(guests)
  /\ mirror' = SetFlag(SetFlag(mirror, "logged-in", guest_is_logged_in, guest_is_logged_in'),
                       "active", guest_is_active, guest_is_active')
  /\ msgs' = Tail(msgs)
  /\ UNCHANGED <<life, proxies, guest_is_allowed, listed, ghosts, current, asked, dmVars, misled>>

OnError ==
  /\ NextMsg("error")
  /\ msgs' = Tail(msgs)
  /\ UNCHANGED <<life, proxies, flags, listed, ghosts, current, asked, dmVars, misled, mirror>>

\* Mistaken set_guest_is_allowed_flag: no notify.
SetAllowedQuietly(b) == guest_is_allowed' = b /\ UNCHANGED mirror

\* on_notify_has_guest_account
SetAllowed(b) ==
  /\ guest_is_allowed' = b
  /\ mirror' = SetFlag(mirror, "allowed", guest_is_allowed, b)

OnGuestAccountChange ==
  /\ Running /\ dmmsgs # << >>
  /\ SetAllowed(Head(dmmsgs))
  /\ dmmsgs' = Tail(dmmsgs)
  /\ UNCHANGED <<life, proxies, guest_is_active, guest_is_logged_in, login1Vars,
                 has_guest_account, misled>>

\* Mistaken set_proxies: the display manager's flag is listened to but not read.
SetProxiesUnread(got) ==
  /\ life = "init"
  /\ life' = "running" /\ proxies' = got
  /\ asked' = IF "login1" \in got THEN Cardinality(got \ {"dm"}) ELSE 0
  /\ UNCHANGED <<flags, mirror, listed, ghosts, current, msgs, dmVars, misled>>

\* indicator_session_guest_dbus_set_proxies: one ListSessions for the manager
\* and one for the seat
SetProxies(got) ==
  /\ life = "init"
  /\ life' = "running" /\ proxies' = got
  /\ asked' = IF "login1" \in got THEN Cardinality(got \ {"dm"}) ELSE 0
  /\ IF "dm" \in got THEN SetAllowed(has_guest_account)
     ELSE UNCHANGED <<guest_is_allowed, mirror>>
  /\ UNCHANGED <<guest_is_active, guest_is_logged_in, listed, ghosts, current, msgs, dmVars,
                 misled>>

\* my_dispose
Dispose ==
  /\ life # "disposed"
  /\ life' = "disposed" /\ proxies' = {}
  /\ asked' = 0 /\ msgs' = << >> /\ dmmsgs' = << >>
  /\ UNCHANGED <<flags, listed, ghosts, current, has_guest_account, misled, mirror>>

World ==
  \/ \E s \in Sessions : SessionNew(s) \/ SessionRemoved(s) \/ GhostGone(s) \/ ActiveSession(s)
  \/ AnswerSessions \/ GuestAccountChanges
Object == OnSignal \/ OnSessionListReady \/ OnError \/ OnGuestAccountChange
Start == \E got \in SUBSET AllProxies : SetProxies(got)

Init ==
  /\ life = "init" /\ proxies = {}
  /\ guest_is_active = FALSE /\ guest_is_logged_in = FALSE /\ guest_is_allowed = FALSE
  /\ listed \in SUBSET Sessions /\ ghosts = {} /\ current = FirstSession
  /\ asked = 0 /\ msgs = << >>
  /\ has_guest_account \in BOOLEAN /\ dmmsgs = << >>
  /\ misled = FALSE /\ mirror = [f \in Flags |-> FALSE]

Next == Start \/ Object \/ Dispose \/ (Running /\ World)

Spec == Init /\ [][Next]_vars

\* The main loop dispatches what is queued and logind answers its calls; nothing
\* makes sessions or the guest account come and go.
FairSpec ==
  /\ Spec
  /\ WF_vars(Start) /\ WF_vars(Object)
  /\ WF_vars(Running /\ AnswerSessions)

-----------------------------------------------------------------------------
(* Properties. *)

Msgs == [type: {"signal", "error"}] \cup [type: {"sessions"}, ids: SUBSET Sessions]

\* Every variable has its type.
TypeOK ==
  /\ life \in {"init", "running", "disposed"} /\ proxies \subseteq AllProxies
  /\ guest_is_active \in BOOLEAN /\ guest_is_logged_in \in BOOLEAN
  /\ guest_is_allowed \in BOOLEAN
  /\ listed \subseteq Sessions /\ ghosts \subseteq Sessions /\ current \in Sessions
  /\ asked \in Nat /\ msgs \in Seq(Msgs)
  /\ has_guest_account \in BOOLEAN /\ dmmsgs \in Seq(BOOLEAN)
  /\ misled \in BOOLEAN /\ mirror \in [Flags -> BOOLEAN]

\* A listener that reads a flag at its notify is never out of date, and it never
\* settles on a guest who is active without being logged in.
ListenerIsFresh ==
  /\ mirror = [f \in Flags |-> CASE f = "active" -> guest_is_active
                                 [] f = "logged-in" -> guest_is_logged_in
                                 [] OTHER -> guest_is_allowed]
  /\ guest_is_active => guest_is_logged_in

Quiet == Running /\ msgs = << >> /\ asked = 0 /\ dmmsgs = << >>
Guests == listed \cap GuestSessions

\* With several guest sessions the last one of the reply decides who is active,
\* and only the seat tells that the active session is another one.
Accurate ==
  /\ "login1" \in proxies =>
       /\ guest_is_logged_in = (Guests # {})
       /\ Cardinality(Guests) <= 1 /\ "seat" \in proxies =>
            guest_is_active = (current \in Guests)
  /\ "dm" \in proxies => guest_is_allowed = has_guest_account

\* "Whether or not the Guest account is logged in" and "has the current session"
\* (src/guest.c:97, 103): once the services' messages are handled the flags are
\* what the services say, whatever came and went while the replies were on their
\* way and whichever services were there, unless a call failed or logind listed
\* a session it had announced to be gone.
GuestSettles == Quiet /\ ~misled => Accurate

\* If no session and no guest account comes, goes or changes any more, the flags
\* end up right and stay so.
Churn ==
  \/ \E s \in Sessions : SessionNew(s) \/ SessionRemoved(s) \/ ActiveSession(s)
  \/ GuestAccountChanges
GuestConverges ==
  (<>[][~Churn]_vars /\ [](life # "disposed" /\ ~misled)) => <>[](Quiet /\ Accurate)
=============================================================================
