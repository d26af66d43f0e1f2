----------------------------- MODULE ProxyGather ----------------------------
(***************************************************************************)
(* How backend_get finds the D-Bus proxies and hands them to the backend   *)
(* objects (src/src/backend-dbus/utils.c and backend-dbus.c): all proxies  *)
(* are asked for at once, a counter goes down with each reply, and the     *)
(* reply that brings it to 0 calls on_proxies_ready, which does nothing if *)
(* the service has been disposed of meanwhile.                             *)
(***************************************************************************)
EXTENDS Naturals, Sequences, FiniteSets

CONSTANT Objects   \* the backend objects asked for, of "actions", "users", "guest"

ASSUME ObjectsAssumption == Objects \subseteq {"actions", "users", "guest"} /\ Objects # {}

AllProxies == {"login1", "seat", "accounts", "dm"}

VARIABLES
  pending,      \* struct session_proxy_data: replies still to come
  unanswered,   \* the calls that have not replied
  stored,       \* its members that are not NULL
  freed,        \* the callback ran and the struct is freed
  cancelled,    \* the service's cancellable
  living,       \* the backend objects that are not freed
  given         \* the calls of set_proxies on each object: the proxies given

vars == <<pending, unanswered, stored, freed, cancelled, living, given>>

\* each set_proxies function takes its share
Share(object) == IF object = "users" THEN AllProxies ELSE AllProxies \ {"accounts"}

\* Mistaken on_proxies_ready: it does not look at the cancellable, or gives
\* nothing to anybody if logind is missing.
OnProxiesReadyAlways(got) ==
  given' = [o \in Objects |-> Append(given[o], got \cap Share(o))]
OnProxiesReadyNeedsLogin1(got) ==
  given' = IF cancelled \/ "login1" \notin got THEN given
           ELSE [o \in Objects |-> Append(given[o], got \cap Share(o))]

\* on_proxies_ready
OnProxiesReady(got) ==
  given' = IF cancelled THEN given
           ELSE [o \in Objects |-> Append(given[o], got \cap Share(o))]

\* Mistaken on_proxy_ready_impl: the error path counts twice, or returns without
\* counting.
ProxyReadyCountsErrorsTwice(p) ==
  /\ p \in unanswered
  /\ unanswered' = unanswered \ {p}
  /\ \/ stored' = stored \cup {p} /\ pending' = pending - 1
     \/ stored' = stored /\ pending' = pending - 2
  /\ IF pending' = 0 THEN OnProxiesReady(stored') /\ freed' = TRUE
     ELSE UNCHANGED <<given, freed>>
  /\ UNCHANGED <<cancelled, living>>
ProxyReadyForgetsErrors(p) ==
  /\ p \in unanswered
  /\ unanswered' = unanswered \ {p}
  /\ \/ stored' = stored \cup {p} /\ pending' = pending - 1
     \/ stored' = stored /\ pending' = pending
  /\ IF pending' = 0 THEN OnProxiesReady(stored') /\ freed' = TRUE
     ELSE UNCHANGED <<given, freed>>
  /\ UNCHANGED <<cancelled, living>>

\* on_proxy_ready_impl: an error, a cancellation among them, leaves the member NULL
ProxyReady(p) ==
  /\ p \in unanswered
  /\ unanswered' = unanswered \ {p}
  /\ stored' \in {stored, stored \cup {p}}
  /\ pending' = pending - 1
  /\ IF pending' = 0 THEN OnProxiesReady(stored') /\ freed' = TRUE
     ELSE UNCHANGED <<given, freed>>
  /\ UNCHANGED <<cancelled, living>>

\* the service's my_dispose: cancel, then drop the objects
DisposeService ==
  /\ ~cancelled
  /\ cancelled' = TRUE
  /\ living' = {}
  /\ UNCHANGED <<pending, unanswered, stored, freed, given>>

\* Mistaken indicator_session_util_get_session_proxies: the optional proxies are
\* asked for without being counted.
InitCountsTwo ==
  /\ \E seats \in SUBSET {"seat", "dm"} : unanswered = {"login1", "accounts"} \cup seats
  /\ pending = 2
  /\ stored = {} /\ freed = FALSE
  /\ cancelled = FALSE /\ living = Objects
  /\ given = [o \in Objects |-> <<>>]

\* indicator_session_util_get_session_proxies: the login1 seat is asked for only
\* if XDG_SEAT is set, the display manager's seat only if XDG_SEAT_PATH is
Init ==
  /\ \E seats \in SUBSET {"seat", "dm"} : unanswered = {"login1", "accounts"} \cup seats
  /\ pending = Cardinality(unanswered)
  /\ stored = {} /\ freed = FALSE
  /\ cancelled = FALSE /\ living = Objects
  /\ given = [o \in Objects |-> <<>>]

AnyReady == \E p \in AllProxies : ProxyReady(p)

Next == AnyReady \/ DisposeService

\* D-Bus answers every call, if only with an error.
Spec == Init /\ [][Next]_vars /\ WF_vars(AnyReady)

-----------------------------------------------------------------------------
(* Properties. *)

\* Every variable has its type.
TypeOK ==
  /\ pending \in Nat
  /\ unanswered \subseteq AllProxies /\ stored \subseteq AllProxies
  /\ freed \in BOOLEAN /\ cancelled \in BOOLEAN
  /\ living \subseteq Objects
  /\ given \in [Objects -> Seq(SUBSET AllProxies)]

\* The struct is freed exactly when nobody can call back any more: a reply never
\* finds it freed, and it is not kept once all replies are in.
FreedAfterLastReply == freed <=> unanswered = {}

\* As long as the service lives, its objects get their proxies as soon as all
\* replies are in, once, and each all those of its share that were found.
AllGivenTogether ==
  ~cancelled => \A o \in Objects :
    given[o] = IF unanswered = {} THEN <<stored \cap Share(o)>> ELSE <<>>

\* set_proxies is never called on an object that is not living.
NeverGivenToTheDead ==
  [][\A o \in Objects : given'[o] # given[o] => o \in living']_vars

\* The gathering keeps the promise of Startup.
Outcome == IF ~freed THEN "waiting"
           ELSE IF \A o \in Objects : given[o] = <<>> THEN "dropped" ELSE "given"
Promise == INSTANCE Startup WITH gone <- cancelled, outcome <- Outcome
KeepsPromise == Promise!Spec

\* Its safety part: every step gives to all, drops for a caller that has gone,
\* or changes nothing the caller can see.
PromiseSteps == Promise!Init /\ [][Promise!Next]_(Promise!vars)
=============================================================================
