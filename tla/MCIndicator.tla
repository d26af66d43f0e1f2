----------------------------- MODULE MCIndicator -----------------------------
(* An instance of Indicator for TLC: the live image's user, who may have an *)
(* account and a session, on a local desktop where everything is shown.     *)
EXTENDS Indicator

On == {"show-custom-item", "custom-item-label", "custom-item-uri", "show-device-info",
       "show-desktop-help", "show-distro-help", "show-bug-report", "usage-mode",
       "show-real-name-on-panel", "user-show-menu", "screensaver", "guest-is-allowed",
       "can-lock", "can-logout", "can-reboot", "can-switch", "can-suspend", "can-hibernate",
       "can-prompt"}
Off == {"is-live-session", "guest-is-active-session", "guest-is-logged-in",
        "suppress-logout-restart-shutdown", "suppress-logout-menuitem",
        "suppress-shutdown-menuitem", "has-online-account-error"}
Desktop == [key \in On \cup Off |-> key \in On]

OneUid == {999}
OneSessionUid == [s \in {"c1"} |-> 999]
Labels == [i \in {"ann", "nothing"} |-> IF i = "ann" THEN "Ann" ELSE ""]
Zero == [i \in DOMAIN Labels |-> 0]
=============================================================================
