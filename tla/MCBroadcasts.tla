----------------------------- MODULE MCBroadcasts -----------------------------
(***************************************************************************)
(* What all users of the bot see at LINE, for TLC: the announcements of    *)
(* MarketNotifications, on one trading day, the calendar they follow, on   *)
(* all days of some years, and the menu of RichMenu.  They share no state: *)
(* a behaviour is one of the module that `part` names.                     *)
(***************************************************************************)
EXTENDS MCMarketNotifications, MarketCalendar, RichMenu

VARIABLE part
mcVars == <<vars, calendarVars, menuVars, part>>

MCInit == part \in {"notifications", "calendar", "menu"} /\ Init /\ CalendarInit /\ MenuInit

MCNext ==
    /\ UNCHANGED part
    /\ \/ part = "notifications" /\ Next /\ UNCHANGED <<calendarVars, menuVars>>
       \/ part = "calendar" /\ CalendarNext /\ UNCHANGED <<vars, menuVars>>
       \/ part = "menu" /\ MenuNext /\ UNCHANGED <<vars, calendarVars>>

MCSpec == MCInit /\ [][MCNext]_mcVars

=============================================================================
