------------------------------- MODULE RichMenu -------------------------------
(***************************************************************************)
(* RichMenuService.Publish: an administrator uploads an image, which       *)
(* becomes a new menu at LINE in three calls and is then recorded.  LINE   *)
(* may refuse a call or do it and lose the answer; the process may stop.   *)
(***************************************************************************)
EXTENDS Naturals

CONSTANTS
    Menus,       \* bound: the menus LINE ever makes
    Publishers,  \* the requests of administrators in progress at a time
    JPEGs,       \* bound: the lengths of the images of the two kinds, in bytes
    PNGs,
    NoMenu

ASSUME MenuAssumption == NoMenu \notin Menus /\ JPEGs \cup PNGs \subseteq Nat

VARIABLES
    menus,     \* the menus at LINE
    pictured,  \* those that have an image
    default,   \* the menu users see, or NoMenu
    audit,     \* the menus recorded as published
    step,      \* publisher -> where it is
    menu,      \* publisher -> the menu it works on
    size,      \* publisher -> the length of its image
    offset,    \* publisher -> where richMenuImageInfo looks
    highest,   \* publisher -> the highest index of the image read so far (ghost)
    served,    \* the menus that have been the default (ghost)
    excused    \* the menus whose clean-up LINE or a stop has prevented (ghost)

lineVars == <<menus, pictured, default, audit, served>>
menuVars == <<lineVars, step, menu, size, offset, highest, excused>>

MenuTypeOK ==
    /\ menus \subseteq Menus /\ pictured \subseteq menus /\ default \in menus \cup {NoMenu}
    /\ audit \subseteq Menus /\ served \subseteq Menus /\ excused \subseteq Menus
    /\ step \in [Publishers ->
        {"idle", "scan", "check", "create", "upload", "default", "undo", "audit"}]
    /\ menu \in [Publishers -> Menus \cup {NoMenu}]
    /\ {size, offset, highest} \subseteq [Publishers -> Nat]

MenuInit ==
    /\ menus = {} /\ pictured = {} /\ default = NoMenu /\ audit = {} /\ served = {} /\ excused = {}
    /\ step = [p \in Publishers |-> "idle"]
    /\ menu = [p \in Publishers |-> NoMenu]
    /\ size = [p \in Publishers |-> 0]
    /\ offset = [p \in Publishers |-> 0]
    /\ highest = [p \in Publishers |-> 0]

-----------------------------------------------------------------------------
(* The scan over a JPEG image.  It reads no byte twice, so what it reads is  *)
(* chosen when it reads it.                                                  *)

Goto(p, s) == step' = [step EXCEPT ![p] = s]
Look(p, i) == highest' = [highest EXCEPT ![p] = IF i > @ THEN i ELSE @]
Forget(p) ==
    /\ size' = [size EXCEPT ![p] = 0]
    /\ offset' = [offset EXCEPT ![p] = 0]
    /\ highest' = [highest EXCEPT ![p] = 0]

\* A PNG names its size at fixed places and needs no scan.
Publish(p, n) ==
    /\ step[p] = "idle"
    /\ \/ n \in JPEGs /\ n >= 4 /\ Goto(p, "scan") /\ size' = [size EXCEPT ![p] = n]
          /\ offset' = [offset EXCEPT ![p] = 2] /\ Look(p, 1)
       \/ n \in PNGs /\ n >= 24 /\ Goto(p, "check") /\ size' = [size EXCEPT ![p] = n]
          /\ Look(p, 23) /\ UNCHANGED offset
    /\ UNCHANGED <<lineVars, menu, excused>>

\* Mutant: the loop ends at the end of the data.
InImage_ToEnd(p) == offset[p] < size[p]

InImage(p) == offset[p] + 9 < size[p]

\* No marker here, or one without a segment.
ScanSkip(p) ==
    /\ step[p] = "scan" /\ InImage(p)
    /\ \/ Look(p, offset[p]) /\ offset' = [offset EXCEPT ![p] = @ + 1]
       \/ Look(p, offset[p] + 1) /\ offset' = [offset EXCEPT ![p] = @ + 2]
    /\ UNCHANGED <<lineVars, step, menu, size, excused>>

\* A segment of some length that lies in the data and is not a frame header.
ScanSegment(p, length) ==
    /\ step[p] = "scan" /\ InImage(p)
    /\ length >= 2 /\ offset[p] + 2 + length <= size[p]
    /\ Look(p, offset[p] + 3)
    /\ offset' = [offset EXCEPT ![p] = @ + 2 + length]
    /\ UNCHANGED <<lineVars, step, menu, size, excused>>

\* The frame header has the size of the picture.
ScanFrame(p, length) ==
    /\ step[p] = "scan" /\ InImage(p)
    /\ length >= 7 /\ offset[p] + 2 + length <= size[p]
    /\ Look(p, offset[p] + 8)
    /\ Goto(p, "check")
    /\ UNCHANGED <<lineVars, menu, size, offset, excused>>

\* The end of the data, or a segment that does not lie in it: not an image.
ScanFails(p) ==
    /\ step[p] = "scan"
    /\ Goto(p, "idle")
    /\ Forget(p)
    /\ UNCHANGED <<lineVars, menu, excused>>

\* The size of the picture and FRONTEND_URL are right, or one of them is not.
CheckImage(p) ==
    /\ step[p] = "check"
    /\ Goto(p, "create") \/ Goto(p, "idle")
    /\ Forget(p)
    /\ UNCHANGED <<lineVars, menu, excused>>

-----------------------------------------------------------------------------
(* The calls of LINE *)

MenuEnd(p) ==
    /\ Goto(p, "idle")
    /\ menu' = [menu EXCEPT ![p] = NoMenu]
    /\ Forget(p)

Create(p, m) ==
    /\ step[p] = "create"
    /\ m \notin menus \cup served \cup excused /\ \A q \in Publishers : menu[q] # m
    /\ menus' = menus \cup {m}
    /\ \/ Goto(p, "upload") /\ menu' = [menu EXCEPT ![p] = m]
          /\ UNCHANGED <<size, offset, highest, excused>>
       \/ MenuEnd(p) /\ excused' = excused \cup {m}          \* nobody learns its id
    /\ UNCHANGED <<pictured, default, audit, served>>

\* Mutant: a menu without an image is left at LINE.
Upload_NoDelete(p) ==
    /\ step[p] = "upload"
    /\ \/ Goto(p, "default") /\ pictured' = pictured \cup {menu[p]} /\ UNCHANGED menu
       \/ Goto(p, "idle") /\ menu' = [menu EXCEPT ![p] = NoMenu] /\ UNCHANGED pictured
    /\ UNCHANGED <<menus, default, audit, served, size, offset, highest, excused>>

Upload(p) ==
    /\ step[p] = "upload"
    /\ \/ Goto(p, "default") /\ pictured' = pictured \cup {menu[p]}
       \/ Goto(p, "undo") /\ pictured' \in {pictured, pictured \cup {menu[p]}}
    /\ UNCHANGED <<menus, default, audit, served, menu, size, offset, highest, excused>>

SetDefault(p) ==
    /\ step[p] = "default"
    /\ \/ Goto(p, "audit") /\ default' = menu[p] /\ served' = served \cup {menu[p]}
       \/ Goto(p, "undo") /\ UNCHANGED <<default, served>>
       \/ Goto(p, "undo") /\ default' = menu[p] /\ served' = served \cup {menu[p]}
    /\ UNCHANGED <<menus, pictured, audit, menu, size, offset, highest, excused>>

\* LINE drops the default with the menu.  An error of the call is ignored.
Delete(p) ==
    /\ step[p] = "undo"
    /\ \/ /\ menus' = menus \ {menu[p]} /\ pictured' = pictured \ {menu[p]}
          /\ default' = IF default = menu[p] THEN NoMenu ELSE default
          /\ UNCHANGED excused
       \/ excused' = excused \cup {menu[p]} /\ UNCHANGED <<menus, pictured, default>>
    /\ MenuEnd(p)
    /\ UNCHANGED <<audit, served>>

\* Mutant: when the audit record fails the menu is deleted like after the other errors.
RecordPublish_Delete(p) ==
    /\ step[p] = "audit"
    /\ \/ audit' = audit \cup {menu[p]} /\ MenuEnd(p)
       \/ audit' \in {audit, audit \cup {menu[p]}} /\ Goto(p, "undo")
          /\ UNCHANGED <<menu, size, offset, highest>>
    /\ UNCHANGED <<menus, pictured, default, served, excused>>

\* The menu stays although its record may have failed.
RecordPublish(p) ==
    /\ step[p] = "audit"
    /\ audit' \in {audit, audit \cup {menu[p]}}
    /\ MenuEnd(p)
    /\ UNCHANGED <<menus, pictured, default, served, excused>>

MenuStop(p) ==
    /\ step[p] # "idle"
    /\ excused' = IF menu[p] = NoMenu THEN excused ELSE excused \cup {menu[p]}
    /\ MenuEnd(p)
    /\ UNCHANGED lineVars

MenuNext ==
    \E p \in Publishers :
        \/ \E n \in JPEGs \cup PNGs : Publish(p, n)
        \/ ScanSkip(p) \/ ScanFails(p) \/ CheckImage(p)
        \/ \E length \in 0..size[p] : ScanSegment(p, length) \/ ScanFrame(p, length)
        \/ \E m \in Menus : Create(p, m)
        \/ Upload(p) \/ SetDefault(p) \/ Delete(p) \/ RecordPublish(p) \/ MenuStop(p)

MenuSpec == MenuInit /\ [][MenuNext]_menuVars

-----------------------------------------------------------------------------

\* A menu that users never saw does not stay at LINE, unless the answer to its creation
\* or its deletion failed or the process stopped.
NoMenuForgotten ==
    \A m \in menus : m \in served \cup excused \/ \E p \in Publishers : menu[p] = m

\* Users never see a menu without its image, and a menu that is recorded as published has
\* not been deleted by a clean-up that came after the record.
PublishedMenuLives ==
    /\ default = NoMenu \/ default \in pictured
    /\ audit \subseteq pictured

\* The scan reads inside of the image only.
ScanInImage == \A p \in Publishers : step[p] \in {"scan", "check"} => highest[p] < size[p]

=============================================================================
