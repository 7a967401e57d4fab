---------------------------- MODULE RichMenuProofs ----------------------------
(***************************************************************************)
(* What RichMenu promises, for any number of publishers, menus and sizes   *)
(* of images.  A publisher that got the id of a menu is the only one that  *)
(* works on it, and it records the menu at its last step.                  *)
(***************************************************************************)
EXTENDS RichMenu, TLAPS

Works(p) == step[p] \in {"upload", "default", "undo", "audit"}

\* Each menu in progress is at LINE, has one publisher, and is not recorded yet.
WorkIsExclusive ==
    /\ \A p \in Publishers : IF Works(p) THEN menu[p] \in menus \ audit ELSE menu[p] = NoMenu
    /\ \A p, q \in Publishers : Works(p) /\ Works(q) /\ menu[p] = menu[q] => p = q
    /\ \A p \in Publishers :
         /\ step[p] \in {"default", "audit"} => menu[p] \in pictured
         /\ step[p] = "audit" => menu[p] \in served

\* Nothing has been read before a scan.
ScansAreFresh == \A p \in Publishers : step[p] = "idle" => highest[p] = 0

MenuInv ==
    /\ MenuTypeOK /\ WorkIsExclusive /\ ScansAreFresh
    /\ NoMenuForgotten /\ PublishedMenuLives /\ ScanInImage

-----------------------------------------------------------------------------

LEMMA MenuInvInit == MenuInit => MenuInv
  BY DEF MenuInit, MenuInv, MenuTypeOK, WorkIsExclusive, Works, ScansAreFresh,
         NoMenuForgotten, PublishedMenuLives, ScanInImage

\* What Goto and Look do to the functions step and highest.
LEMMA Went ==
  ASSUME MenuTypeOK, NEW p \in Publishers,
         NEW s \in {"idle", "scan", "check", "create", "upload", "default", "undo", "audit"},
         Goto(p, s)
  PROVE  /\ step' \in [Publishers ->
              {"idle", "scan", "check", "create", "upload", "default", "undo", "audit"}]
         /\ step'[p] = s
         /\ \A q \in Publishers : q # p => step'[q] = step[q]
  BY DEF MenuTypeOK, Goto

LEMMA Looked ==
  ASSUME MenuTypeOK, NEW p \in Publishers, NEW i \in Nat, NEW n \in Nat,
         Look(p, i), i < n, highest[p] < n
  PROVE  /\ highest' \in [Publishers -> Nat] /\ highest'[p] < n
         /\ \A q \in Publishers : q # p => highest'[q] = highest[q]
  BY DEF MenuTypeOK, Look

LEMMA Forgot ==
  ASSUME MenuTypeOK, NEW p \in Publishers, Forget(p)
  PROVE  /\ {size', offset', highest'} \subseteq [Publishers -> Nat] /\ highest'[p] = 0
         /\ \A q \in Publishers : q # p => highest'[q] = highest[q] /\ size'[q] = size[q]
  BY DEF MenuTypeOK, Forget

\* As long as nothing is sent to LINE only the scan can go wrong.
LEMMA InvLocal ==
  ASSUME MenuInv, NEW p \in Publishers, NEW s \in {"idle", "scan", "check", "create"},
         Goto(p, s) \/ UNCHANGED step, UNCHANGED <<lineVars, menu, excused>>,
         step[p] \in {"idle", "scan", "check"}, ScansAreFresh', ScanInImage',
         {size', offset', highest'} \subseteq [Publishers -> Nat]
  PROVE  MenuInv'
  <1>1. /\ step' \in [Publishers ->
             {"idle", "scan", "check", "create", "upload", "default", "undo", "audit"}]
        /\ \A q \in Publishers :
             \/ step'[q] = step[q]
             \/ /\ step[q] \in {"idle", "scan", "check"}
                /\ step'[q] \in {"idle", "scan", "check", "create"}
    BY Went DEF MenuInv, MenuTypeOK
  <1>2. /\ menus' = menus /\ pictured' = pictured /\ default' = default /\ audit' = audit
        /\ served' = served /\ menu' = menu /\ excused' = excused
    BY DEF lineVars
  <1>3. MenuTypeOK'
    BY <1>1, <1>2 DEF MenuInv, MenuTypeOK
  <1>4. WorkIsExclusive'
    <2>1. \A q \in Publishers : Works(q)' <=> Works(q)
      BY <1>1 DEF Works
    <2>2. \A q \in Publishers :
            IF Works(q)' THEN menu'[q] \in menus' \ audit' ELSE menu'[q] = NoMenu
      BY <2>1, <1>2 DEF MenuInv, WorkIsExclusive
    <2>3. \A q, r \in Publishers : Works(q)' /\ Works(r)' /\ menu'[q] = menu'[r] => q = r
      BY <2>1, <1>2 DEF MenuInv, WorkIsExclusive
    <2>4. \A q \in Publishers :
            /\ step'[q] \in {"default", "audit"} => menu'[q] \in pictured'
            /\ step'[q] = "audit" => menu'[q] \in served'
      <3>1. \A q \in Publishers : step'[q] \in {"default", "audit"} => step'[q] = step[q]
        BY <1>1
      <3> QED BY <3>1, <1>2 DEF MenuInv, WorkIsExclusive
    <2> QED BY <2>2, <2>3, <2>4 DEF WorkIsExclusive
  <1>5. NoMenuForgotten' /\ PublishedMenuLives'
    BY <1>2 DEF MenuInv, NoMenuForgotten, PublishedMenuLives
  <1> QED BY <1>3, <1>4, <1>5 DEF MenuInv

LEMMA InvScan ==
  ASSUME MenuInv, NEW p \in Publishers,
         \/ \E n \in JPEGs \cup PNGs : Publish(p, n)
         \/ ScanSkip(p)
         \/ \E length \in 0..size[p] : ScanSegment(p, length) \/ ScanFrame(p, length)
  PROVE  MenuInv'
  <1>0. /\ \A q \in Publishers : size[q] \in Nat /\ offset[q] \in Nat /\ highest[q] \in Nat
        /\ size \in [Publishers -> Nat] /\ offset \in [Publishers -> Nat]
    BY DEF MenuInv, MenuTypeOK
  <1>1. CASE \E n \in JPEGs \cup PNGs : Publish(p, n)
    <2>1. PICK n \in JPEGs \cup PNGs : Publish(p, n)
      BY <1>1
    <2>2. n \in Nat /\ highest[p] = 0 /\ step[p] = "idle" /\ n >= 4
          /\ UNCHANGED <<lineVars, menu, excused>>
      BY <2>1, MenuAssumption DEF Publish, MenuInv, ScansAreFresh
    <2>3. PICK s \in {"scan", "check"}, i \in {1, 23} :
            Goto(p, s) /\ Look(p, i) /\ i < n
      BY <2>1, <2>2 DEF Publish
    <2>4. /\ size' \in [Publishers -> Nat] /\ offset' \in [Publishers -> Nat] /\ size'[p] = n
          /\ \A q \in Publishers : q # p => size'[q] = size[q]
      BY <2>1, <2>2, <1>0 DEF Publish
    <2>5. /\ highest' \in [Publishers -> Nat] /\ highest'[p] < n
          /\ \A q \in Publishers : q # p => highest'[q] = highest[q]
      BY <2>2, <2>3, Looked DEF MenuInv
    <2>6. \A q \in Publishers : q # p => step'[q] = step[q]
      BY <2>3, Went DEF MenuInv
    <2>7. step'[p] = s
      BY <2>3, Went DEF MenuInv
    <2>8. ScansAreFresh' /\ ScanInImage'
      BY <2>3, <2>4, <2>5, <2>6, <2>7 DEF MenuInv, ScansAreFresh, ScanInImage
    <2> QED BY <2>2, <2>3, <2>4, <2>5, <2>8, InvLocal
  <1>2. ASSUME NEW s \in {"scan", "check"}, NEW i \in Nat, NEW o \in Nat,
               step[p] = "scan", i < size[p], Look(p, i),
               (s = "scan" /\ UNCHANGED step) \/ Goto(p, s),
               offset' = [offset EXCEPT ![p] = o],
               UNCHANGED <<lineVars, menu, size, excused>>
        PROVE  MenuInv'
    <2>1. highest[p] < size[p] /\ size[p] \in Nat
      BY <1>0, <1>2 DEF MenuInv, ScanInImage
    <2>2. /\ highest' \in [Publishers -> Nat] /\ highest'[p] < size[p]
          /\ \A q \in Publishers : q # p => highest'[q] = highest[q]
      BY <1>2, <2>1, Looked DEF MenuInv
    <2>3. \A q \in Publishers : IF q = p THEN step'[q] = s ELSE step'[q] = step[q]
      BY <1>2, Went DEF MenuInv
    <2>4. ScansAreFresh' /\ ScanInImage'
      BY <2>2, <2>3, <1>2 DEF MenuInv, ScansAreFresh, ScanInImage
    <2>5. {size', offset', highest'} \subseteq [Publishers -> Nat]
      BY <2>2, <1>0, <1>2
    <2> QED BY <1>2, <2>4, <2>5, InvLocal
  <1>3. CASE ScanSkip(p)
    <2>1. /\ step[p] = "scan" /\ offset[p] + 9 < size[p]
          /\ UNCHANGED <<lineVars, step, menu, size, excused>>
          /\ \/ Look(p, offset[p]) /\ offset' = [offset EXCEPT ![p] = offset[p] + 1]
             \/ Look(p, offset[p] + 1) /\ offset' = [offset EXCEPT ![p] = offset[p] + 2]
      BY <1>3 DEF ScanSkip, InImage
    <2>2. PICK i \in Nat, o \in Nat :
            i < size[p] /\ Look(p, i) /\ offset' = [offset EXCEPT ![p] = o]
      BY <2>1, <1>0
    <2> QED BY <2>1, <2>2, <1>2
  <1>4. ASSUME NEW length \in 0..size[p], ScanSegment(p, length)
        PROVE  MenuInv'
    <2>1. /\ step[p] = "scan" /\ offset[p] + 9 < size[p] /\ Look(p, offset[p] + 3)
          /\ offset' = [offset EXCEPT ![p] = offset[p] + 2 + length]
          /\ UNCHANGED <<lineVars, step, menu, size, excused>>
      BY <1>4 DEF ScanSegment, InImage
    <2>2. offset[p] + 3 \in Nat /\ offset[p] + 3 < size[p] /\ offset[p] + 2 + length \in Nat
      BY <2>1, <1>0
    <2> QED BY <2>1, <2>2, <1>2
  <1>5. ASSUME NEW length \in 0..size[p], ScanFrame(p, length)
        PROVE  MenuInv'
    <2>1. /\ step[p] = "scan" /\ offset[p] + 9 < size[p] /\ Look(p, offset[p] + 8)
          /\ Goto(p, "check") /\ UNCHANGED <<lineVars, menu, size, offset, excused>>
      BY <1>5 DEF ScanFrame, InImage
    <2>2. /\ offset[p] + 8 \in Nat /\ offset[p] + 8 < size[p]
          /\ offset' = [offset EXCEPT ![p] = offset[p]] /\ offset[p] \in Nat
      BY <2>1, <1>0
    <2> QED BY <2>1, <2>2, <1>2
  <1> QED BY <1>1, <1>3, <1>4, <1>5

LEMMA InvScanEnds ==
  ASSUME MenuInv, NEW p \in Publishers, ScanFails(p) \/ CheckImage(p)
  PROVE  MenuInv'
  <1>1. PICK s \in {"idle", "create"} :
          /\ Goto(p, s) /\ Forget(p) /\ UNCHANGED <<lineVars, menu, excused>>
          /\ step[p] \in {"scan", "check"}
    BY DEF ScanFails, CheckImage
  <1>2. /\ {size', offset', highest'} \subseteq [Publishers -> Nat] /\ highest'[p] = 0
        /\ \A q \in Publishers : q # p => highest'[q] = highest[q] /\ size'[q] = size[q]
    BY <1>1, Forgot DEF MenuInv
  <1>3. \A q \in Publishers : IF q = p THEN step'[q] = s ELSE step'[q] = step[q]
    BY <1>1, Went DEF MenuInv
  <1>4. ScansAreFresh' /\ ScanInImage'
    BY <1>2, <1>3 DEF MenuInv, ScansAreFresh, ScanInImage
  <1> QED BY <1>1, <1>2, <1>4, InvLocal

\* The end of a publication.
LEMMA Ended ==
  ASSUME MenuInv, NEW p \in Publishers, MenuEnd(p)
  PROVE  /\ step' \in [Publishers ->
              {"idle", "scan", "check", "create", "upload", "default", "undo", "audit"}]
         /\ menu' \in [Publishers -> Menus \cup {NoMenu}]
         /\ {size', offset', highest'} \subseteq [Publishers -> Nat]
         /\ step'[p] = "idle" /\ menu'[p] = NoMenu
         /\ \A q \in Publishers : q # p => step'[q] = step[q] /\ menu'[q] = menu[q]
         /\ ScansAreFresh' /\ ScanInImage'
  <1>1. /\ step' \in [Publishers ->
             {"idle", "scan", "check", "create", "upload", "default", "undo", "audit"}]
        /\ step'[p] = "idle" /\ \A q \in Publishers : q # p => step'[q] = step[q]
    BY Went DEF MenuEnd, MenuInv
  <1>2. /\ {size', offset', highest'} \subseteq [Publishers -> Nat] /\ highest'[p] = 0
        /\ \A q \in Publishers : q # p => highest'[q] = highest[q] /\ size'[q] = size[q]
    BY Forgot DEF MenuEnd, MenuInv
  <1>3. /\ menu' \in [Publishers -> Menus \cup {NoMenu}] /\ menu'[p] = NoMenu
        /\ \A q \in Publishers : q # p => menu'[q] = menu[q]
    BY DEF MenuEnd, MenuInv, MenuTypeOK
  <1>4. ScansAreFresh' /\ ScanInImage'
    BY <1>1, <1>2 DEF MenuInv, ScansAreFresh, ScanInImage
  <1> QED BY <1>1, <1>2, <1>3, <1>4

\* The menu of a publication that ends is neither forgotten nor half published.
LEMMA InvEnded ==
  ASSUME MenuInv, NEW p \in Publishers, MenuEnd(p),
         menus' \subseteq Menus, pictured' \subseteq menus', default' \in pictured' \cup {NoMenu},
         audit' \subseteq pictured', served' \subseteq Menus, excused' \subseteq Menus,
         served \subseteq served', excused \subseteq excused',
         \A m \in menus' : m \in menus \cup served' \cup excused',
         \A m \in menus' : m = menu[p] => m \in served' \cup excused',
         \A m \in menus \ {menu[p]} : /\ m \in menus'
                                      /\ m \in audit' => m \in audit
                                      /\ m \in pictured => m \in pictured'
  PROVE  MenuInv'
  <1>1. /\ step' \in [Publishers ->
              {"idle", "scan", "check", "create", "upload", "default", "undo", "audit"}]
        /\ menu' \in [Publishers -> Menus \cup {NoMenu}]
        /\ {size', offset', highest'} \subseteq [Publishers -> Nat]
        /\ step'[p] = "idle" /\ menu'[p] = NoMenu
        /\ \A q \in Publishers : q # p => step'[q] = step[q] /\ menu'[q] = menu[q]
        /\ ScansAreFresh' /\ ScanInImage'
    BY Ended
  <1>2. MenuTypeOK'
    BY <1>1 DEF MenuTypeOK
  <1>3. \A q \in Publishers \ {p} : Works(q) => menu[q] \in menus \ {menu[p]}
    <2> SUFFICES ASSUME NEW q \in Publishers \ {p}, Works(q)
                 PROVE  menu[q] \in menus \ {menu[p]}
      OBVIOUS
    <2>1. menu[q] \in menus /\ menu[q] # NoMenu
      BY MenuAssumption DEF MenuInv, WorkIsExclusive, MenuTypeOK
    <2> QED BY <2>1 DEF MenuInv, WorkIsExclusive
  <1>4. WorkIsExclusive'
    <2>1. ~Works(p)' /\ \A q \in Publishers : q # p => (Works(q)' <=> Works(q))
      BY <1>1 DEF Works
    <2>2. \A q \in Publishers :
            IF Works(q)' THEN menu'[q] \in menus' \ audit' ELSE menu'[q] = NoMenu
      BY <2>1, <1>1, <1>3 DEF MenuInv, WorkIsExclusive
    <2>3. \A q, r \in Publishers : Works(q)' /\ Works(r)' /\ menu'[q] = menu'[r] => q = r
      BY <2>1, <1>1 DEF MenuInv, WorkIsExclusive
    <2>4. \A q \in Publishers :
            /\ step'[q] \in {"default", "audit"} => menu'[q] \in pictured'
            /\ step'[q] = "audit" => menu'[q] \in served'
      BY <1>1, <1>3 DEF MenuInv, WorkIsExclusive, Works
    <2> QED BY <2>2, <2>3, <2>4 DEF WorkIsExclusive
  <1>5. NoMenuForgotten'
    <2> SUFFICES ASSUME NEW m \in menus', m \notin served' \cup excused'
                 PROVE  \E q \in Publishers : menu'[q] = m
      BY DEF NoMenuForgotten
    <2>1. PICK q \in Publishers : menu[q] = m
      BY DEF MenuInv, NoMenuForgotten
    <2>2. q # p
      BY <2>1
    <2> QED BY <2>1, <2>2, <1>1
  <1>6. PublishedMenuLives'
    BY DEF PublishedMenuLives
  <1> QED BY <1>1, <1>2, <1>4, <1>5, <1>6 DEF MenuInv

\* A publication goes on at LINE.
LEMMA InvGoesOn ==
  ASSUME MenuInv, NEW p \in Publishers, NEW s \in {"upload", "default", "undo", "audit"},
         Goto(p, s), NEW m \in Menus, menu' = [menu EXCEPT ![p] = m],
         step[p] # "idle", step[p] \notin {"scan", "check"},
         menus' = menus \cup {m}, pictured \subseteq pictured', pictured' \subseteq menus',
         default' \in pictured' \cup {NoMenu}, UNCHANGED <<audit, excused, size, offset, highest>>,
         served \subseteq served', served' \subseteq Menus,
         m \notin audit, \A q \in Publishers \ {p} : menu[q] # m,
         menu[p] \in {NoMenu, m},
         s \in {"default", "audit"} => m \in pictured', s = "audit" => m \in served'
  PROVE  MenuInv'
  <1>1. /\ step' \in [Publishers ->
              {"idle", "scan", "check", "create", "upload", "default", "undo", "audit"}]
        /\ step'[p] = s /\ \A q \in Publishers : q # p => step'[q] = step[q]
    BY Went DEF MenuInv
  <1>2. /\ menu' \in [Publishers -> Menus \cup {NoMenu}] /\ menu'[p] = m
        /\ \A q \in Publishers : q # p => menu'[q] = menu[q]
    BY DEF MenuInv, MenuTypeOK
  <1>3. MenuTypeOK'
    BY <1>1, <1>2 DEF MenuInv, MenuTypeOK
  <1>4. WorkIsExclusive'
    <2>1. Works(p)' /\ \A q \in Publishers : q # p => (Works(q)' <=> Works(q))
      BY <1>1 DEF Works
    <2>2. \A q \in Publishers :
            IF Works(q)' THEN menu'[q] \in menus' \ audit' ELSE menu'[q] = NoMenu
      BY <2>1, <1>2 DEF MenuInv, WorkIsExclusive
    <2>3. \A q, r \in Publishers : Works(q)' /\ Works(r)' /\ menu'[q] = menu'[r] => q = r
      BY <2>1, <1>2 DEF MenuInv, WorkIsExclusive
    <2>4. \A q \in Publishers :
            /\ step'[q] \in {"default", "audit"} => menu'[q] \in pictured'
            /\ step'[q] = "audit" => menu'[q] \in served'
      BY <1>1, <1>2 DEF MenuInv, WorkIsExclusive
    <2> QED BY <2>2, <2>3, <2>4 DEF WorkIsExclusive
  <1>5. ScansAreFresh' /\ ScanInImage'
    BY <1>1 DEF MenuInv, ScansAreFresh, ScanInImage
  <1>6. NoMenuForgotten'
    <2> SUFFICES ASSUME NEW x \in menus', x \notin served' \cup excused'
                 PROVE  \E q \in Publishers : menu'[q] = x
      BY DEF NoMenuForgotten
    <2>1. CASE x = m
      BY <2>1, <1>2
    <2>2. CASE x # m
      <3>1. PICK q \in Publishers : menu[q] = x
        BY <2>2 DEF MenuInv, NoMenuForgotten
      <3>2. x # NoMenu
        BY MenuAssumption, <1>3 DEF MenuTypeOK
      <3> QED BY <3>1, <3>2, <2>2, <1>2
    <2> QED BY <2>1, <2>2
  <1>7. PublishedMenuLives'
    BY DEF MenuInv, PublishedMenuLives
  <1> QED BY <1>3, <1>4, <1>5, <1>6, <1>7 DEF MenuInv

LEMMA InvCreate ==
  ASSUME MenuInv, NEW p \in Publishers, NEW m \in Menus, Create(p, m)
  PROVE  MenuInv'
  <1>1. /\ step[p] = "create" /\ menus' = menus \cup {m} /\ m \notin menus
        /\ \A q \in Publishers : menu[q] # m
        /\ UNCHANGED <<pictured, default, audit, served>>
    BY DEF Create
  <1>2. /\ menus \subseteq Menus /\ pictured \subseteq menus /\ default \in pictured \cup {NoMenu}
        /\ audit \subseteq pictured /\ served \subseteq Menus /\ excused \subseteq Menus
        /\ menu[p] = NoMenu
    BY <1>1 DEF MenuInv, MenuTypeOK, PublishedMenuLives, WorkIsExclusive, Works
  <1>3. CASE /\ Goto(p, "upload") /\ menu' = [menu EXCEPT ![p] = m]
             /\ UNCHANGED <<size, offset, highest, excused>>
    <2>1. m \notin audit
      BY <1>1, <1>2
    <2> QED BY <1>1, <1>2, <1>3, <2>1, InvGoesOn
  <1>4. CASE MenuEnd(p) /\ excused' = excused \cup {m}
    <2>1. \A x \in menus' : x # menu[p] /\ x \in menus \cup served' \cup excused'
      BY <1>1, <1>2, <1>4, MenuAssumption
    <2>2. menus' \subseteq Menus /\ pictured' \subseteq menus' /\ excused' \subseteq Menus
      BY <1>1, <1>2, <1>4
    <2> QED BY <1>1, <1>2, <1>4, <2>1, <2>2, InvEnded
  <1> QED BY <1>3, <1>4 DEF Create

\* The menu a publisher works on.
LEMMA Owned ==
  ASSUME MenuInv, NEW p \in Publishers, Works(p)
  PROVE  /\ menu[p] \in menus /\ menu[p] \in Menus /\ menu[p] \notin audit
         /\ menus \cup {menu[p]} = menus /\ menu = [menu EXCEPT ![p] = menu[p]]
         /\ \A q \in Publishers \ {p} : menu[q] # menu[p]
         /\ menus \subseteq Menus /\ pictured \subseteq menus /\ default \in pictured \cup {NoMenu}
         /\ audit \subseteq pictured /\ served \subseteq Menus /\ excused \subseteq Menus
         /\ step[p] \in {"default", "audit"} => menu[p] \in pictured
         /\ step[p] = "audit" => menu[p] \in served
  <1>1. menu[p] \in menus \ audit /\ menus \subseteq Menus
    BY DEF MenuInv, WorkIsExclusive, MenuTypeOK
  <1>2. \A q \in Publishers \ {p} : menu[q] # menu[p]
    BY <1>1, MenuAssumption DEF MenuInv, WorkIsExclusive
  <1>3. menu = [menu EXCEPT ![p] = menu[p]]
    BY DEF MenuInv, MenuTypeOK
  <1>4. /\ pictured \subseteq menus /\ default \in pictured \cup {NoMenu}
        /\ audit \subseteq pictured /\ served \subseteq Menus /\ excused \subseteq Menus
    BY DEF MenuInv, MenuTypeOK, PublishedMenuLives
  <1>5. /\ step[p] \in {"default", "audit"} => menu[p] \in pictured
        /\ step[p] = "audit" => menu[p] \in served
    BY DEF MenuInv, WorkIsExclusive
  <1> QED BY <1>1, <1>2, <1>3, <1>4, <1>5

LEMMA InvUpload ==
  ASSUME MenuInv, NEW p \in Publishers, Upload(p)
  PROVE  MenuInv'
  <1>1. /\ Works(p) /\ step[p] = "upload"
        /\ UNCHANGED <<menus, default, audit, served, menu, size, offset, highest, excused>>
    BY DEF Upload, Works
  <1>2. PICK s \in {"default", "undo"} :
          /\ Goto(p, s) /\ pictured' \in {pictured, pictured \cup {menu[p]}}
          /\ s = "default" => menu[p] \in pictured'
    BY DEF Upload
  <1> DEFINE m == menu[p]
  <1>3. /\ m \in Menus /\ menu' = [menu EXCEPT ![p] = m] /\ menus' = menus \cup {m}
        /\ pictured \subseteq pictured' /\ pictured' \subseteq menus'
        /\ default' \in pictured' \cup {NoMenu} /\ m \notin audit
        /\ \A q \in Publishers \ {p} : menu[q] # m
        /\ served' \subseteq Menus
    BY <1>1, <1>2, Owned
  <1> HIDE DEF m
  <1>4. menu[p] \in {NoMenu, m} /\ (s \in {"default", "audit"} => m \in pictured')
    BY <1>2 DEF m
  <1> QED BY <1>1, <1>2, <1>3, <1>4, InvGoesOn

LEMMA InvSetDefault ==
  ASSUME MenuInv, NEW p \in Publishers, SetDefault(p)
  PROVE  MenuInv'
  <1>1. /\ Works(p) /\ step[p] = "default"
        /\ UNCHANGED <<menus, pictured, audit, menu, size, offset, highest, excused>>
    BY DEF SetDefault, Works
  <1>2. PICK s \in {"audit", "undo"} :
          /\ Goto(p, s)
          /\ \/ default' = menu[p] /\ served' = served \cup {menu[p]}
             \/ s = "undo" /\ UNCHANGED <<default, served>>
    BY DEF SetDefault
  <1> DEFINE m == menu[p]
  <1>3. /\ m \in Menus /\ menu' = [menu EXCEPT ![p] = m] /\ menus' = menus \cup {m}
        /\ pictured \subseteq pictured' /\ pictured' \subseteq menus' /\ m \in pictured'
        /\ default' \in pictured' \cup {NoMenu} /\ m \notin audit
        /\ \A q \in Publishers \ {p} : menu[q] # m
        /\ served \subseteq served' /\ served' \subseteq Menus
        /\ s = "audit" => m \in served'
    BY <1>1, <1>2, Owned
  <1> HIDE DEF m
  <1>4. menu[p] \in {NoMenu, m}
    BY DEF m
  <1> QED BY <1>1, <1>2, <1>3, <1>4, InvGoesOn

LEMMA InvDelete ==
  ASSUME MenuInv, NEW p \in Publishers, Delete(p)
  PROVE  MenuInv'
  <1>1. Works(p) /\ MenuEnd(p) /\ UNCHANGED <<audit, served>>
    BY DEF Delete, Works
  <1>2. CASE /\ menus' = menus \ {menu[p]} /\ pictured' = pictured \ {menu[p]}
             /\ default' = IF default = menu[p] THEN NoMenu ELSE default
             /\ UNCHANGED excused
    BY <1>1, <1>2, Owned, InvEnded
  <1>3. CASE excused' = excused \cup {menu[p]} /\ UNCHANGED <<menus, pictured, default>>
    BY <1>1, <1>3, Owned, InvEnded
  <1> QED BY <1>2, <1>3 DEF Delete

LEMMA InvRecord ==
  ASSUME MenuInv, NEW p \in Publishers, RecordPublish(p)
  PROVE  MenuInv'
  <1>1. /\ Works(p) /\ step[p] = "audit" /\ MenuEnd(p)
        /\ audit' \in {audit, audit \cup {menu[p]}}
        /\ UNCHANGED <<menus, pictured, default, served, excused>>
    BY DEF RecordPublish, Works
  <1> QED BY <1>1, Owned, InvEnded

LEMMA InvStop ==
  ASSUME MenuInv, NEW p \in Publishers, MenuStop(p)
  PROVE  MenuInv'
  <1>1. /\ MenuEnd(p) /\ menus' = menus /\ pictured' = pictured /\ default' = default
        /\ audit' = audit /\ served' = served
        /\ excused' = IF menu[p] = NoMenu THEN excused ELSE excused \cup {menu[p]}
    BY DEF MenuStop, lineVars
  <1>2. /\ menus \subseteq Menus /\ pictured \subseteq menus /\ default \in pictured \cup {NoMenu}
        /\ audit \subseteq pictured /\ served \subseteq Menus /\ excused \subseteq Menus
        /\ menu[p] \in Menus \cup {NoMenu} /\ NoMenu \notin menus
    BY MenuAssumption DEF MenuInv, MenuTypeOK, PublishedMenuLives
  <1>3. /\ excused' \subseteq Menus /\ excused \subseteq excused'
        /\ \A m \in menus : m = menu[p] => m \in excused'
    BY <1>1, <1>2
  <1> QED BY <1>1, <1>2, <1>3, InvEnded

LEMMA MenuInvNext == MenuInv /\ [MenuNext]_menuVars => MenuInv'
  <1> SUFFICES ASSUME MenuInv, [MenuNext]_menuVars PROVE MenuInv'
    OBVIOUS
  <1>1. CASE MenuNext
    BY <1>1, InvScan, InvScanEnds, InvCreate, InvUpload, InvSetDefault, InvDelete, InvRecord,
       InvStop DEF MenuNext
  <1>2. CASE UNCHANGED menuVars
    BY <1>2 DEF menuVars, lineVars, MenuInv, MenuTypeOK, WorkIsExclusive, Works, ScansAreFresh,
                NoMenuForgotten, PublishedMenuLives, ScanInImage
  <1> QED BY <1>1, <1>2

-----------------------------------------------------------------------------

\* In every behaviour of the publishers the invariant holds.
THEOREM MenuInvariant == MenuSpec => []MenuInv
  <1> QED BY MenuInvInit, MenuInvNext, PTL DEF MenuSpec

\* A menu no user ever saw stays at LINE only if LINE or a stop kept its publisher from
\* deleting it, however many publishers work at a time.
THEOREM FailedMenusAreDeleted == MenuSpec => []NoMenuForgotten
  <1>1. MenuInv => NoMenuForgotten
    BY DEF MenuInv
  <1> QED BY <1>1, MenuInvariant, PTL

\* The default menu and the recorded ones have their image: no clean-up removes what its
\* own publisher, or another one, has published.
THEOREM PublishedMenusLive == MenuSpec => []PublishedMenuLives
  <1>1. MenuInv => PublishedMenuLives
    BY DEF MenuInv
  <1> QED BY <1>1, MenuInvariant, PTL

\* The scan for the size of a picture reads inside of the image, whatever its length is.
THEOREM ScansStayInImages == MenuSpec => []ScanInImage
  <1>1. MenuInv => ScanInImage
    BY DEF MenuInv
  <1> QED BY <1>1, MenuInvariant, PTL

=============================================================================
