-------------------------- MODULE GuestWalkProofs --------------------------
(***************************************************************************)
(* The page-table walk, for every number of stores by the rest of the      *)
(* guest and every paging mode: the walk implements PageTable, and a       *)
(* translation that is used was permitted and recorded.                    *)
(***************************************************************************)
EXTENDS GuestWalk, TLAPS

(* The levels are the naturals up to the root's, and only the root of PAE  *)
(* has no flags.                                                           *)
LEMMA LevelFacts == /\ Top \in {1, 2, 3}
                    /\ Levels = 0 .. Top
                    /\ 0 \in Levels /\ Top \in Levels
                    /\ HasFlags(0)
  BY DEF Top, Levels, HasFlags

(* A store or a bit that is set leaves an entry an entry.                  *)
LEMMA EntryFacts ==
    /\ Full \in Entry
    /\ \A e \in Entry : /\ Changed(e) \subseteq Entry
                        /\ [e EXCEPT !.a = TRUE] \in Entry
                        /\ [e EXCEPT !.m = TRUE] \in Entry
  <1>1. Full \in Entry
    BY DEF Full, Entry
  <1>2. ASSUME NEW e \in Entry
        PROVE  /\ Changed(e) \subseteq Entry
               /\ [e EXCEPT !.a = TRUE] \in Entry
               /\ [e EXCEPT !.m = TRUE] \in Entry
    BY ZenonT(60) DEF Changed, Entry
  <1> QED
    BY <1>1, <1>2

-----------------------------------------------------------------------------

LEMMA WalkFacts ==
    /\ \A p \in {"read", "write"}, u \in BOOLEAN : Begin(p, u) \in Walks
    /\ \A w \in Walks :
          /\ w.prot \in {"read", "write"} /\ w.user \in BOOLEAN /\ w.level \in Levels
          /\ w.pte \in Entry
          /\ \A how \in {"dirty", "ok", "fault", "error"} : [w EXCEPT !.pc = how] \in Walks
          /\ \A l \in Levels : [w EXCEPT !.level = l, !.pc = "read"] \in Walks
  <1>1. ASSUME NEW p \in {"read", "write"}, NEW u \in BOOLEAN
        PROVE  Begin(p, u) \in Walks
    BY EntryFacts, LevelFacts DEF Begin, Walks
  <1>2. ASSUME NEW w \in Walks
        PROVE  /\ w.prot \in {"read", "write"} /\ w.user \in BOOLEAN /\ w.level \in Levels
               /\ w.pte \in Entry
               /\ \A how \in {"dirty", "ok", "fault", "error"} : [w EXCEPT !.pc = how] \in Walks
               /\ \A l \in Levels : [w EXCEPT !.level = l, !.pc = "read"] \in Walks
    BY DEF Walks
  <1> QED
    BY <1>1, <1>2

LEMMA TypeInit == Init => TypeOK
  <1> SUFFICES ASSUME Init PROVE TypeOK
    OBVIOUS
  <1> DEFINE S == {Full, [Full EXCEPT !.a = TRUE]}
  <1>1. S \subseteq Entry
    BY EntryFacts
  <1>2. pt \in [Levels -> Entry]
    <2>1. pt \in [Levels -> S]
      BY DEF Init, TableInit
    <2> QED
      BY ONLY <1>1, <2>1
  <1>3. walk \in Walks
    <2>1. PICK p \in {"read", "write"}, u \in BOOLEAN : walk = Begin(p, u)
      BY DEF Init
    <2> QED
      BY <2>1, WalkFacts
  <1>4. held \in [Levels -> SUBSET Entry]
    BY <1>2 DEF Init
  <1> QED
    BY <1>2, <1>3, <1>4 DEF Init, TableInit, TypeOK

LEMMA TypeNext == TypeOK /\ [Next]_vars => TypeOK'
  <1> SUFFICES ASSUME TypeOK, [Next]_vars PROVE TypeOK'
    OBVIOUS
  <1> USE LevelFacts, EntryFacts
  <1>w. walk \in Walks
    BY DEF TypeOK
  <1>f. walk.level \in Levels /\ walk.pte \in Entry
    BY <1>w, WalkFacts
  <1>r. Restart => walk' \in Walks
    BY <1>w, WalkFacts DEF Restart
  <1>d. Down => walk' \in Walks
    <2>1. walk.level # 0 => walk.level - 1 \in Levels
      BY ONLY <1>f, LevelFacts
    <2>2. \A how \in {"dirty", "fault", "error"} : End(how) => walk' \in Walks
      BY ZenonT(60), <1>w, WalkFacts DEF End
    <2>3. walk.level # 0 /\ walk' = [walk EXCEPT !.level = walk.level - 1, !.pc = "read"]
             => walk' \in Walks
      BY ZenonT(60), <1>w, <2>1, WalkFacts
    <2> QED
      BY <2>2, <2>3 DEF Down
  <1>c. ASSUME NEW e \in Entry, Cmpset(walk.level, e)
        PROVE  pt' \in [Levels -> Entry] /\ held' \in [Levels -> SUBSET Entry]
    BY <1>c, <1>f DEF TypeOK, Cmpset
  <1>1. CASE Read
    <2> DEFINE x == [level |-> walk.level, pte |-> pt[walk.level]]
    <2>1. pt[walk.level] \in Entry /\ x \in [level : Levels, pte : Entry]
      BY <1>f DEF TypeOK
    <2>2. PICK q \in {"fault", "accessed"} :
             walk' = [walk EXCEPT !.pte = pt[walk.level], !.path = @ \cup {x}, !.pc = q]
      BY <1>1 DEF Read
    <2>3. walk' \in Walks
      BY ONLY <1>w, <2>1, <2>2 DEF Walks
    <2> QED
      BY <1>1, <2>3 DEF TypeOK, Read
  <1>2. CASE SetAccessed
    <2>1. [walk.pte EXCEPT !.a = TRUE] \in Entry
      BY <1>f
    <2> QED
      BY <1>2, <1>r, <1>d, <1>c, <2>1 DEF TypeOK, SetAccessed
  <1>3. CASE SetDirty
    <2>1. [walk.pte EXCEPT !.m = TRUE] \in Entry
      BY <1>f
    <2>2. End("ok") => walk' \in Walks
      BY <1>w, WalkFacts DEF End
    <2> QED
      BY <1>3, <1>r, <1>c, <2>1, <2>2 DEF TypeOK, SetDirty
  <1>4. CASE Guest
    <2>1. PICK l \in Levels : Stored(l) /\ held' = [held EXCEPT ![l] = @ \cup {pt'[l]}]
      BY <1>4 DEF Guest
    <2>2. PICK e \in Changed(pt[l]) : pt' = [pt EXCEPT ![l] = e]
      BY <2>1 DEF Stored
    <2>3. e \in Entry
      BY <2>2 DEF TypeOK
    <2> QED
      BY <1>4, <2>1, <2>2, <2>3 DEF TypeOK, Guest, Stored
  <1>5. CASE UNCHANGED vars
    BY <1>5 DEF TypeOK, vars
  <1> QED
    BY <1>1, <1>2, <1>3, <1>4, <1>5 DEF Next, Walker, Ended

-----------------------------------------------------------------------------

(* What was recorded stays recorded: held only grows.                      *)
LEMMA RecordedStays ==
    ASSUME TypeOK, NEW p \in [level : Levels, pte : Entry], NEW bit \in {"a", "m"},
           Recorded(p, bit), held[p.level] \subseteq held'[p.level]
    PROVE  Recorded(p, bit)'
  BY DEF Recorded

(* An entry that was read with the bit set, or to which it was added, is   *)
(* recorded.                                                               *)
LEMMA RecordedNow ==
    ASSUME NEW p \in [level : Levels, pte : Entry], NEW S \in SUBSET Entry,
           NEW bit \in {"a", "m"},
           \/ p.pte \in S /\ p.pte[bit]
           \/ [p.pte EXCEPT ![bit] = TRUE] \in S
    PROVE  \E e \in S : e[bit] /\ [e EXCEPT !.a = p.pte.a, !.m = p.pte.m] = p.pte
  <1>1. CASE p.pte \in S /\ p.pte[bit]
    BY <1>1 DEF Entry
  <1>2. CASE [p.pte EXCEPT ![bit] = TRUE] \in S
    <2> DEFINE e == [p.pte EXCEPT ![bit] = TRUE]
    <2>1. e[bit] /\ [e EXCEPT !.a = p.pte.a, !.m = p.pte.m] = p.pte
      BY DEF Entry
    <2> QED
      BY <1>2, <2>1
  <1> QED
    BY <1>1, <1>2

(* The history grows, and every entry of the table is in it.               *)
LEMMA HeldNext ==
    ASSUME TypeOK, \A l \in Levels : pt[l] \in held[l], [Next]_vars
    PROVE  /\ \A l \in Levels : held[l] \subseteq held'[l]
           /\ \A l \in Levels : pt'[l] \in held'[l]
  <1>w. walk.level \in Levels
    BY WalkFacts DEF TypeOK
  <1>t. pt \in [Levels -> Entry] /\ held \in [Levels -> SUBSET Entry]
    BY DEF TypeOK
  <1>u. UNCHANGED <<pt, held>> => /\ \A l \in Levels : held[l] \subseteq held'[l]
                                  /\ \A l \in Levels : pt'[l] \in held'[l]
    OBVIOUS
  <1>c. ASSUME NEW l \in Levels, NEW e, Cmpset(l, e)
        PROVE  /\ \A k \in Levels : held[k] \subseteq held'[k]
               /\ \A k \in Levels : pt'[k] \in held'[k]
    BY <1>t, <1>c DEF Cmpset
  <1>1. CASE Read
    BY <1>1, <1>u DEF Read
  <1>2. CASE SetAccessed
    BY <1>2, <1>u, <1>c, <1>w DEF SetAccessed
  <1>3. CASE SetDirty
    BY <1>3, <1>u, <1>c, <1>w DEF SetDirty
  <1>4. CASE Guest
    <2>1. PICK l \in Levels : Stored(l) /\ held' = [held EXCEPT ![l] = @ \cup {pt'[l]}]
      BY <1>4 DEF Guest
    <2>2. PICK e \in Changed(pt[l]) : pt' = [pt EXCEPT ![l] = e]
      BY <2>1 DEF Stored
    <2> QED
      BY <1>t, <2>1, <2>2
  <1>5. CASE UNCHANGED vars
    BY <1>5, <1>u DEF vars
  <1> QED
    BY <1>1, <1>2, <1>3, <1>4, <1>5 DEF Next, Walker, Ended

(* What holds of the path of a walk that has not been refused.             *)
LEMMA PathNext == IInv /\ [Next]_vars => PathInv'
  <1> SUFFICES ASSUME IInv, [Next]_vars PROVE PathInv'
    OBVIOUS
  <1> DEFINE x == [level |-> walk.level, pte |-> walk.pte]
             P == [level : Levels, pte : Entry]
  <1>t. TypeOK /\ PathInv
    BY DEF IInv
  <1>w. walk \in Walks
    BY <1>t DEF TypeOK
  <1>l. /\ walk.level \in Levels /\ walk.pte \in Entry
        /\ \A l \in Levels : l \in Int
    <2>1. walk.level \in Levels /\ walk.pte \in Entry
      BY <1>w, WalkFacts
    <2>2. \A l \in Levels : l \in Int
      BY ONLY LevelFacts
    <2> QED
      BY <2>1, <2>2
  <1>p. walk.path \subseteq P
    BY <1>w DEF Walks
  <1>pl. \A p \in P : p.level \in Levels /\ p.pte \in Entry
    OBVIOUS
  <1>i. /\ \A l \in Levels : pt[l] \in held[l]
        /\ walk.pc \in {"accessed", "dirty"} => x \in walk.path
        /\ walk.pc \in {"dirty", "ok"} => HasFlags(walk.level)
        /\ \A p \in walk.path :
             /\ p.pte \in held[p.level]
             /\ walk.pc \notin {"fault", "error"} => Permits(p)
             /\ p.level = walk.level => walk.pc # "read" /\ p.pte = walk.pte
             /\ p.level >= walk.level
             /\ HasFlags(p.level) /\ (p.level > walk.level \/ walk.pc \in {"dirty", "ok"})
                   => Recorded(p, "a")
             /\ walk.pc = "ok" /\ walk.prot = "write" /\ p.level = walk.level
                   => Recorded(p, "m")
    BY <1>t DEF PathInv
  <1>g. \A p \in walk.path : /\ p.level \in Int /\ walk.level \in Int
                            /\ (p.level = walk.level \/ p.level > walk.level)
    <2> SUFFICES ASSUME NEW p \in walk.path
                 PROVE  /\ p.level \in Int /\ walk.level \in Int
                        /\ (p.level = walk.level \/ p.level > walk.level)
      OBVIOUS
    <2>1. p.level \in Int /\ walk.level \in Int
      BY <1>p, <1>pl, <1>l
    <2>2. p.level >= walk.level
      BY <1>i
    <2> QED
      BY ONLY <2>1, <2>2
  <1>h. /\ \A l \in Levels : held[l] \subseteq held'[l]
        /\ \A l \in Levels : pt'[l] \in held'[l]
    BY <1>t, <1>i, HeldNext
  <1>n. held' \in [Levels -> SUBSET Entry]
    BY <1>t, TypeNext DEF TypeOK
  <1>s. \A p \in walk.path, bit \in {"a", "m"} : Recorded(p, bit) => Recorded(p, bit)'
    <2> SUFFICES ASSUME NEW p \in walk.path, NEW bit \in {"a", "m"}, Recorded(p, bit)
                 PROVE  Recorded(p, bit)'
      OBVIOUS
    <2>1. p \in P /\ held[p.level] \subseteq held'[p.level]
      BY <1>p, <1>pl, <1>h
    <2> QED
      BY <1>t, <2>1, RecordedStays
  <1>q. \A p \in walk.path : p.pte \in held'[p.level]
    BY <1>i, <1>h, <1>p, <1>pl
  \* An entry with the bit, or one to which it has been added.
  <1>b. ASSUME NEW p \in walk.path, NEW bit \in {"a", "m"},
               p.pte[bit] \/ [p.pte EXCEPT ![bit] = TRUE] \in held'[p.level]
        PROVE  Recorded(p, bit)'
    <2>1. p \in P /\ held'[p.level] \in SUBSET Entry
      BY <1>p, <1>pl, <1>n
    <2>2. \/ p.pte \in held'[p.level] /\ p.pte[bit]
          \/ [p.pte EXCEPT ![bit] = TRUE] \in held'[p.level]
      BY <1>b, <1>q
    <2>3. \E e \in held'[p.level] :
              e[bit] /\ [e EXCEPT !.a = p.pte.a, !.m = p.pte.m] = p.pte
      BY ZenonT(60), <2>1, <2>2, RecordedNow
    <2> QED
      BY <2>3 DEF Recorded
  <1>c. ASSUME NEW e, Cmpset(walk.level, e)
        PROVE  e \in held'[walk.level]
    BY <1>c, <1>t, <1>l DEF Cmpset, TypeOK
  <1>r. Restart => PathInv'
    <2> SUFFICES ASSUME Restart PROVE PathInv'
      OBVIOUS
    <2>1. walk'.path = {} /\ walk'.pc = "read"
      BY DEF Restart, Begin
    <2> QED
      BY <2>1, <1>h DEF PathInv
  <1>1. CASE Read
    <2> DEFINE e == pt[walk.level]
               y == [level |-> walk.level, pte |-> e]
               q == IF Denied(e) THEN "fault" ELSE "accessed"
    <2>1. walk.pc = "read" /\ UNCHANGED <<pt, held>>
      BY <1>1 DEF Read
    <2>2. walk' = [walk EXCEPT !.pte = e, !.path = @ \cup {y}, !.pc = q]
      BY <1>1 DEF Read
    <2> HIDE DEF q
    <2>3. /\ walk'.pc = q /\ walk'.level = walk.level /\ walk'.pte = e
          /\ walk'.path = walk.path \cup {y}
          /\ walk'.prot = walk.prot /\ walk'.user = walk.user
      BY <1>w, <2>2 DEF Walks
    <2>4. q \in {"fault", "accessed"} /\ (q # "fault" => ~Denied(e))
      BY DEF q
    <2>6. ASSUME NEW p, p.level = walk.level, p.pte = e, q # "fault"
          PROVE  Permits(p)'
      <3> HIDE DEF y, e
      <3>1. ~Denied(e)
        BY <2>4, <2>6
      <3>2. /\ e.v
            /\ HasFlags(walk.level) /\ walk.prot = "write" => e.rw
            /\ HasFlags(walk.level) /\ walk.user => e.u
        BY <3>1, Zenon DEF Denied
      <3> QED
        BY <3>2, <2>3, <2>6, Zenon DEF Permits
    <2>7. \A p \in walk.path : Permits(p) => Permits(p)'
      BY <2>3 DEF Permits
    <2>8. \A p \in walk.path : p.level > walk.level
      <3>1. \A p \in walk.path : p.level # walk.level
        BY <1>i, <2>1
      <3> QED
        BY <3>1, <1>g
    <2>9. ASSUME NEW p \in walk'.path
          PROVE  /\ p.pte \in held'[p.level]
                 /\ walk'.pc \notin {"fault", "error"} => Permits(p)'
                 /\ p.level = walk'.level => walk'.pc # "read" /\ p.pte = walk'.pte
                 /\ p.level >= walk'.level
                 /\ HasFlags(p.level) /\ (p.level > walk'.level \/ walk'.pc \in {"dirty", "ok"})
                       => Recorded(p, "a")'
                 /\ walk'.pc = "ok" /\ walk'.prot = "write" /\ p.level = walk'.level
                       => Recorded(p, "m")'
      <3>1. CASE p = y
        <4>1. p.level = walk.level /\ p.pte = e
          BY <3>1
        <4>2. p.pte \in held'[p.level]
          BY <4>1, <1>l, <1>i, <2>1
        <4>3. walk'.pc \notin {"fault", "error"} => Permits(p)'
          BY <4>1, <2>3, <2>6
        <4>4. p.level \in Int
          BY <4>1, <1>l
        <4>5. walk'.level = p.level /\ walk'.pte = p.pte
          BY <4>1, <2>3
        <4>6. walk'.pc \in {"fault", "accessed"}
          BY <2>3, <2>4
        <4> HIDE DEF y, e
        <4> QED
          BY ONLY <4>2, <4>3, <4>4, <4>5, <4>6
      <3>2. CASE p \in walk.path
        <4>1. p.level \in Int /\ p.level > walk.level
          BY <3>2, <2>8, <1>p, <1>pl, <1>l
        <4>2. HasFlags(p.level) => Recorded(p, "a")'
          BY <3>2, <4>1, <1>i, <1>s
        <4>3. Permits(p)'
          BY <3>2, <1>i, <2>1, <2>7
        <4>4. p.pte \in held'[p.level]
          BY <3>2, <1>q
        <4>5. walk'.level = walk.level /\ walk.level \in Int
          BY <2>3, <1>l
        <4>6. walk'.pc \in {"fault", "accessed"}
          BY <2>3, <2>4
        <4> QED
          BY ONLY <4>1, <4>2, <4>3, <4>4, <4>5, <4>6
      <3> QED
        BY <3>1, <3>2, <2>3
    <2>10. /\ walk'.pc \in {"accessed", "dirty"} =>
                 [level |-> walk'.level, pte |-> walk'.pte] \in walk'.path
           /\ ~(walk'.pc \in {"dirty", "ok"})
      BY <2>3, <2>4
    <2> QED
      BY <1>h, <2>9, <2>10 DEF PathInv
  \* A walk that goes on with its path recorded.
  <1>d. ASSUME walk.pc = "accessed", Down,
               \A p \in walk.path : HasFlags(p.level) => Recorded(p, "a")'
        PROVE  PathInv'
    <2>1. /\ walk'.pte = walk.pte /\ walk'.path = walk.path
          /\ walk'.prot = walk.prot /\ walk'.user = walk.user
          /\ \/ walk'.level = walk.level /\ walk'.pc \in {"fault", "error"}
             \/ walk'.level = walk.level /\ walk'.pc = "dirty" /\ HasFlags(walk.level)
             \/ walk'.level = walk.level - 1 /\ walk'.pc = "read"
      BY <1>w, <1>d, LevelFacts DEF Down, End, Walks
    <2>2. \A p \in walk.path : Permits(p)'
      BY <1>i, <1>d, <2>1 DEF Permits
    <2>3. ASSUME NEW p \in walk'.path
          PROVE  /\ p.pte \in held'[p.level]
                 /\ walk'.pc \notin {"fault", "error"} => Permits(p)'
                 /\ p.level = walk'.level => walk'.pc # "read" /\ p.pte = walk'.pte
                 /\ p.level >= walk'.level
                 /\ HasFlags(p.level) /\ (p.level > walk'.level \/ walk'.pc \in {"dirty", "ok"})
                       => Recorded(p, "a")'
                 /\ walk'.pc = "ok" /\ walk'.prot = "write" /\ p.level = walk'.level
                       => Recorded(p, "m")'
      <3>1. p \in walk.path /\ p.level \in Int /\ p.level >= walk.level
        BY <2>1, <2>3, <1>i, <1>p, <1>pl, <1>l
      <3>2. p.level = walk.level => p.pte = walk.pte
        BY <3>1, <1>i
      <3>3. walk.level \in Int
        BY <1>l
      <3>4. /\ p.pte \in held'[p.level] /\ Permits(p)'
            /\ HasFlags(p.level) => Recorded(p, "a")'
        BY <3>1, <1>q, <1>d, <2>2
      <3> QED
        BY ONLY <3>1, <3>2, <3>3, <3>4, <2>1
    <2>4. /\ walk'.pc \in {"accessed", "dirty"} =>
                 [level |-> walk'.level, pte |-> walk'.pte] \in walk'.path
          /\ walk'.pc \in {"dirty", "ok"} => HasFlags(walk'.level)
      BY <1>i, <1>d, <2>1
    <2> QED
      BY <1>h, <2>3, <2>4 DEF PathInv
  <1>2. CASE SetAccessed
    <2>1. walk.pc = "accessed"
      BY <1>2 DEF SetAccessed
    <2>2. CASE walk.pte.a \/ ~HasFlags(walk.level)
      <3>1. Down
        BY <1>2, <2>2 DEF SetAccessed
      <3>2. ASSUME NEW p \in walk.path, HasFlags(p.level)
            PROVE  Recorded(p, "a")'
        <4>1. CASE p.level = walk.level
          BY <4>1, <3>2, <2>2, <1>i, <1>b
        <4>2. CASE p.level > walk.level
          BY <4>2, <3>2, <1>i, <1>s
        <4> QED
          BY <4>1, <4>2, <1>g
      <3> QED
        BY <3>1, <3>2, <2>1, <1>d
    <2>3. CASE ~(walk.pte.a \/ ~HasFlags(walk.level)) /\ pt[walk.level] = walk.pte
      <3>1. Down /\ Cmpset(walk.level, [walk.pte EXCEPT !.a = TRUE])
        BY <1>2, <2>3 DEF SetAccessed
      <3>2. [walk.pte EXCEPT !["a"] = TRUE] \in held'[walk.level]
        BY <3>1, <1>c
      <3>3. ASSUME NEW p \in walk.path, HasFlags(p.level)
            PROVE  Recorded(p, "a")'
        <4>1. CASE p.level = walk.level
          <5>1. p.pte = walk.pte
            BY <4>1, <1>i
          <5>2. [p.pte EXCEPT !["a"] = TRUE] \in held'[p.level]
            BY <5>1, <4>1, <3>2
          <5> QED
            BY <5>2, <1>b
        <4>2. CASE p.level > walk.level
          BY <4>2, <3>3, <1>i, <1>s
        <4> QED
          BY <4>1, <4>2, <1>g
      <3> QED
        BY <3>1, <3>3, <2>1, <1>d
    <2>4. CASE ~(walk.pte.a \/ ~HasFlags(walk.level)) /\ pt[walk.level] # walk.pte
      BY <1>2, <2>4, <1>r DEF SetAccessed
    <2> QED
      BY <2>2, <2>3, <2>4
  <1>3. CASE SetDirty
    <2>1. walk.pc = "dirty" /\ x \in walk.path /\ HasFlags(walk.level)
      BY <1>3, <1>i DEF SetDirty
    <2>2. ASSUME End("ok"),
                 walk.prot = "write" =>
                     walk.pte.m \/ [walk.pte EXCEPT !["m"] = TRUE] \in held'[walk.level]
          PROVE  PathInv'
      <3>1. /\ walk'.pc = "ok" /\ walk'.level = walk.level /\ walk'.pte = walk.pte
            /\ walk'.path = walk.path
            /\ walk'.prot = walk.prot /\ walk'.user = walk.user
        BY <1>w, <2>2 DEF End, Walks
      <3>2. \A p \in walk.path : Permits(p)'
        BY <1>i, <2>1, <3>1 DEF Permits
      <3>3. ASSUME NEW p \in walk'.path
            PROVE  /\ p.pte \in held'[p.level]
                   /\ walk'.pc \notin {"fault", "error"} => Permits(p)'
                   /\ p.level = walk'.level => walk'.pc # "read" /\ p.pte = walk'.pte
                   /\ p.level >= walk'.level
                   /\ HasFlags(p.level) => Recorded(p, "a")'
                   /\ walk'.prot = "write" /\ p.level = walk'.level => Recorded(p, "m")'
        <4>1. p \in walk.path
          BY <3>1
        <4>2. HasFlags(p.level) => Recorded(p, "a")'
          BY <4>1, <2>1, <1>i, <1>s
        <4>3. ASSUME walk.prot = "write", p.level = walk.level
              PROVE  Recorded(p, "m")'
          <5>1. p.pte = walk.pte
            BY <4>1, <4>3, <1>i
          <5>2. p.pte["m"] \/ [p.pte EXCEPT !["m"] = TRUE] \in held'[p.level]
            BY <5>1, <4>3, <2>2
          <5> QED
            BY <4>1, <5>2, <1>b
        <4>4. /\ p.level = walk.level => p.pte = walk.pte
              /\ p.level >= walk.level
          BY <4>1, <1>i
        <4> QED
          BY <4>1, <4>2, <4>3, <4>4, <3>1, <3>2, <1>q
      <3> QED
        BY <1>h, <2>1, <3>1, <3>3 DEF PathInv
    <2>3. CASE walk.prot = "read" \/ walk.pte.m
      <3>1. End("ok")
        BY <1>3, <2>3 DEF SetDirty
      <3> QED
        BY <3>1, <2>2, <2>3
    <2>4. CASE ~(walk.prot = "read" \/ walk.pte.m) /\ pt[walk.level] = walk.pte
      <3>1. End("ok") /\ Cmpset(walk.level, [walk.pte EXCEPT !.m = TRUE])
        BY <1>3, <2>4 DEF SetDirty
      <3>2. [walk.pte EXCEPT !["m"] = TRUE] \in held'[walk.level]
        BY <3>1, <1>c
      <3> QED
        BY <3>1, <3>2, <2>2
    <2>5. CASE ~(walk.prot = "read" \/ walk.pte.m) /\ pt[walk.level] # walk.pte
      BY <1>3, <2>5, <1>r DEF SetDirty
    <2> QED
      BY <2>3, <2>4, <2>5
  <1>4. ASSUME UNCHANGED walk PROVE PathInv'
    <2>1. \A p \in walk.path : Permits(p) => Permits(p)'
      BY <1>4 DEF Permits
    <2> QED
      BY <1>4, <1>i, <1>h, <1>q, <1>s, <2>1 DEF PathInv
  <1> QED
    BY <1>1, <1>2, <1>3, <1>4 DEF Next, Walker, Guest, Ended, vars

-----------------------------------------------------------------------------

LEMMA Invariant == Spec => []IInv
  <1>1. Init => IInv
    <2> SUFFICES ASSUME Init PROVE PathInv
      BY TypeInit DEF IInv
    <2>1. walk.path = {} /\ walk.pc = "read"
      BY DEF Init, Begin
    <2>2. \A l \in Levels : pt[l] \in held[l]
      BY DEF Init
    <2> QED
      BY <2>1, <2>2 DEF PathInv
  <1>2. IInv /\ [Next]_vars => IInv'
    BY TypeNext, PathNext DEF IInv
  <1> QED
    BY <1>1, <1>2, PTL DEF Spec

(* Every value vm_gla2gpa() reads from a page table, keeps or stores is of *)
(* its type, in each paging mode.                                          *)
THEOREM TypeCorrect == Spec => []TypeOK
  BY Invariant, PTL DEF IInv

(* A translation that vm_gla2gpa() returns was permitted at every level    *)
(* and has its accessed and dirty bits recorded, whatever the other vcpus  *)
(* store meanwhile and however often.                                      *)
THEOREM TranslationCorrect == Spec => []TranslationRecorded
  <1>1. IInv => TranslationRecorded
    <2> SUFFICES ASSUME IInv, walk.pc = "ok", NEW p \in walk.path
                 PROVE  /\ Permits(p)
                        /\ HasFlags(p.level) => Recorded(p, "a")
                        /\ walk.prot = "write" /\ p.level = walk.level => Recorded(p, "m")
      BY DEF TranslationRecorded
    <2> QED
      BY DEF IInv, PathInv
  <1> QED
    BY <1>1, Invariant, PTL

(* The walk of vm_gla2gpa() implements the page table: its compare-and-set *)
(* writes nothing but the accessed bit of a present entry and the dirty    *)
(* bit of a writable one, and never undoes a store of another vcpu.        *)
THEOREM WalkImplementsTable == Spec => TableSpec
  <1>1. Init => TableInit
    BY DEF Init
  <1>2. IInv /\ [Next]_vars => [TableNext]_<<pt, changes>>
    <2> SUFFICES ASSUME IInv, [Next]_vars, ~UNCHANGED <<pt, changes>>
                 PROVE  TableNext
      OBVIOUS
    <2> DEFINE l == walk.level
               x == [level |-> walk.level, pte |-> walk.pte]
    <2>1. l \in Levels /\ walk.prot \in {"read", "write"}
      BY WalkFacts DEF IInv, TypeOK
    <2>2. CASE SetAccessed
      <3>1. /\ HasFlags(l) /\ pt[l] = walk.pte /\ walk.pc = "accessed"
            /\ pt' = [pt EXCEPT ![l] = [walk.pte EXCEPT !.a = TRUE]]
            /\ UNCHANGED changes
        BY <2>2 DEF SetAccessed, Cmpset
      <3>2. x \in walk.path /\ Permits(x)
        BY <3>1 DEF IInv, PathInv
      <3>3. pt[l].v
        BY <3>1, <3>2 DEF Permits
      <3> QED
        BY <2>1, <3>1, <3>3 DEF TableNext, Accessed
    <2>3. CASE SetDirty
      <3>1. /\ walk.prot # "read" /\ pt[l] = walk.pte /\ walk.pc = "dirty"
            /\ pt' = [pt EXCEPT ![l] = [walk.pte EXCEPT !.m = TRUE]]
            /\ UNCHANGED changes
        BY <2>3 DEF SetDirty, Cmpset
      <3>2. x \in walk.path /\ Permits(x) /\ HasFlags(l)
        BY <3>1 DEF IInv, PathInv
      <3>3. pt[l].v /\ pt[l].rw
        BY <2>1, <3>1, <3>2 DEF Permits
      <3> QED
        BY <2>1, <3>1, <3>2, <3>3 DEF TableNext, Dirtied
    <2>4. CASE Guest
      BY <2>4 DEF Guest, TableNext
    <2> QED
      BY <2>2, <2>3, <2>4 DEF Next, Walker, Read, Ended, vars
  <1> QED
    BY <1>1, <1>2, Invariant, PTL DEF Spec, TableSpec
=============================================================================
