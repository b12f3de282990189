--------------------------- MODULE TreeCopy_proofs ---------------------------
(* The double collect of TreeCopy, for every set of paths, modes and         *)
(* contents and any number of writes.                                        *)
EXTENDS TreeCopy, TLAPS

----------------------------------------------------------------------------
(* The inductive invariant.                                                  *)

RootNames == <<"names", Root>>

\* The cells the first scan has read.
ReadBefore == {c \in Cell : got["before"][c] # Unread}

TypeInv ==
    /\ tree \in [Path -> Entry \cup {NoEntry}]
    /\ pc \in Walk \cup {"accepted", "refused"}
    /\ todo \subseteq Cell
    /\ got \in [Walk -> [Cell -> Value \cup {Unread}]]
    /\ past \in [Cell -> SUBSET (Value \cup {Absent})]
    /\ repeated \in BOOLEAN

\* The walks are made one after the other.
OrderInv ==
    /\ pc = "before" => got["copy"] = Nothing
    /\ pc \in {"before", "copy"} => got["after"] = Nothing

\* A value that was lost does not come back unnoticed.
PastInv == ~repeated => \A c \in Cell : Holds(tree, c) \notin past[c]

\* What the first scan has read and is no more has been lost: up to its end,
\* by now; afterwards, by then.
BeforeInv ==
    \A c \in ReadBefore :
        IF pc = "before"
        THEN got["before"][c] = Holds(tree, c) \/ got["before"][c] \in past[c]
        ELSE pc \in {"copy", "after"} =>
                 got["before"][c] = turn[c] \/ got["before"][c] \in past[c]

\* What was there at the turn and is no more has been lost.
TurnInv ==
    pc \in {"copy", "after"} =>
        \A c \in Cell : /\ turn[c] = Holds(tree, c) \/ turn[c] \in past[c]
                        /\ got["copy"][c] \notin {Unread, turn[c]} =>
                               turn[c] \in past[c]

\* Where the second scan reads what the first has read, nothing was changed in
\* between.
AfterInv ==
    pc \in {"after", "accepted"} /\ ~repeated =>
        \A c \in Cell :
            got["after"][c] # Unread /\ got["after"][c] = got["before"][c] =>
                /\ got["before"][c] = turn[c]
                /\ got["copy"][c] \in {Unread, turn[c]}

\* The first scan leaves out nothing that it has seen a name or an entry of.
ClosedInv ==
    /\ pc = "before" =>
           /\ RootNames \in ReadBefore \cup todo
           /\ \A c \in ReadBefore :
                  Opens(c, got["before"][c]) \subseteq ReadBefore \cup todo
    /\ pc \in {"copy", "after"} =>
           /\ RootNames \in ReadBefore
           /\ \A c \in ReadBefore : Opens(c, got["before"][c]) \subseteq ReadBefore

\* The copy leaves the cells the first scan has read only where it has found
\* something else than the first scan.
Strays == \E c \in ReadBefore : got["copy"][c] \notin {Unread, got["before"][c]}
CopyInv ==
    /\ pc = "copy" => Strays \/ todo \subseteq ReadBefore
    /\ pc \in {"copy", "after", "accepted"} =>
           Strays \/ \A c \in Cell : got["copy"][c] # Unread => c \in ReadBefore

AcceptInv == pc = "accepted" => got["after"] = got["before"]

\* No walk reads a cell twice.
OnceInv == pc \in Walk => \A c \in todo : got[pc][c] = Unread

IInv ==
    /\ TypeInv /\ OrderInv /\ PastInv /\ BeforeInv /\ TurnInv /\ AfterInv
    /\ ClosedInv /\ CopyInv /\ AcceptInv /\ OnceInv

----------------------------------------------------------------------------
(* Cells and values.                                                         *)

LEMMA RootCell == RootNames \in Cell
  BY DEF Cell, RootNames

LEMMA HoldsType ==
    ASSUME NEW t \in [Path -> Entry \cup {NoEntry}], NEW c \in Cell
    PROVE  Holds(t, c) \in Value \cup {Absent}
  <1>1. CASE c \in {"names"} \X (Path \cup {Root})
    <2>1. c[1] = "names" /\ c[2] \in Path \cup {Root}
      BY <1>1
    <2>2. \A S \in SUBSET Path : S \in Listing
      <3> SUFFICES ASSUME NEW S \in SUBSET Path PROVE S \in Listing
        OBVIOUS
      <3>1. S = Path \ (Path \ S)
        OBVIOUS
      <3>2. QED
        BY <3>1 DEF Listing
    <2>3. Holds(t, c) \in (SUBSET Path) \cup {Absent}
      BY <2>1 DEF Holds
    <2>4. QED
      BY <2>2, <2>3 DEF Value
  <1>2. CASE c \in {"stat", "data"} \X Path
    <2>1. c[1] \in {"stat", "data"} /\ c[2] \in Path
      BY <1>2
    <2>2. t[c[2]].stat \in DirMode \cup FileMode \cup {Absent}
              /\ t[c[2]].data \in Data \cup {Absent}
      BY <2>1 DEF Entry, NoEntry
    <2>3. QED
      BY <2>1, <2>2 DEF Holds, Value
  <1>3. QED
    BY <1>1, <1>2 DEF Cell

LEMMA OpensType ==
    ASSUME NEW t \in [Path -> Entry \cup {NoEntry}], NEW c \in Cell,
           Holds(t, c) # Absent
    PROVE  Opens(c, Holds(t, c)) \subseteq Cell
  <1>1. CASE c \in {"names"} \X (Path \cup {Root})
    <2>1. c[1] = "names" /\ Holds(t, c) \subseteq Path
      BY <1>1 DEF Holds
    <2>2. QED
      BY <2>1 DEF Opens, Cell
  <1>2. CASE c \in {"stat", "data"} \X Path
    <2>1. c[1] \in {"stat", "data"} /\ c[2] \in Path
      BY <1>2
    <2>2. CASE c[1] = "stat"
      BY <2>1, <2>2 DEF Opens, Cell
    <2>3. CASE c[1] = "data"
      BY <2>3 DEF Opens
    <2>4. QED
      BY <2>1, <2>2, <2>3
  <1>3. QED
    BY <1>1, <1>2 DEF Cell

LEMMA WritesType ==
    ASSUME NEW t \in [Path -> Entry \cup {NoEntry}], NEW u \in Writes(t)
    PROVE  u \in [Path -> Entry \cup {NoEntry}]
  <1>1. \A s \in [Path -> Entry \cup {NoEntry}], p \in Path,
           e \in Entry \cup {NoEntry} :
            Placed(s, p, e) \in [Path -> Entry \cup {NoEntry}]
    BY DEF Placed
  <1>2. QED
    BY <1>1 DEF Writes

----------------------------------------------------------------------------
(* The invariant is inductive.                                               *)

LEMMA IInvInit == Init => IInv
  <1> SUFFICES ASSUME Init PROVE IInv
    OBVIOUS
  <1>1. TypeInv /\ OrderInv
    BY RootCell DEF Init, TypeInv, OrderInv, Walk, Nothing, RootNames
  <1>2. \A w \in Walk, c \in Cell : got[w][c] = Unread
    BY DEF Init, Walk, Nothing
  <1>3. PastInv
    BY DEF Init, PastInv
  <1>4. BeforeInv /\ ClosedInv
    BY <1>2, RootCell
    DEF Init, BeforeInv, ClosedInv, ReadBefore, Walk, RootNames
  <1>5. TurnInv /\ AfterInv /\ CopyInv /\ AcceptInv
    BY DEF Init, TurnInv, AfterInv, CopyInv, AcceptInv
  <1>6. OnceInv
    BY <1>2, RootCell DEF Init, OnceInv, RootNames
  <1>7. QED
    BY <1>1, <1>3, <1>4, <1>5, <1>6 DEF IInv

\* One call of a walk.
LEMMA ReadPreserves ==
    ASSUME IInv, pc \in Walk, NEW c \in todo, Holds(tree, c) # Absent,
           got' = [got EXCEPT ![pc][c] = Holds(tree, c)],
           todo' = {x \in todo \cup Opens(c, Holds(tree, c)) :
                      got'[pc][x] = Unread},
           UNCHANGED <<tree, pc, turn, past, repeated>>
    PROVE  IInv'
  <1> DEFINE v == Holds(tree, c)
  <1>1. c \in Cell /\ v \in Value /\ v # Unread
    BY HoldsType, ValueAssumption DEF IInv, TypeInv
  <1>2. \A w \in Walk, x \in Cell :
            got'[w][x] = IF w = pc /\ x = c THEN v ELSE got[w][x]
    BY <1>1 DEF IInv, TypeInv
  <1>3. got[pc][c] = Unread
    BY DEF IInv, OnceInv
  <1>4. TypeInv'
    <2>1. Opens(c, v) \subseteq Cell
      BY <1>1, OpensType DEF IInv, TypeInv
    <2>2. got' \in [Walk -> [Cell -> Value \cup {Unread}]]
      BY <1>1 DEF IInv, TypeInv
    <2>3. QED
      BY <2>1, <2>2 DEF IInv, TypeInv
  <1>5. \A x \in ReadBefore : got'["before"][x] = got["before"][x]
    BY <1>2, <1>3 DEF Walk, ReadBefore
  <1>6. ReadBefore' = IF pc = "before" THEN ReadBefore \cup {c} ELSE ReadBefore
    BY <1>1, <1>2 DEF Walk, ReadBefore
  <1>7. OrderInv'
    BY DEF IInv, OrderInv, Walk
  <1>8. PastInv'
    BY DEF IInv, PastInv
  <1>9. BeforeInv'
    BY <1>1, <1>2, <1>5, <1>6 DEF IInv, BeforeInv, Walk
  <1>10. TurnInv'
    BY <1>1, <1>2 DEF IInv, TurnInv, Walk
  <1>11. AfterInv'
    <2> SUFFICES ASSUME pc = "after", ~repeated, NEW x \in Cell,
                        got'["after"][x] # Unread,
                        got'["after"][x] = got'["before"][x]
                 PROVE  /\ got'["before"][x] = turn[x]
                        /\ got'["copy"][x] \in {Unread, turn[x]}
      BY DEF AfterInv, Walk
    <2>1. got'["before"][x] = got["before"][x]
              /\ got'["copy"][x] = got["copy"][x]
      BY <1>2 DEF Walk
    <2>2. CASE x = c
      <3>1. got["before"][x] = v /\ x \in ReadBefore
        BY <1>1, <1>2, <2>1, <2>2 DEF Walk, ReadBefore
      <3>2. v \notin past[x]
        BY <2>2 DEF IInv, PastInv
      <3>3. v = turn[x]
        BY <3>1, <3>2 DEF IInv, BeforeInv
      <3>4. got["copy"][x] \in {Unread, turn[x]}
        BY <3>2, <3>3 DEF IInv, TurnInv
      <3>5. QED
        BY <2>1, <3>1, <3>3, <3>4
    <2>3. CASE x # c
      BY <1>2, <2>1, <2>3 DEF IInv, AfterInv, Walk
    <2>4. QED
      BY <2>2, <2>3
  <1>12. ClosedInv'
    <2>1. CASE pc = "before"
      <3>1. got'["before"][c] = v
        BY <1>1, <1>2, <2>1 DEF Walk
      <3>2. ReadBefore \cup todo \cup Opens(c, v) \subseteq ReadBefore' \cup todo'
        <4>1. ReadBefore \cup todo \cup Opens(c, v) \subseteq Cell
          BY <1>1, OpensType DEF IInv, TypeInv, ReadBefore
        <4>2. \A x \in Cell : got'["before"][x] # Unread => x \in ReadBefore'
          BY DEF ReadBefore
        <4>3. ReadBefore \subseteq ReadBefore'
          BY <1>6, <2>1
        <4>4. QED
          BY <2>1, <4>1, <4>2, <4>3
      <3>3. \A x \in ReadBefore' :
                Opens(x, got'["before"][x]) \subseteq ReadBefore' \cup todo'
        BY <1>5, <1>6, <2>1, <3>1, <3>2 DEF IInv, ClosedInv
      <3>4. QED
        BY <2>1, <3>2, <3>3 DEF IInv, ClosedInv
    <2>2. CASE pc # "before"
      BY <1>5, <1>6, <2>2 DEF IInv, ClosedInv, Walk
    <2>3. QED
      BY <2>1, <2>2
  <1>13. CopyInv'
    <2>1. CASE pc = "before"
      BY <2>1 DEF CopyInv
    <2>2. CASE pc = "copy"
      <3>1. ReadBefore' = ReadBefore
        BY <1>6, <2>2
      <3>2. CASE Strays
        <4>1. PICK x \in ReadBefore :
                  got["copy"][x] \notin {Unread, got["before"][x]}
          BY <3>2 DEF Strays
        <4>2. x # c /\ x \in Cell
          BY <1>3, <2>2, <4>1 DEF ReadBefore
        <4>3. got'["copy"][x] = got["copy"][x]
          BY <1>2, <4>2 DEF Walk
        <4>4. Strays'
          BY <1>5, <3>1, <4>1, <4>3 DEF Strays
        <4>5. QED
          BY <4>4 DEF CopyInv
      <3>3. CASE ~Strays
        <4>1. c \in ReadBefore
          BY <2>2, <3>3 DEF IInv, CopyInv
        <4>2. CASE v = got["before"][c]
          <5>1. Opens(c, v) \subseteq ReadBefore
            BY <2>2, <4>1, <4>2 DEF IInv, ClosedInv
          <5>2. todo' \subseteq ReadBefore
            BY <2>2, <3>3, <5>1 DEF IInv, CopyInv
          <5>3. \A x \in Cell : got'["copy"][x] # Unread => x \in ReadBefore
            BY <1>2, <2>2, <3>3, <4>1 DEF IInv, CopyInv, Walk
          <5>4. QED
            BY <3>1, <5>2, <5>3 DEF CopyInv
        <4>3. CASE v # got["before"][c]
          <5>1. got'["copy"][c] = v
            BY <1>1, <1>2, <2>2 DEF Walk
          <5>2. Strays'
            BY <1>1, <1>5, <3>1, <4>1, <4>3, <5>1 DEF Strays
          <5>3. QED
            BY <5>2 DEF CopyInv
        <4>4. QED
          BY <4>2, <4>3
      <3>4. QED
        BY <3>2, <3>3
    <2>3. CASE pc = "after"
      <3>1. ReadBefore' = ReadBefore
        BY <1>6, <2>3
      <3>2. \A x \in Cell : got'["copy"][x] = got["copy"][x]
        BY <1>2, <2>3 DEF Walk
      <3>3. ReadBefore \subseteq Cell
        BY DEF ReadBefore
      <3>4. Strays => Strays'
        BY <1>5, <3>1, <3>2, <3>3 DEF Strays
      <3>5. QED
        BY <2>3, <3>1, <3>2, <3>4 DEF IInv, CopyInv
    <2>4. QED
      BY <2>1, <2>2, <2>3 DEF Walk
  <1>14. AcceptInv'
    BY DEF AcceptInv, Walk
  <1>15. OnceInv'
    BY DEF OnceInv
  <1>16. QED
    BY <1>4, <1>7, <1>8, <1>9, <1>10, <1>11, <1>12, <1>13, <1>14, <1>15
    DEF IInv

\* The end of a walk.
LEMMA TurnPreserves == IInv /\ (ScanEnds \/ CopyEnds \/ Compare) => IInv'
  <1>1. ASSUME IInv, ScanEnds PROVE IInv'
    <2>1. /\ pc = "before" /\ pc' = "copy" /\ todo = {}
          /\ todo' \in CopyStarts /\ turn' = Cells(tree)
          /\ UNCHANGED <<tree, got, past, repeated>>
      BY <1>1 DEF ScanEnds, NextWalk
    <2>0. todo' \subseteq ReadBefore /\ todo' \subseteq Cell
      <3>1. todo' = {RootNames} \/ \E S \in SUBSET Path :
                todo' = {"stat"} \X S
                    /\ \A p \in S : got["before"][<<"stat", p>>] # Unread
        BY <2>1 DEF CopyStarts, RootNames
      <3>2. RootNames \in ReadBefore
        BY <1>1, <2>1 DEF IInv, ClosedInv
      <3>3. QED
        BY <3>1, <3>2 DEF ReadBefore, Cell
    <2>2. TypeInv' /\ OrderInv' /\ PastInv' /\ AfterInv' /\ AcceptInv'
      BY <1>1, <2>0, <2>1, RootCell
      DEF IInv, TypeInv, OrderInv, PastInv, AfterInv, AcceptInv, Walk
    <2>3. \A c \in Cell : turn'[c] = Holds(tree, c)
      BY <2>1 DEF Cells
    <2>4. \A c \in Cell : got["copy"][c] = Unread
      BY <1>1, <2>1 DEF IInv, OrderInv, Nothing
    <2>5. ReadBefore' = ReadBefore /\ ReadBefore \subseteq Cell
      BY <2>1 DEF ReadBefore
    <2>6. BeforeInv'
      BY <1>1, <2>1, <2>3, <2>5 DEF IInv, BeforeInv
    <2>7. TurnInv'
      BY <2>1, <2>3, <2>4 DEF TurnInv
    <2>8. ClosedInv'
      BY <1>1, <2>1, <2>5 DEF IInv, ClosedInv
    <2>9. CopyInv'
      BY <2>0, <2>1, <2>4, <2>5 DEF CopyInv
    <2>10. OnceInv'
      BY <2>0, <2>1, <2>4 DEF OnceInv
    <2>11. QED
      BY <2>2, <2>6, <2>7, <2>8, <2>9, <2>10 DEF IInv
  <1>2. ASSUME IInv, CopyEnds PROVE IInv'
    <2>1. /\ pc = "copy" /\ pc' = "after" /\ todo' = {RootNames}
          /\ UNCHANGED <<tree, got, turn, past, repeated>>
      BY <1>2 DEF CopyEnds, NextWalk, RootNames
    <2>2. TypeInv' /\ OrderInv' /\ PastInv' /\ AcceptInv' /\ TurnInv'
      BY <1>2, <2>1, RootCell
      DEF IInv, TypeInv, OrderInv, PastInv, AcceptInv, TurnInv, Walk
    <2>3. \A c \in Cell : got["after"][c] = Unread
      BY <1>2, <2>1 DEF IInv, OrderInv, Nothing
    <2>4. ReadBefore' = ReadBefore /\ (Strays => Strays')
      BY <2>1 DEF ReadBefore, Strays
    <2>5. BeforeInv' /\ ClosedInv' /\ CopyInv'
      BY <1>2, <2>1, <2>4 DEF IInv, BeforeInv, ClosedInv, CopyInv
    <2>6. AfterInv' /\ OnceInv'
      BY <2>1, <2>3, RootCell DEF AfterInv, OnceInv
    <2>7. QED
      BY <2>2, <2>5, <2>6 DEF IInv
  <1>3. ASSUME IInv, Compare PROVE IInv'
    <2>1. /\ pc = "after" /\ pc' \in {"accepted", "refused"}
          /\ pc' = "accepted" => got["after"] = got["before"]
          /\ UNCHANGED <<tree, todo, got, turn, past, repeated>>
      BY <1>3 DEF Compare, Accepts
    <2>2. ReadBefore' = ReadBefore /\ (Strays => Strays')
      BY <2>1 DEF ReadBefore, Strays
    <2>3. TypeInv' /\ OrderInv' /\ PastInv' /\ TurnInv' /\ AcceptInv'
      BY <1>3, <2>1
      DEF IInv, TypeInv, OrderInv, PastInv, TurnInv, AcceptInv
    <2>4. BeforeInv' /\ ClosedInv' /\ CopyInv'
      BY <1>3, <2>1, <2>2 DEF IInv, BeforeInv, ClosedInv, CopyInv
    <2>5. AfterInv' /\ OnceInv'
      BY <1>3, <2>1 DEF IInv, AfterInv, OnceInv, Walk
    <2>6. QED
      BY <2>3, <2>4, <2>5 DEF IInv
  <1>4. QED
    BY <1>1, <1>2, <1>3

\* A call that raises ends the walk.
LEMMA RefusePreserves ==
    ASSUME IInv, pc \in Walk, pc' = "refused",
           UNCHANGED <<tree, todo, got, turn, past, repeated>>
    PROVE  IInv'
  <1>1. TypeInv' /\ PastInv'
    BY DEF IInv, TypeInv, PastInv
  <1>2. /\ OrderInv' /\ BeforeInv' /\ TurnInv' /\ AfterInv'
        /\ ClosedInv' /\ CopyInv' /\ AcceptInv' /\ OnceInv'
    BY DEF OrderInv, BeforeInv, TurnInv, AfterInv, ClosedInv, CopyInv,
           AcceptInv, OnceInv, Walk
  <1>3. QED
    BY <1>1, <1>2 DEF IInv

\* A write moves the old value of every cell it changes to the past.
LEMMA WritePreserves == IInv /\ Write => IInv'
  <1> SUFFICES ASSUME IInv, Write PROVE IInv'
    OBVIOUS
  <1> DEFINE lost == {c \in Cell : Holds(tree', c) # Holds(tree, c)}
  <1>1. /\ pc \in Walk /\ tree' \in Writes(tree)
        /\ past' = [c \in Cell |-> past[c] \cup (IF c \in lost
                                               THEN {Holds(tree, c)} ELSE {})]
        /\ repeated' = (repeated
                           \/ \E c \in lost : Holds(tree', c) \in past[c])
        /\ UNCHANGED <<pc, todo, got, turn>>
    BY DEF Write
  <1>2. tree' \in [Path -> Entry \cup {NoEntry}]
    BY <1>1, WritesType DEF IInv, TypeInv
  <1>3. \A c \in Cell : /\ past[c] \subseteq past'[c]
                        /\ Holds(tree', c) # Holds(tree, c) =>
                               Holds(tree, c) \in past'[c]
                        /\ Holds(tree', c) = Holds(tree, c) =>
                               past'[c] = past[c]
                        /\ past'[c] \subseteq past[c] \cup {Holds(tree, c)}
    BY <1>1
  <1>4. TypeInv'
    <2>1. past' \in [Cell -> SUBSET (Value \cup {Absent})]
      BY <1>1, HoldsType DEF IInv, TypeInv
    <2>2. QED
      BY <1>1, <1>2, <2>1 DEF IInv, TypeInv
  <1>5. PastInv'
    <2> SUFFICES ASSUME ~repeated', NEW c \in Cell
                 PROVE  Holds(tree', c) \notin past'[c]
      BY DEF PastInv
    <2>1. Holds(tree, c) \notin past[c]
      BY <1>1 DEF IInv, PastInv
    <2>2. QED
      BY <1>1, <1>3, <2>1
  <1>6. ReadBefore' = ReadBefore /\ ReadBefore \subseteq Cell
            /\ (Strays => Strays')
    BY <1>1 DEF ReadBefore, Strays
  <1>7. BeforeInv'
    BY <1>1, <1>3, <1>6 DEF IInv, BeforeInv
  <1>8. TurnInv'
    BY <1>1, <1>3 DEF IInv, TurnInv
  <1>9. OrderInv' /\ AfterInv' /\ AcceptInv' /\ OnceInv'
    BY <1>1 DEF IInv, OrderInv, AfterInv, AcceptInv, OnceInv
  <1>10. ClosedInv' /\ CopyInv'
    BY <1>1, <1>6 DEF IInv, ClosedInv, CopyInv
  <1>11. QED
    BY <1>4, <1>5, <1>7, <1>8, <1>9, <1>10 DEF IInv

LEMMA IInvNext == IInv /\ [Next]_vars => IInv'
  <1> SUFFICES ASSUME IInv, [Next]_vars PROVE IInv'
    OBVIOUS
  <1>1. CASE Step
    <2>1. PICK c \in todo : Read(c)
      BY <1>1 DEF Step
    <2>2. pc \in Walk /\ UNCHANGED <<tree, turn, past, repeated>>
      BY <1>1 DEF Step
    <2>3. CASE pc' = "refused" /\ UNCHANGED <<todo, got>>
      BY <2>2, <2>3, RefusePreserves
    <2>4. CASE /\ Holds(tree, c) # Absent
               /\ got' = [got EXCEPT ![pc][c] = Holds(tree, c)]
               /\ todo' = {x \in todo \cup Opens(c, Holds(tree, c)) :
                             got'[pc][x] = Unread}
               /\ UNCHANGED pc
      BY <2>2, <2>4, ReadPreserves
    <2>5. QED
      BY <2>1, <2>3, <2>4 DEF Read
  <1>2. CASE ReadFails
    BY <1>2, RefusePreserves DEF ReadFails
  <1>3. CASE ScanEnds \/ CopyEnds \/ Compare
    BY <1>3, TurnPreserves
  <1>4. CASE Write
    BY <1>4, WritePreserves
  <1>5. CASE UNCHANGED vars
    <2>1. UNCHANGED <<tree, pc, todo, got, turn, past, repeated>>
      BY <1>5 DEF vars
    <2>2. QED
      BY <2>1
      DEF IInv, TypeInv, OrderInv, PastInv, BeforeInv, TurnInv, AfterInv,
          ClosedInv, CopyInv, AcceptInv, OnceInv, ReadBefore, Strays
  <1>6. QED
    BY <1>1, <1>2, <1>3, <1>4, <1>5 DEF Next, Broker

----------------------------------------------------------------------------
(* What the invariant is for.                                                *)

LEMMA Collected == IInv => AcceptedIsSnapshot
  <1> SUFFICES ASSUME IInv, pc = "accepted", ~repeated, NEW c \in Cell
               PROVE  \A w \in Walk : got[w][c] # Unread => got[w][c] = turn[c]
    BY DEF AcceptedIsSnapshot, Agrees
  <1>1. got["after"] = got["before"]
    BY DEF IInv, AcceptInv
  <1>2. \A x \in ReadBefore : /\ got["before"][x] = turn[x]
                             /\ got["copy"][x] \in {Unread, turn[x]}
    BY <1>1 DEF IInv, AfterInv, ReadBefore
  <1>3. ~Strays
    BY <1>2 DEF Strays
  <1>4. got["copy"][c] # Unread => c \in ReadBefore
    BY <1>3 DEF IInv, CopyInv
  <1>5. got["before"][c] # Unread => c \in ReadBefore
    BY DEF ReadBefore
  <1>6. QED
    BY <1>1, <1>2, <1>4, <1>5 DEF Walk

\* For every tree and any number of writes: what begin takes as its baseline
\* and commit as its payload was in the tree as a whole at one moment, unless
\* a value came back that had been lost.
THEOREM DoubleCollect == Spec => []AcceptedIsSnapshot
  <1>1. Init => IInv
    BY IInvInit
  <1>2. IInv /\ [Next]_vars => IInv'
    BY IInvNext
  <1>3. IInv => AcceptedIsSnapshot
    BY Collected
  <1>4. QED
    BY <1>1, <1>2, <1>3, PTL DEF Spec

\* What IInv leaves of the types: the history, the counter and the tree.
LEMMA TypeNext == IInv /\ TypeOK /\ [Next]_vars => TypeOK'
  <1> SUFFICES ASSUME IInv, TypeOK, [Next]_vars PROVE TypeOK'
    OBVIOUS
  <1>1. TypeInv'
    BY IInvNext DEF IInv
  <1>2. turn' \in [Cell -> Value \cup {Absent, Unread}]
    <2>1. CASE ScanEnds
      <3>1. \A c \in Cell : Holds(tree, c) \in Value \cup {Absent}
        BY HoldsType DEF TypeOK
      <3>2. QED
        BY <2>1, <3>1 DEF ScanEnds, Cells
    <2>2. CASE ~ScanEnds
      BY <2>2
      DEF TypeOK, vars, Next, Broker, Step, ReadFails, CopyEnds, Compare, Write
    <2>3. QED
      BY <2>1, <2>2
  <1>3. IsTree(tree')
    <2>1. tree' = tree \/ IsTree(tree')
      BY DEF vars, Next, Broker, Step, ReadFails, ScanEnds, CopyEnds, Compare,
             Write
    <2>2. QED
      BY <2>1 DEF TypeOK
  <1>4. writes' \in 0 .. MaxWrites
    BY WritesAssumption
    DEF TypeOK, vars, Next, Broker, Step, ReadFails, ScanEnds, CopyEnds,
        Compare, Write
  <1>5. call' \in {"begin", "commit"} /\ faulted' \in BOOLEAN
    BY DEF TypeOK, vars, Next, Broker, Step, ReadFails, ScanEnds, CopyEnds,
           Compare, Write
  <1>6. QED
    BY <1>1, <1>2, <1>3, <1>4, <1>5 DEF TypeInv, TypeOK

\* The owner's writes leave a tree, and what the walks collect are values of
\* its cells.
THEOREM TypeCorrect == Spec => []TypeOK
  <1>1. Init => IInv
    BY IInvInit
  <1>2. Init => TypeOK
    <2> SUFFICES ASSUME Init PROVE TypeOK
      OBVIOUS
    <2>1. TypeInv
      BY <1>1 DEF IInv
    <2>2. turn \in [Cell -> Value \cup {Absent, Unread}]
      BY DEF Init, Nothing
    <2>3. IsTree(tree) /\ writes \in 0 .. MaxWrites
      BY WritesAssumption DEF Init
    <2>4. call \in {"begin", "commit"} /\ faulted \in BOOLEAN
      BY DEF Init
    <2>5. QED
      BY <2>1, <2>2, <2>3, <2>4 DEF TypeInv, TypeOK
  <1>3. IInv /\ [Next]_vars => IInv'
    BY IInvNext
  <1>4. IInv /\ TypeOK /\ [Next]_vars => TypeOK'
    BY TypeNext
  <1>5. QED
    BY <1>1, <1>2, <1>3, <1>4, PTL DEF Spec
=============================================================================
