------------------------ MODULE SandboxMergeProofs -------------------------
(***************************************************************************)
(* No merge loses an edit or overwrites one unseen, for every set of       *)
(* workers, files and regions.                                             *)
(***************************************************************************)
EXTENDS SandboxMerge, TLAPS

\* How far the clone of a file has come.
CloneInv ==
  \A w \in Worker, f \in File :
    /\ pc[w] = "new" => origin[w][f] = Absent /\ base[w][f] = Absent /\ sandbox[w][f] = Absent
    /\ pc[w] \in {"copy", "base"} /\ f \in todo[w] =>
         base[w][f] = Absent /\ (sandbox[w][f] # Absent => origin[w][f] # Absent)
    /\ base[w][f] # Absent => origin[w][f] # Absent
    /\ origin[w][f] # Absent =>
         main[f] # Absent /\ (base[w][f] # Absent \/ (pc[w] \in {"copy", "base"} /\ f \in todo[w]))
    /\ pc[w] = "merge" /\ f \in todo[w] => sandbox[w][f] # Absent

\* A sandbox holds what was copied into it, what its worker wrote and what was left there.
TextInv ==
  \A w \in Worker, f \in File, r \in Region : sandbox[w][f] # Absent =>
    \/ origin[w][f] # Absent /\ sandbox[w][f][r] = origin[w][f][r]
    \/ w \notin Direct /\ <<f, r>> \in edits[w] /\ sandbox[w][f][r] = w
    \/ origin[w][f] = Absent /\ sandbox[w][f][r] = Original

\* An edit is in main at once, or in the sandbox to be merged.
EditInv ==
  \A w \in Worker, f \in File, r \in Region : <<f, r>> \in edits[w] =>
    IF w \in Direct THEN <<f, r>> \in landed[w]
    ELSE /\ pc[w] \in {"merge", "conflict"}
         /\ sandbox[w][f] # Absent /\ sandbox[w][f][r] = w

\* Only what a worker wrote has its name on it, in main and wherever main was copied.
LandInv ==
  \A w \in Worker, f \in File, r \in Region :
    /\ <<f, r>> \in landed[w] => <<f, r>> \in edits[w] /\ main[f] # Absent
    /\ main[f] # Absent /\ main[f][r] = w => <<f, r>> \in landed[w]
    /\ \A u \in Worker : origin[u][f] # Absent /\ origin[u][f][r] = w => <<f, r>> \in landed[w]

Inv == TypeOK /\ CloneInv /\ TextInv /\ EditInv /\ LandInv /\ NoLostEdit
-----------------------------------------------------------------------------
\* A text has regions.
LEMMA TextIsThere == \A t \in Text : t # Absent
<1> SUFFICES ASSUME NEW t \in Text PROVE t # Absent
  OBVIOUS
<1>1. PICK r : r \in Region
  BY MergeAssumption
<1>2. r \in DOMAIN t /\ DOMAIN Absent = {}
  BY <1>1 DEF Text, Absent
<1> QED BY <1>2

\* A function of functions changed in one place, and in one function.
LEMMA PlaceChanged ==
  ASSUME NEW A, NEW B, NEW V, NEW g \in [A -> [B -> V]], NEW a \in A, NEW b \in B, NEW v \in V
  PROVE  LET h == [g EXCEPT ![a][b] = v]
         IN /\ h \in [A -> [B -> V]]
            /\ \A x \in A, y \in B : h[x][y] = IF x = a /\ y = b THEN v ELSE g[x][y]
OBVIOUS

LEMMA InitInv == Init => Inv
<1> SUFFICES ASSUME Init PROVE Inv
  OBVIOUS
<1> USE MergeAssumption DEF Init, Nothing
<1>1. TypeOK
  BY DEF TypeOK, Texts, Text
<1>2. CloneInv
  BY DEF CloneInv
<1>3. TextInv
  BY DEF TextInv
<1>4. EditInv
  BY DEF EditInv
<1>5. LandInv
  BY DEF LandInv
<1>6. NoLostEdit
  BY DEF NoLostEdit
<1> QED BY <1>1, <1>2, <1>3, <1>4, <1>5, <1>6 DEF Inv

LEMMA ListKeeps == ASSUME Inv, NEW w \in Worker, List(w) PROVE Inv'
<1> USE DEF Inv
<1> DEFINE old == [r \in Region |-> Original]
<1>1. PICK L \in SUBSET {f \in File : w \in Rerun /\ main[f] = Absent} :
        sandbox' = [sandbox EXCEPT ![w] = [f \in File |-> IF f \in L THEN old ELSE Absent]]
  BY DEF List
<1>2. /\ pc[w] = "new" /\ pc' = [pc EXCEPT ![w] = "copy"]
      /\ todo' = [todo EXCEPT ![w] = {f \in File : main[f] # Absent}]
      /\ UNCHANGED <<main, base, origin, edits, landed>>
  BY DEF List
<1>3. old \in Text /\ \A r \in Region : old[r] = Original
  BY DEF Text
<1> HIDE DEF old
<1>4. /\ sandbox' \in [Worker -> Texts]
      /\ \A x \in Worker, f \in File :
           sandbox'[x][f] = IF x # w THEN sandbox[x][f] ELSE IF f \in L THEN old ELSE Absent
  BY <1>1, <1>3 DEF TypeOK, Texts
<1>5. TypeOK'
  BY <1>2, <1>4 DEF TypeOK
<1>6. \A x \in Worker : /\ pc'[x] = IF x = w THEN "copy" ELSE pc[x]
                        /\ todo'[x] = IF x = w THEN {f \in File : main[f] # Absent} ELSE todo[x]
  BY <1>2 DEF TypeOK
<1>7. CloneInv'
  <2>0. \A f \in L : main[f] = Absent
    OBVIOUS
  <2>1. /\ pc'[w] = "copy"
        /\ \A f \in File : origin'[w][f] = Absent /\ base'[w][f] = Absent
        /\ \A f \in todo'[w] : f \notin L
    <3>1. pc'[w] = "copy" /\ \A f \in todo'[w] : main[f] # Absent
      BY <1>6
    <3>2. \A f \in File : origin[w][f] = Absent /\ base[w][f] = Absent
      BY <1>2 DEF CloneInv
    <3> QED BY <1>2, <2>0, <3>1, <3>2
  <2>2. \A f \in todo'[w] : f \in File => sandbox'[w][f] = Absent
    BY <1>4, <2>1
  <2>3. \A x \in Worker \ {w} : /\ pc'[x] = pc[x] /\ todo'[x] = todo[x]
                              /\ \A f \in File : sandbox'[x][f] = sandbox[x][f]
    BY <1>4, <1>6
  <2>4. \A x \in Worker, f \in File : CloneInv!(x, f)'
    BY <1>2, <2>1, <2>2, <2>3 DEF CloneInv
  <2> QED BY <2>4 DEF CloneInv
<1>8. TextInv'
  <2>1. \A f \in File : origin[w][f] = Absent
    BY <1>2 DEF CloneInv
  <2> QED BY <1>2, <1>3, <1>4, <2>1 DEF TextInv
<1>9. EditInv'
  BY <1>2, <1>4, <1>6 DEF EditInv
<1>10. LandInv'
  BY <1>2 DEF LandInv
<1>11. ASSUME NEW g \in File, Clean(g)' PROVE Clean(g)
  BY <1>2, <1>4, <1>6, <1>11 DEF Clean, Leftover
<1>12. NoLostEdit'
  BY <1>2, <1>11 DEF NoLostEdit
<1> QED BY <1>5, <1>7, <1>8, <1>9, <1>10, <1>12

LEMMA CopyKeeps == ASSUME Inv, NEW w \in Worker, NEW f \in File, Copy(w, f) PROVE Inv'
<1> USE DEF Inv
<1>1. TypeOK'
  BY DEF TypeOK, Copy, Texts
<1>2. \A x \in Worker, g \in File :
        /\ sandbox'[x][g] = IF x = w /\ g = f THEN main[f] ELSE sandbox[x][g]
        /\ origin'[x][g] = IF x = w /\ g = f THEN main[f] ELSE origin[x][g]
        /\ pc'[x] = IF x = w THEN "base" ELSE pc[x]
  BY DEF TypeOK, Copy, Texts
<1>3. pc[w] = "copy" /\ f \in todo[w] /\ base[w][f] = Absent /\ UNCHANGED <<main, todo, base, edits, landed>>
  BY DEF Copy, CloneInv
<1>4. CloneInv'
  BY <1>2, <1>3 DEF CloneInv
<1>5. TextInv'
  BY <1>2, <1>3 DEF TextInv, EditInv
<1>6. EditInv'
  BY <1>2, <1>3 DEF EditInv
<1>7. LandInv'
  <2> SUFFICES ASSUME NEW x \in Worker, NEW g \in File, NEW r \in Region, NEW u \in Worker,
                      origin'[u][g] # Absent, origin'[u][g][r] = x
               PROVE <<g, r>> \in landed[x]
    BY <1>3 DEF LandInv
  <2>1. CASE u = w /\ g = f
    BY <2>1, <1>2 DEF LandInv
  <2>2. CASE ~(u = w /\ g = f)
    BY <2>2, <1>2 DEF LandInv
  <2> QED BY <2>1, <2>2
<1>8. ASSUME NEW g \in File, Clean(g)' PROVE Clean(g)
  BY <1>2, <1>3, <1>8 DEF Clean, Leftover
<1>9. NoLostEdit'
  BY <1>3, <1>8 DEF NoLostEdit
<1> QED BY <1>1, <1>4, <1>5, <1>6, <1>7, <1>9

LEMMA ReadBaseKeeps == ASSUME Inv, NEW w \in Worker, NEW f \in File, ReadBase(w, f) PROVE Inv'
<1> USE DEF Inv
<1>1. TypeOK'
  BY DEF TypeOK, ReadBase, Texts
<1>2. \A x \in Worker, g \in File :
        /\ base'[x][g] = IF x = w /\ g = f THEN main[f] ELSE base[x][g]
        /\ g \in todo'[x] <=> g \in todo[x] /\ ~(x = w /\ g = f)
        /\ pc'[x] = IF x = w THEN "copy" ELSE pc[x]
  BY DEF TypeOK, ReadBase, Texts
<1>3. /\ pc[w] = "base" /\ f \in todo[w] /\ sandbox[w][f] # Absent /\ base[w][f] = Absent
      /\ UNCHANGED <<main, sandbox, origin, edits, landed>>
  BY DEF ReadBase, CloneInv
<1>4. origin[w][f] # Absent /\ main[f] # Absent
  <2>1. origin[w][f] # Absent
    BY <1>3 DEF CloneInv
  <2> QED BY <2>1 DEF CloneInv
<1>5. CloneInv'
  BY <1>2, <1>3, <1>4 DEF CloneInv
<1>6. TextInv' /\ LandInv'
  BY <1>3 DEF TextInv, LandInv
<1>7. EditInv'
  BY <1>2, <1>3 DEF EditInv
<1>8. ASSUME NEW g \in File, Clean(g)' PROVE Clean(g)
  BY <1>2, <1>3, <1>8 DEF Clean, Leftover
<1>9. NoLostEdit'
  BY <1>3, <1>8 DEF NoLostEdit
<1> QED BY <1>1, <1>5, <1>6, <1>7, <1>9

LEMMA WriteMainKeeps == ASSUME Inv, NEW w \in Worker, NEW f \in File, WriteMain(w, f) PROVE Inv'
<1> USE DEF Inv
<1>1. PICK R \in SUBSET Region \ {{}} :
        /\ main[f] = Absent => R = Region
        /\ main' = [main EXCEPT ![f] = [r \in Region |-> IF r \in R THEN w ELSE main[f][r]]]
        /\ edits'  = [edits EXCEPT ![w] = @ \cup ({f} \X R)]
        /\ landed' = [landed EXCEPT ![w] = @ \cup ({f} \X R)]
  BY DEF WriteMain
<1>2. w \in Direct /\ UNCHANGED <<pc, todo, sandbox, base, origin>>
  BY DEF WriteMain
<1> DEFINE new == [r \in Region |-> IF r \in R THEN w ELSE main[f][r]]
<1>3. new \in Text
  BY <1>1 DEF TypeOK, Texts, Text
<1>4. /\ \A g \in File : main'[g] = IF g = f THEN new ELSE main[g]
      /\ \A x \in Worker, g \in File, r \in Region :
           /\ <<g, r>> \in edits'[x] <=> <<g, r>> \in edits[x] \/ (x = w /\ g = f /\ r \in R)
           /\ <<g, r>> \in landed'[x] <=> <<g, r>> \in landed[x] \/ (x = w /\ g = f /\ r \in R)
  BY <1>1 DEF TypeOK, Texts
<1>5. \A g \in File : main'[g] # Absent <=> main[g] # Absent \/ g = f
  BY <1>3, <1>4, TextIsThere
<1>6. \A r \in Region : new[r] = IF r \in R THEN w ELSE main[f][r]
  OBVIOUS
<1>7. TypeOK'
  BY <1>1, <1>2, <1>3 DEF TypeOK, Texts, Places
<1> HIDE DEF new
<1>8. CloneInv'
  BY <1>2, <1>5 DEF CloneInv
<1>9. TextInv'
  BY <1>2, <1>4 DEF TextInv
<1>10. EditInv'
  BY <1>2, <1>4 DEF EditInv
<1>11. LandInv'
  <2> SUFFICES ASSUME NEW x \in Worker, NEW g \in File, NEW r \in Region
               PROVE  /\ <<g, r>> \in landed'[x] => <<g, r>> \in edits'[x] /\ main'[g] # Absent
                      /\ main'[g] # Absent /\ main'[g][r] = x => <<g, r>> \in landed'[x]
                      /\ \A u \in Worker : origin[u][g] # Absent /\ origin[u][g][r] = x => <<g, r>> \in landed'[x]
    BY <1>2 DEF LandInv
  <2>1. <<g, r>> \in landed'[x] => <<g, r>> \in edits'[x] /\ main'[g] # Absent
    BY <1>4, <1>5 DEF LandInv
  <2>2. main'[g] # Absent /\ main'[g][r] = x => <<g, r>> \in landed'[x]
    <3>1. CASE g = f
      BY <3>1, <1>1, <1>4, <1>6 DEF LandInv
    <3>2. CASE g # f
      BY <3>2, <1>4 DEF LandInv
    <3> QED BY <3>1, <3>2
  <2>3. ASSUME NEW u \in Worker, origin[u][g] # Absent, origin[u][g][r] = x PROVE <<g, r>> \in landed'[x]
    BY <2>3, <1>4 DEF LandInv
  <2> QED BY <2>1, <2>2, <2>3
<1>12. NoLostEdit'
  BY <1>2, <1>4, <1>6 DEF NoLostEdit, Clean, Leftover
<1> QED BY <1>7, <1>8, <1>9, <1>10, <1>11, <1>12

LEMMA EditKeeps == ASSUME Inv, NEW w \in Worker, Edit(w) PROVE Inv'
<1> USE DEF Inv
<1> DEFINE text(P, f) == [r \in Region |-> IF <<f, r>> \in P THEN w ELSE sandbox[w][f][r]]
           written(P) == {p[1] : p \in P}
<1>1. PICK P \in SUBSET Places :
        /\ w \in Direct => P = {}
        /\ \A f \in written(P) : sandbox[w][f] = Absent => {f} \X Region \subseteq P
        /\ edits' = [edits EXCEPT ![w] = @ \cup P]
        /\ sandbox' = [sandbox EXCEPT ![w] = [f \in File |-> IF f \in written(P) THEN text(P, f) ELSE @[f]]]
  BY DEF Edit
<1>2. /\ pc[w] = "copy" /\ todo[w] = {}
      /\ todo' = [todo EXCEPT ![w] = {f \in File : sandbox'[w][f] # Absent}]
      /\ pc' = [pc EXCEPT ![w] = "merge"]
      /\ UNCHANGED <<main, base, origin, landed>>
  BY DEF Edit
<1>3. /\ \A f \in File : f \in written(P) <=> \E r \in Region : <<f, r>> \in P
      /\ written(P) \subseteq File
  <2>1. \A p \in P : p[1] \in File /\ p[2] \in Region /\ p = <<p[1], p[2]>>
    BY DEF Places
  <2> HIDE DEF written
  <2>2. ASSUME NEW f \in written(P) PROVE f \in File /\ \E r \in Region : <<f, r>> \in P
    <3>1. PICK p \in P : f = p[1]
      BY <2>2 DEF written
    <3> QED BY <2>1, <3>1
  <2>3. ASSUME NEW f \in File, NEW r \in Region, <<f, r>> \in P PROVE f \in written(P)
    <3>1. <<f, r>>[1] = f
      OBVIOUS
    <3> QED BY <2>3, <3>1 DEF written
  <2> QED BY <2>2, <2>3
<1>4. \A f \in written(P) : text(P, f) \in Text
  <2> SUFFICES ASSUME NEW f \in written(P) PROVE text(P, f) \in Text
    OBVIOUS
  <2>1. f \in File
    BY <1>3
  <2>2. sandbox[w][f] \in Text \/ sandbox[w][f] = Absent
    BY <2>1 DEF TypeOK, Texts
  <2>3. CASE sandbox[w][f] \in Text
    BY <2>3 DEF Text
  <2>4. CASE sandbox[w][f] = Absent
    <3>1. \A r \in Region : <<f, r>> \in P
      BY <1>1, <2>4
    <3> QED BY <3>1 DEF Text
  <2> QED BY <2>2, <2>3, <2>4
<1> HIDE DEF text
<1>5. /\ sandbox' \in [Worker -> Texts]
      /\ \A x \in Worker, f \in File :
           sandbox'[x][f] = IF x = w /\ f \in written(P) THEN text(P, f) ELSE sandbox[x][f]
  BY <1>1, <1>4 DEF TypeOK, Texts
<1>6. \A f \in File, r \in Region : text(P, f)[r] = IF <<f, r>> \in P THEN w ELSE sandbox[w][f][r]
  BY DEF text
<1>7. \A x \in Worker, f \in File, r \in Region :
        /\ <<f, r>> \in edits'[x] <=> <<f, r>> \in edits[x] \/ (x = w /\ <<f, r>> \in P)
        /\ pc'[x] = IF x = w THEN "merge" ELSE pc[x]
        /\ x # w => todo'[x] = todo[x]
  BY <1>1, <1>2 DEF TypeOK
<1>8. TypeOK'
  BY <1>1, <1>2, <1>5 DEF TypeOK
<1>9. \A f \in written(P) : text(P, f) # Absent
  BY <1>4, TextIsThere
<1>10. \A f \in written(P), r \in Region : sandbox[w][f] = Absent => <<f, r>> \in P
  BY <1>1
<1> HIDE DEF written
<1>11. CloneInv'
  BY <1>2, <1>5, <1>7 DEF CloneInv, TypeOK
<1>12. TextInv'
  <2> SUFFICES ASSUME NEW x \in Worker, NEW f \in File, NEW r \in Region, sandbox'[x][f] # Absent
               PROVE \/ origin[x][f] # Absent /\ sandbox'[x][f][r] = origin[x][f][r]
                     \/ x \notin Direct /\ <<f, r>> \in edits'[x] /\ sandbox'[x][f][r] = x
                     \/ origin[x][f] = Absent /\ sandbox'[x][f][r] = Original
    BY <1>2 DEF TextInv
  <2>1. CASE x = w /\ f \in written(P) /\ <<f, r>> \in P
    BY <2>1, <1>1, <1>5, <1>6, <1>7
  <2>2. CASE x = w /\ f \in written(P) /\ <<f, r>> \notin P
    BY <2>2, <1>5, <1>6, <1>7, <1>10 DEF TextInv
  <2>3. CASE ~(x = w /\ f \in written(P))
    BY <2>3, <1>5, <1>7 DEF TextInv
  <2> QED BY <2>1, <2>2, <2>3
<1>13. EditInv'
  <2> SUFFICES ASSUME NEW x \in Worker, NEW f \in File, NEW r \in Region, <<f, r>> \in edits'[x]
               PROVE IF x \in Direct THEN <<f, r>> \in landed[x]
                     ELSE /\ pc'[x] \in {"merge", "conflict"}
                          /\ sandbox'[x][f] # Absent /\ sandbox'[x][f][r] = x
    BY <1>2 DEF EditInv
  <2>1. CASE x = w /\ <<f, r>> \in P
    BY <2>1, <1>1, <1>3, <1>5, <1>6, <1>7, <1>9
  <2>2. CASE x = w /\ <<f, r>> \notin P
    BY <2>2, <1>2, <1>7 DEF EditInv
  <2>3. CASE x # w
    BY <2>3, <1>5, <1>7 DEF EditInv
  <2> QED BY <2>1, <2>2, <2>3
<1>14. LandInv'
  BY <1>2, <1>7 DEF LandInv
<1>15. NoLostEdit'
  <2> SUFFICES ASSUME NEW x \in Worker, NEW f \in File, NEW r \in Region,
                      <<f, r>> \in landed[x], Clean(f)', \A u \in Worker \ {x} : <<f, r>> \notin edits'[u]
               PROVE main[f][r] = x
    BY <1>2 DEF NoLostEdit
  <2>1. \A u \in Worker \ {x} : <<f, r>> \notin edits[u]
    BY <1>7
  <2>2. Clean(f)
    BY <1>2, <1>5, <1>7 DEF Clean, Leftover
  <2> QED BY <2>1, <2>2 DEF NoLostEdit
<1> QED BY <1>8, <1>11, <1>12, <1>13, <1>14, <1>15

\* What a merge puts into region r: our text, or theirs where we kept the base.
\* Unless a clone was torn it is what main has, or what the worker wrote there.
LEMMA MergeSound ==
  ASSUME Inv, NEW w \in Worker, NEW f \in File, pc[w] = "merge", f \in todo[w]
  PROVE  /\ Merged(w, f) \in Text
         /\ \A r \in Region :
              \/ Merged(w, f)[r] = sandbox[w][f][r]
              \/ /\ main[f] # Absent /\ base[w][f] # Absent /\ main[f] # sandbox[w][f] /\ ~FastForward(w, f)
                 /\ Merged(w, f)[r] = main[f][r] /\ sandbox[w][f][r] = base[w][f][r]
         /\ \A r \in Region : main[f] # Absent /\ Clean(f) =>
              \/ Merged(w, f)[r] = main[f][r]
              \/ Merged(w, f)[r] = w /\ w \notin Direct /\ <<f, r>> \in edits[w]
<1> USE DEF Inv
<1> DEFINE b == base[w][f]
           o == origin[w][f]
           s == sandbox[w][f]
           m == main[f]
<1>1. s \in Text /\ m \in Text \cup {Absent} /\ b \in Text \cup {Absent}
  BY DEF TypeOK, Texts, CloneInv
<1>2. CASE m \in {Absent, s} \/ FastForward(w, f)
  <2>1. Merged(w, f) = s
    BY <1>2 DEF Merged
  <2>2. ASSUME NEW r \in Region, m # Absent, Clean(f)
        PROVE s[r] = m[r] \/ (s[r] = w /\ w \notin Direct /\ <<f, r>> \in edits[w])
    <3>1. \/ o # Absent /\ s[r] = o[r]
          \/ w \notin Direct /\ <<f, r>> \in edits[w] /\ s[r] = w
      BY <1>1, <2>2, TextIsThere DEF TextInv, Clean, Leftover
    <3>2. ASSUME o # Absent PROVE b # Absent /\ b = o
      BY <2>2, <3>2 DEF CloneInv, Clean, Leftover
    <3>3. m = s \/ b = Absent \/ b = m
      BY <1>2, <2>2 DEF FastForward
    <3> QED BY <3>1, <3>2, <3>3
  <2> QED BY <1>1, <2>1, <2>2
<1>3. CASE m \notin {Absent, s} /\ ~FastForward(w, f)
  <2>1. Merged(w, f) = ThreeWay(b, s, m) /\ b # Absent
    BY <1>3 DEF Merged, FastForward
  <2>2. \A r \in Region : Merged(w, f)[r] = IF s[r] = b[r] THEN m[r] ELSE s[r]
    BY <2>1 DEF ThreeWay
  <2>3. m \in Text /\ s \in Text
    BY <1>1, <1>3
  <2>4. Merged(w, f) \in Text
    BY <2>1, <2>3 DEF ThreeWay, Text
  <2>5. ASSUME NEW r \in Region, Clean(f), s[r] # b[r]
        PROVE s[r] = w /\ w \notin Direct /\ <<f, r>> \in edits[w]
    <3>1. b = o
      BY <2>1, <2>5 DEF Clean
    <3> QED BY <1>1, <2>1, <2>5, <3>1, TextIsThere DEF TextInv
  <2> QED BY <1>3, <2>1, <2>2, <2>4, <2>5
<1> QED BY <1>2, <1>3

LEMMA MergeFileKeeps == ASSUME Inv, NEW w \in Worker, NEW f \in File, MergeFile(w, f) PROVE Inv'
<1> USE DEF Inv
<1>1. /\ pc[w] = "merge" /\ f \in todo[w]
      /\ main' = [main EXCEPT ![f] = Merged(w, f)]
      /\ landed' = [landed EXCEPT ![w] = @ \cup {p \in edits[w] : p[1] = f}]
      /\ todo' = [todo EXCEPT ![w] = @ \ {f}]
      /\ UNCHANGED <<pc, sandbox, base, origin, edits>>
  BY DEF MergeFile, IsNext
<1> DEFINE new == Merged(w, f)
<1>2. /\ new \in Text
      /\ \A r \in Region :
           \/ new[r] = sandbox[w][f][r]
           \/ main[f] # Absent /\ base[w][f] # Absent /\ new[r] = main[f][r] /\ sandbox[w][f][r] = base[w][f][r]
      /\ \A r \in Region : main[f] # Absent /\ Clean(f) =>
              new[r] = main[f][r] \/ (new[r] = w /\ w \notin Direct /\ <<f, r>> \in edits[w])
  BY <1>1, MergeSound
<1> HIDE DEF new
<1>3. new # Absent /\ sandbox[w][f] # Absent
  BY <1>1, <1>2, TextIsThere DEF CloneInv
<1>4. /\ \A g \in File : main'[g] = IF g = f THEN new ELSE main[g]
      /\ \A x \in Worker, g \in File, r \in Region :
           <<g, r>> \in landed'[x] <=> <<g, r>> \in landed[x] \/ (x = w /\ g = f /\ <<g, r>> \in edits[x])
      /\ \A x \in Worker : todo'[x] \subseteq todo[x] /\ (x # w => todo'[x] = todo[x])
  <2>1. main' = [main EXCEPT ![f] = new]
    BY <1>1 DEF new
  <2>2. \A g \in File : main'[g] = IF g = f THEN new ELSE main[g]
    BY <2>1 DEF TypeOK, Texts
  <2>3. \A g \in File, r \in Region : <<g, r>>[1] = g
    OBVIOUS
  <2>4. \A x \in Worker : landed'[x] = IF x = w THEN landed[w] \cup {p \in edits[w] : p[1] = f} ELSE landed[x]
    BY <1>1 DEF TypeOK
  <2>5. ASSUME NEW x \in Worker, NEW g \in File, NEW r \in Region
        PROVE  <<g, r>> \in landed'[x] <=> <<g, r>> \in landed[x] \/ (x = w /\ g = f /\ <<g, r>> \in edits[x])
    <3>1. <<g, r>> \in {p \in edits[w] : p[1] = f} <=> g = f /\ <<g, r>> \in edits[w]
      BY <2>3
    <3>2. CASE x = w
      BY <2>4, <3>1, <3>2
    <3>3. CASE x # w
      BY <2>4, <3>3
    <3> QED BY <3>2, <3>3
  <2>6. \A x \in Worker : todo'[x] \subseteq todo[x] /\ (x # w => todo'[x] = todo[x])
    BY <1>1 DEF TypeOK
  <2> QED BY <2>2, <2>5, <2>6
<1>5. TypeOK'
  <2>1. main' \in Texts
    BY <1>1, <1>2 DEF TypeOK, Texts, new
  <2>2. landed' \in [Worker -> SUBSET Places] /\ todo' \in [Worker -> SUBSET File]
    BY <1>1 DEF TypeOK
  <2> QED BY <1>1, <2>1, <2>2 DEF TypeOK
<1>6. CloneInv'
  BY <1>1, <1>3, <1>4 DEF CloneInv
<1>7. TextInv' /\ EditInv'
  BY <1>1, <1>4 DEF TextInv, EditInv
<1>8. LandInv'
  <2> SUFFICES ASSUME NEW x \in Worker, NEW g \in File, NEW r \in Region
               PROVE  /\ <<g, r>> \in landed'[x] => <<g, r>> \in edits[x] /\ main'[g] # Absent
                      /\ main'[g] # Absent /\ main'[g][r] = x => <<g, r>> \in landed'[x]
                      /\ \A u \in Worker : origin[u][g] # Absent /\ origin[u][g][r] = x => <<g, r>> \in landed'[x]
    BY <1>1 DEF LandInv
  <2>1. <<g, r>> \in landed'[x] => <<g, r>> \in edits[x] /\ main'[g] # Absent
    BY <1>3, <1>4 DEF LandInv
  <2>2. ASSUME g = f, new[r] = x PROVE <<g, r>> \in landed'[x]
    <3>1. CASE main[f] # Absent /\ main[f][r] = x
      BY <2>2, <3>1, <1>4 DEF LandInv
    <3>2. CASE sandbox[w][f][r] = x
      <4>1. \/ origin[w][f] # Absent /\ origin[w][f][r] = x
            \/ <<f, r>> \in edits[w] /\ x = w
        BY <3>2, <1>3, MergeAssumption DEF TextInv
      <4> QED BY <2>2, <4>1, <1>4 DEF LandInv
    <3> QED BY <2>2, <3>1, <3>2, <1>2
  <2>3. main'[g] # Absent /\ main'[g][r] = x => <<g, r>> \in landed'[x]
    BY <2>2, <1>4 DEF LandInv
  <2>4. ASSUME NEW u \in Worker, origin[u][g] # Absent, origin[u][g][r] = x PROVE <<g, r>> \in landed'[x]
    BY <2>4, <1>4 DEF LandInv
  <2> QED BY <2>1, <2>3, <2>4
<1>9. NoLostEdit'
  <2> SUFFICES ASSUME NEW x \in Worker, NEW g \in File, NEW r \in Region,
                      <<g, r>> \in landed'[x], Clean(g), \A u \in Worker \ {x} : <<g, r>> \notin edits[u]
               PROVE main'[g][r] = x
    <3>1. UNCHANGED <<pc, sandbox, base, origin, edits>>
      BY <1>1
    <3> QED BY <3>1 DEF NoLostEdit, Clean, Leftover
  <2>1. CASE g # f
    BY <2>1, <1>4 DEF NoLostEdit
  <2>2. CASE g = f /\ <<g, r>> \in landed[x]
    <3>1. main[f][r] = x /\ main[f] # Absent
      BY <2>2 DEF NoLostEdit, LandInv
    <3>2. new[r] = x
      BY <2>2, <3>1, <1>2
    <3> QED BY <2>2, <3>2, <1>4
  <2>3. CASE g = f /\ <<g, r>> \notin landed[x]
    <3>1. x = w /\ <<f, r>> \in edits[w]
      BY <2>3, <1>4
    <3>2. sandbox[w][f][r] = w
      BY <2>3, <3>1 DEF EditInv
    <3>3. ASSUME base[w][f] # Absent, sandbox[w][f][r] = base[w][f][r] PROVE FALSE
      <4>1. base[w][f] = origin[w][f] /\ origin[w][f][r] = w
        BY <2>3, <3>2, <3>3 DEF Clean, Leftover
      <4> QED BY <2>3, <3>1, <3>3, <4>1 DEF LandInv
    <3>4. new[r] = w
      BY <3>2, <3>3, <1>2
    <3> QED BY <2>3, <3>1, <3>4, <1>4
  <2> QED BY <2>1, <2>2, <2>3
<1> QED BY <1>5, <1>6, <1>7, <1>8, <1>9

LEMMA RaiseKeeps ==
  ASSUME Inv, NEW w \in Worker, NEW f \in File, RaiseConflict(w, f) PROVE Inv'
<1> USE DEF Inv
<1>1. /\ pc[w] = "merge" /\ pc' = [pc EXCEPT ![w] = "conflict"]
      /\ UNCHANGED <<main, todo, sandbox, base, origin, edits, landed>>
  BY DEF RaiseConflict, IsNext
<1>2. /\ \A x \in Worker : pc'[x] = pc[x] \/ (pc[x] = "merge" /\ pc'[x] = "conflict")
      /\ pc' \in [Worker -> {"new", "copy", "base", "merge", "conflict"}]
  BY <1>1 DEF TypeOK
<1>3. TypeOK'
  BY <1>1, <1>2 DEF TypeOK
<1>4. CloneInv' /\ EditInv'
  BY <1>1, <1>2 DEF CloneInv, EditInv
<1>5. TextInv' /\ LandInv' /\ NoLostEdit'
  BY <1>1 DEF TextInv, LandInv, NoLostEdit, Clean, Leftover
<1> QED BY <1>3, <1>4, <1>5

LEMMA NextInv == Inv /\ [Next]_vars => Inv'
<1> SUFFICES ASSUME Inv, [Next]_vars PROVE Inv'
  OBVIOUS
<1>1. CASE Next
  <2>1. PICK w \in Worker : Step(w)
    BY <1>1 DEF Next
  <2> QED BY <2>1, ListKeeps, CopyKeeps, ReadBaseKeeps, WriteMainKeeps, EditKeeps, MergeFileKeeps, RaiseKeeps DEF Step
<1>2. CASE UNCHANGED vars
  BY <1>2 DEF vars, Inv, TypeOK, CloneInv, TextInv, EditInv, LandInv, NoLostEdit, Clean, Leftover
<1> QED BY <1>1, <1>2
-----------------------------------------------------------------------------
\* The inductive invariant holds of clones, edits and merges in any order.
THEOREM Invariance == Spec => []Inv
<1>1. Init => Inv
  BY InitInv
<1>2. Inv /\ [Next]_vars => Inv'
  BY NextInv
<1> QED BY <1>1, <1>2, PTL DEF Spec

\* merge_into_main: an edit that has reached main stays there unless someone
\* else edits the same region, whatever is cloned and merged.
THEOREM NothingLost == Spec => []NoLostEdit
<1>1. Inv => NoLostEdit
  BY DEF Inv
<1> QED BY <1>1, Invariance, PTL

\* merge_into_main: a merge never replaces text its worker had not copied,
\* unless the file was new to the worker or its clone was torn.
THEOREM NothingUnseen == Spec => OverlapSeen
<1>1. ASSUME Inv, [Next]_vars, NEW w \in Worker, NEW f \in File, NEW r \in Region, ReplacesUnseen(w, f, r)
      PROVE  origin[w][f] = Absent \/ base[w][f] # origin[w][f]
  <2>1. MergeFile(w, f)
    <3>1. pc[w] = "merge" /\ f \in todo[w] /\ f \notin todo'[w]
      BY <1>1 DEF ReplacesUnseen
    <3>2. PICK x \in Worker : Step(x)
      BY <1>1, <3>1 DEF vars, Next
    <3>3. x = w
      BY <1>1, <3>1, <3>2 DEF Step, List, Copy, ReadBase, WriteMain, Edit, MergeFile, RaiseConflict, Inv, TypeOK
    <3> QED BY <1>1, <3>1, <3>2, <3>3 DEF Step, List, Copy, ReadBase, WriteMain, Edit, MergeFile, RaiseConflict, Inv, TypeOK
  <2>2. SUFFICES ASSUME origin[w][f] # Absent, base[w][f] = origin[w][f] PROVE FALSE
    OBVIOUS
  <2>3. /\ pc[w] = "merge" /\ f \in todo[w] /\ ~Conflict(w, f)
        /\ main'[f] = Merged(w, f) /\ main[f] # Absent /\ main'[f][r] # main[f][r]
        /\ main[f][r] # base[w][f][r]
    BY <1>1, <2>1, <2>2 DEF MergeFile, IsNext, ReplacesUnseen, Inv, TypeOK, Texts
  <2>4. Merged(w, f)[r] = sandbox[w][f][r]
    BY <1>1, <2>3, MergeSound
  <2>5. main[f] # sandbox[w][f] /\ ~FastForward(w, f)
    BY <2>2, <2>3, <2>4 DEF FastForward
  <2>6. Merged(w, f)[r] = IF sandbox[w][f][r] = base[w][f][r] THEN main[f][r] ELSE sandbox[w][f][r]
    BY <2>3, <2>5 DEF Merged, ThreeWay
  <2>7. Overlap(base[w][f], sandbox[w][f], main[f])
    BY <2>3, <2>4, <2>6 DEF Overlap
  <2> QED BY <2>3, <2>5, <2>7 DEF Conflict
<1>2. Inv /\ [Next]_vars => [\A w \in Worker, f \in File, r \in Region :
         ReplacesUnseen(w, f, r) => origin[w][f] = Absent \/ base[w][f] # origin[w][f]]_vars
  BY <1>1
<1> QED BY <1>2, Invariance, PTL DEF Spec, OverlapSeen
=============================================================================
