------------------------ MODULE VectorSchema_proofs ------------------------
(***************************************************************************)
(* What the schema of the vector tables keeps true of every sequence of    *)
(* statements, for any number of generations and attempts, and that the    *)
(* tables read together implement GenerationLife.                          *)
(***************************************************************************)
EXTENDS VectorSchema, TLAPS

USE ConstantsAssumption DEF Attempts

Inv == TypeOK /\ RowsHaveTombstones /\ CollectedIsNotPublished

LEMMA RowsExist ==
    /\ \A row \in GcRows : row.state # None /\ row # NoGc
    /\ NoGc.state = None
    /\ None \notin Lives /\ None \notin Outcomes
BY DEF GcRows, GcStates, NoGc, None, Lives, Outcomes

LEMMA InitInv == Init => Inv
BY RowsExist DEF Init, Inv, TypeOK, RowsHaveTombstones, CollectedIsNotPublished

LEMMA NextInv == Inv /\ [Next]_vars => Inv'
<1> SUFFICES ASSUME Inv, [Next]_vars PROVE Inv'
  OBVIOUS
<1> USE RowsExist DEF Inv, TypeOK, RowsHaveTombstones, CollectedIsNotPublished
<1>1. ASSUME NEW g \in Generations, InsertTombstone(g) PROVE Inv'
  BY <1>1 DEF InsertTombstone, Lives
<1>2. ASSUME NEW g \in Generations, NEW life \in Lives, UpdateTombstone(g, life) PROVE Inv'
  BY <1>2 DEF UpdateTombstone, ValidTransition, Lives
<1>3. ASSUME NEW g \in Generations, NEW r \in {"active", "quarantined"},
             InsertBuild(g, r) \/ UpdateBuild(g, r) \/ DeleteBuild(g)
      PROVE Inv'
  BY <1>3 DEF InsertBuild, UpdateBuild, DeleteBuild, None
<1>4. ASSUME NEW g \in Generations, InsertGeneration(g) PROVE Inv'
  BY <1>4 DEF InsertGeneration, None
<1>5. ASSUME NEW g \in Generations, NEW row \in GcRows, InsertGc(g, row) \/ UpdateGc(g, row)
      PROVE Inv'
  <2>1. gc' = [gc EXCEPT ![g] = row] /\ RowChecks(row) /\ ~gen[g]
    BY <1>5 DEF InsertGc, UpdateGc
  <2>2. tomb[g] \in {"gc_pending", "gc_complete", "gc_failed"}
    BY <1>5 DEF InsertGc, UpdateGc
  <2> QED
    BY <1>5, <2>1, <2>2 DEF InsertGc, UpdateGc, RowChecks
<1>6. ASSUME NEW g \in Generations, NEW a \in Attempts, NEW o \in Outcomes \cup {"open"},
             InsertAttempt(g, a, o) \/ UpdateAttempt(g, a, o) \/ DeleteAttempt(g, a)
      PROVE Inv'
  <2>1. UNCHANGED <<tomb, build, gen, gc>>
    BY <1>6 DEF InsertAttempt, UpdateAttempt, DeleteAttempt
  <2>2. PICK x \in Outcomes \cup {"open", None} : audit' = [audit EXCEPT ![g][a] = x]
    BY <1>6 DEF InsertAttempt, UpdateAttempt, DeleteAttempt
  <2>3. audit' \in [Generations -> [Attempts -> Outcomes \cup {"open", None}]]
    BY <2>2
  <2> QED
    BY <2>1, <2>3 DEF RowChecks
<1>7. CASE UNCHANGED vars
  BY <1>7 DEF vars, RowChecks
<1> QED
  BY <1>1, <1>2, <1>3, <1>4, <1>5, <1>6, <1>7 DEF Next

\* The rows stay well typed, and within the CHECKs, under every statement.
THEOREM TypeCorrect == Spec => []TypeOK
BY InitInv, NextInv, PTL DEF Spec, Inv

\* A published generation is never the target of a GC job, in any order of
\* statements.
THEOREM NeverCollectsPublished == Spec => []CollectedIsNotPublished
BY InitInv, NextInv, PTL DEF Spec, Inv

-----------------------------------------------------------------------------

LifeOf == [g \in Generations |-> Life(g)]

\* A statement on the rows of g changes at most the life of g.
LEMMA OneLife ==
    ASSUME NEW g \in Generations,
           \A h \in Generations \ {g} :
              tomb'[h] = tomb[h] /\ gen'[h] = gen[h] /\ gc'[h] = gc[h]
    PROVE  LifeOf' = [LifeOf EXCEPT ![g] = Life(g)']
<1>1. \A h \in Generations \ {g} : Life(h)' = Life(h)
  BY DEF Life
<1> QED
  BY <1>1 DEF LifeOf

LEMMA LifeInit == Init => Abstract!Init
BY RowsExist DEF Init, Abstract!Init, Life, None

LEMMA LifeStep == Inv /\ [Next]_vars => [Abstract!Next]_(Abstract!vars)
<1> SUFFICES ASSUME Inv, [Next]_vars PROVE [Abstract!Next]_(Abstract!vars)
  OBVIOUS
<1> USE RowsExist DEF Inv, TypeOK, CollectedIsNotPublished, RowsHaveTombstones
<1>1. ASSUME NEW g \in Generations, LifeOf' = [LifeOf EXCEPT ![g] = Life(g)'],
             \/ Life(g)' = Life(g)
             \/ Life(g) = "free" /\ Life(g)' = "reserved"
             \/ Life(g) = "reserved" /\ Life(g)' \in {"published", "dropped"}
             \/ Life(g) = "dropped" /\ Life(g)' \in {"erased", "abandoned"}
      PROVE  [Abstract!Next]_(Abstract!vars)
  <2>1. CASE Life(g)' = Life(g)
    BY <1>1, <2>1 DEF LifeOf, Abstract!vars
  <2>2. CASE Life(g) = "free" /\ Life(g)' = "reserved"
    BY <1>1, <2>2 DEF LifeOf, Abstract!Next, Abstract!Reserve, Abstract!Becomes
  <2>3. CASE Life(g) = "reserved" /\ Life(g)' = "published"
    BY <1>1, <2>3 DEF LifeOf, Abstract!Next, Abstract!Publish, Abstract!Becomes
  <2>4. CASE Life(g) = "reserved" /\ Life(g)' = "dropped"
    <3>1. Abstract!Drop({g})
      BY <1>1, <2>4 DEF LifeOf, Abstract!Drop
    <3> QED
      BY <3>1 DEF Abstract!Next
  <2>5. CASE Life(g) = "dropped" /\ Life(g)' = "erased"
    BY <1>1, <2>5 DEF LifeOf, Abstract!Next, Abstract!Erased, Abstract!Becomes
  <2>6. CASE Life(g) = "dropped" /\ Life(g)' = "abandoned"
    BY <1>1, <2>6 DEF LifeOf, Abstract!Next, Abstract!GiveUp, Abstract!Becomes
  <2> QED
    BY <1>1, <2>1, <2>2, <2>3, <2>4, <2>5, <2>6
<1>2. ASSUME NEW g \in Generations, InsertTombstone(g) PROVE [Abstract!Next]_(Abstract!vars)
  <2>1. LifeOf' = [LifeOf EXCEPT ![g] = Life(g)']
    BY <1>2, OneLife DEF InsertTombstone
  <2>2. Life(g) = "free" /\ Life(g)' = "reserved"
    BY <1>2 DEF InsertTombstone, Life, None
  <2> QED
    BY <1>1, <2>1, <2>2
<1>3. ASSUME NEW g \in Generations, NEW life \in Lives, UpdateTombstone(g, life)
      PROVE [Abstract!Next]_(Abstract!vars)
  <2>1. LifeOf' = [LifeOf EXCEPT ![g] = Life(g)']
    BY <1>3, OneLife DEF UpdateTombstone
  <2>2. tomb'[g] = life /\ gen'[g] = gen[g] /\ gc'[g] = gc[g]
    BY <1>3 DEF UpdateTombstone
  <2>3. CASE life = tomb[g]
    BY <1>1, <2>1, <2>2, <2>3 DEF Life
  <2>4. CASE tomb[g] = "building" /\ life \in {"committed", "gc_pending"}
    <3>1. gc[g].state = None
      BY <2>4
    <3> QED
      BY <1>1, <2>1, <2>2, <2>4, <3>1 DEF Life, None
  <2>5. CASE tomb[g] = "gc_pending" /\ life \in {"gc_complete", "gc_failed"}
    BY <1>1, <2>1, <2>2, <2>5 DEF Life, None
  <2> QED
    BY <1>3, <2>3, <2>4, <2>5 DEF UpdateTombstone, ValidTransition
<1>4. ASSUME NEW g \in Generations, InsertGeneration(g) PROVE [Abstract!Next]_(Abstract!vars)
  <2>1. LifeOf' = [LifeOf EXCEPT ![g] = Life(g)']
    BY <1>4, OneLife DEF InsertGeneration
  <2>2. Life(g) = "reserved" /\ Life(g)' = "published"
    BY <1>4 DEF InsertGeneration, Life, None
  <2> QED
    BY <1>1, <2>1, <2>2
<1>5. ASSUME NEW g \in Generations, NEW row \in GcRows, InsertGc(g, row) \/ UpdateGc(g, row)
      PROVE [Abstract!Next]_(Abstract!vars)
  <2>1. /\ LifeOf' = [LifeOf EXCEPT ![g] = Life(g)']
        /\ gc'[g] = row /\ gen'[g] = gen[g] /\ tomb'[g] = tomb[g] /\ ~gen[g]
    <3>1. \A h \in Generations \ {g} :
             tomb'[h] = tomb[h] /\ gen'[h] = gen[h] /\ gc'[h] = gc[h]
      BY <1>5 DEF InsertGc, UpdateGc
    <3> QED
      BY <1>5, <3>1, OneLife DEF InsertGc, UpdateGc
  <2>2. tomb[g] \in {"gc_pending", "gc_complete", "gc_failed"}
    BY <1>5 DEF InsertGc, UpdateGc
  <2>3. gc[g].state \notin {"complete", "failed"}
    BY <1>5 DEF InsertGc, UpdateGc, None
  <2>4. Life(g) = "dropped" /\ Life(g)' \in {"dropped", "erased", "abandoned"}
    BY <2>1, <2>2, <2>3 DEF Life, None
  <2> QED
    BY <1>1, <2>1, <2>4
<1>6. CASE UNCHANGED <<tomb, gen, gc>>
  BY <1>6 DEF Abstract!vars, Life
<1> QED
  BY <1>2, <1>3, <1>4, <1>5, <1>6 DEF Next, vars, InsertBuild, UpdateBuild, DeleteBuild,
     InsertAttempt, UpdateAttempt, DeleteAttempt

\* Whatever statements are sent, the tables give each generation the life that
\* the store of text vectors promises.
THEOREM SchemaImplementsLife == Spec => ImplementsGenerationLife
BY InitInv, NextInv, LifeInit, LifeStep, PTL DEF Spec, ImplementsGenerationLife, Abstract!Spec
=============================================================================
