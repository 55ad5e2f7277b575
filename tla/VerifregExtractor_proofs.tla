----------------------- MODULE VerifregExtractor_proofs -----------------------
(***************************************************************************)
(* The verified registry extractor writes only true rows and events, for   *)
(* every set of addresses, every chain length and every registry history, *)
(* in whatever order the heights are run.                                  *)
(***************************************************************************)
EXTENDS VerifregExtractor, TLAPS

USE VerifregAssumptions

\* What one table's extraction returns at height e: rows and events at e,
\* a row with the address's datacap in the current table, an Added event
\* exactly for an address present there.  Both branches (the dump and the
\* diff) have this shape.
LEMMA ExtractTableFacts ==
    ASSUME NEW p \in Table, NEW c \in Table, NEW hp \in BOOLEAN, NEW e \in Epochs
    PROVE  LET x == ExtractTable(p, c, hp, e)
           IN  /\ x.rows \subseteq Row /\ x.events \subseteq Event
               /\ \A r \in x.rows : r[1] = e /\ c[r[2]] = r[3]
               /\ \A ev \in x.events : /\ ev[1] = e
                                       /\ (ev[3] = "Added") <=> (c[ev[2]] # Absent)
<1>1. CASE ~hp
    BY <1>1 DEF ExtractTable, Keys, Table, Row, Event
<1>2. CASE hp
    BY <1>2 DEF ExtractTable, Added, Removed, Modified, Table, Row, Event
<1>3. QED
    BY <1>1, <1>2

\* The extraction context of a height holds the state at that height as
\* its current state, and some registry state as its previous one.
LEMMA NewContextFacts ==
    ASSUME chain \in [Epochs -> RegState], NEW e \in Epochs
    PROVE  /\ NewContext(e).cur = chain[e]
           /\ NewContext(e).prev \in RegState
           /\ NewContext(e).hasPrev \in BOOLEAN
BY DEF NewContext, Epochs

Inv == TypeOK /\ ExtractedFactsHold

LEMMA InitInv == Init => Inv
BY DEF Init, Inv, TypeOK, ExtractedFactsHold

LEMMA ExtractInv ==
    ASSUME Inv, NEW e \in Epochs, Extract(e)
    PROVE  Inv'
<1> DEFINE ctx == NewContext(e)
           v   == ExtractVerifiers(ctx, e)
           c   == ExtractVerifiedClients(ctx, e)
<1>1. /\ verifiers' = verifiers \cup v.rows
      /\ verifierEvents' = verifierEvents \cup v.events
      /\ clients' = clients \cup c.rows
      /\ clientEvents' = clientEvents \cup c.events
      /\ done' = done \cup {e}
      /\ UNCHANGED <<born, chain>>
    BY DEF Extract, ctx, v, c
<1>2. /\ ctx.cur = chain[e] /\ ctx.prev \in RegState /\ ctx.hasPrev \in BOOLEAN
    BY NewContextFacts DEF Inv, TypeOK, ctx
<1>3. /\ v.rows \subseteq Row /\ v.events \subseteq Event
      /\ \A r \in v.rows : r[1] = e /\ chain[e].verifiers[r[2]] = r[3]
      /\ \A ev \in v.events : /\ ev[1] = e
                              /\ (ev[3] = "Added") <=> (chain[e].verifiers[ev[2]] # Absent)
    <2>1. ctx.prev.verifiers \in Table /\ chain[e].verifiers \in Table
        BY <1>2 DEF Inv, TypeOK, RegState
    <2>2. QED
        BY <1>2, <2>1, ExtractTableFacts DEF v, ExtractVerifiers
<1>4. /\ c.rows \subseteq Row /\ c.events \subseteq Event
      /\ \A r \in c.rows : r[1] = e /\ chain[e].clients[r[2]] = r[3]
      /\ \A ev \in c.events : /\ ev[1] = e
                              /\ (ev[3] = "Added") <=> (chain[e].clients[ev[2]] # Absent)
    <2>1. ctx.prev.clients \in Table /\ chain[e].clients \in Table
        BY <1>2 DEF Inv, TypeOK, RegState
    <2>2. QED
        BY <1>2, <2>1, ExtractTableFacts DEF c, ExtractVerifiedClients
<1>5. TypeOK'
    BY <1>1, <1>3, <1>4 DEF Inv, TypeOK
<1>6. ExtractedFactsHold'
    BY <1>1, <1>3, <1>4 DEF Inv, ExtractedFactsHold
<1>7. QED
    BY <1>5, <1>6 DEF Inv

LEMMA NextInv ==
    ASSUME Inv, [Next]_vars
    PROVE  Inv'
<1>1. CASE \E e \in Epochs : Extract(e)
    BY <1>1, ExtractInv
<1>2. CASE UNCHANGED vars
    BY <1>2 DEF vars, Inv, TypeOK, ExtractedFactsHold
<1>3. QED
    BY <1>1, <1>2 DEF Next

\* Whatever the order in which the walker, the watcher and gap fills run
\* Extract over the heights, every verifier and client row it persisted
\* carries the datacap the address had at that height, and every Added or
\* Removed event agrees with the registry at that height.
THEOREM ExtractedFactsHoldHolds == Spec => []ExtractedFactsHold
<1>1. Init => Inv
    BY InitInv
<1>2. Inv /\ [Next]_vars => Inv'
    BY NextInv
<1>3. Inv => ExtractedFactsHold
    BY DEF Inv
<1>4. QED
    BY <1>1, <1>2, <1>3, PTL DEF Spec

=============================================================================
