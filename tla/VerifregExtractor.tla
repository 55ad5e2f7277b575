-------------------------- MODULE VerifregExtractor --------------------------
(***************************************************************************)
(* The verified registry extractor (src/tasks/actorstate/verifreg.go).     *)
(* At every tipset at which the verified registry actor changed, the       *)
(* actor-state task calls Extract, which builds an extraction context      *)
(* (the previous and current registry state) and turns it into rows of    *)
(* the verifier and client tables, with their datacap, and Added/Removed   *)
(* events.  Without a previous state the whole current state is dumped as *)
(* Added; with one, the diff of the two states is.                         *)
(*                                                                         *)
(* The chain is fixed: one tipset per height 0..MaxEpoch; the actor exists *)
(* from height born on; chain[e] is its state at height e.  A table is a   *)
(* function from addresses to a datacap or Absent.  The task may run the   *)
(* heights in any order (the walker, the watcher and gap fills), and a     *)
(* height's rows are written at most once.                                 *)
(***************************************************************************)
EXTENDS Naturals, FiniteSets

CONSTANTS
    Addrs,     \* addresses of verifiers and clients
    Caps,      \* datacap values
    MaxEpoch,  \* height of the chain head
    Absent     \* no entry for an address

ASSUME VerifregAssumptions ==
    /\ Addrs # {}
    /\ MaxEpoch \in Nat
    /\ Absent \notin Caps

Epochs == 0..MaxEpoch
Table == [Addrs -> Caps \cup {Absent}]
RegState == [verifiers : Table, clients : Table]
Row == Epochs \X Addrs \X Caps                 \* <<height, address, datacap>>
Event == Epochs \X Addrs \X {"Added", "Removed"}

VARIABLES
    born,            \* first height at which the actor exists
    chain,           \* chain[e]: the registry state at height e
    done,            \* heights the extractor has run at
    verifiers,       \* rows of verified_registry_verifiers
    verifierEvents,  \* rows of verified_registry_verifier_events
    clients,         \* rows of verified_registry_verified_clients
    clientEvents     \* rows of verified_registry_client_events

vars == <<born, chain, done, verifiers, verifierEvents, clients, clientEvents>>

TypeOK ==
    /\ born \in Epochs
    /\ chain \in [Epochs -> RegState]
    /\ done \subseteq Epochs
    /\ verifiers \subseteq Row /\ clients \subseteq Row
    /\ verifierEvents \subseteq Event /\ clientEvents \subseteq Event

Keys(t) == { a \in Addrs : t[a] # Absent }

\* ChangedActors (outside src/): the actor is new at e or its state changed.
ActorChanged(e) == e = born \/ (e > born /\ chain[e] # chain[e - 1])

-----------------------------------------------------------------------------
(* The extraction context                                                  *)

\* NewVerifiedRegistryExtractorContext: the previous state is loaded from
\* the parent tipset unless e is 0 or the actor did not exist there; then
\* it is the current state object itself.  HasPreviousState compares the
\* two objects by identity, and treats height 1 as having none.
NewContext(e) ==
    LET loaded == e # 0 /\ e - 1 >= born
    IN  [ prev    |-> IF loaded THEN chain[e - 1] ELSE chain[e],
          cur     |-> chain[e],
          hasPrev |-> ~(e = 1 \/ ~loaded) ]

\* verifreg.DiffVerifiers and DiffVerifiedClients (outside src/).
Added(p, c)    == { a \in Addrs : p[a] = Absent /\ c[a] # Absent }
Removed(p, c)  == { a \in Addrs : p[a] # Absent /\ c[a] = Absent }
Modified(p, c) == { a \in Addrs : p[a] # Absent /\ c[a] # Absent /\ p[a] # c[a] }

\* Mutant: a modified entry's row carries the datacap before the change.
ExtractTableModifiedBefore(p, c, hasPrev, e) ==
    IF ~hasPrev
    THEN [ rows   |-> { <<e, a, c[a]>> : a \in Keys(c) },
           events |-> { <<e, a, "Added">> : a \in Keys(c) } ]
    ELSE [ rows   |-> { <<e, a, c[a]>> : a \in Added(p, c) }
                      \cup { <<e, a, p[a]>> : a \in Modified(p, c) },
           events |-> { <<e, a, "Added">> : a \in Added(p, c) }
                      \cup { <<e, a, "Removed">> : a \in Removed(p, c) } ]

\* ExtractVerifiers / ExtractVerifiedClients over one table: a dump of the
\* current table, or a row for every added or modified entry with its new
\* datacap and an event for every added or removed one.
ExtractTable(p, c, hasPrev, e) ==
    IF ~hasPrev
    THEN [ rows   |-> { <<e, a, c[a]>> : a \in Keys(c) },
           events |-> { <<e, a, "Added">> : a \in Keys(c) } ]
    ELSE [ rows   |-> { <<e, a, c[a]>> : a \in Added(p, c) \cup Modified(p, c) },
           events |-> { <<e, a, "Added">> : a \in Added(p, c) }
                      \cup { <<e, a, "Removed">> : a \in Removed(p, c) } ]

ExtractVerifiers(ctx, e) ==
    ExtractTable(ctx.prev.verifiers, ctx.cur.verifiers, ctx.hasPrev, e)

ExtractVerifiedClients(ctx, e) ==
    ExtractTable(ctx.prev.clients, ctx.cur.clients, ctx.hasPrev, e)

-----------------------------------------------------------------------------
(* Extract                                                                 *)

\* Any history of the registry from any creation height.
Init ==
    /\ born \in Epochs
    /\ chain \in [Epochs -> RegState]
    /\ done = {}
    /\ verifiers = {} /\ verifierEvents = {}
    /\ clients = {} /\ clientEvents = {}

\* Extract at height e, its four lists persisted together.
Extract(e) ==
    /\ e >= born /\ e \notin done /\ ActorChanged(e)
    /\ LET ctx == NewContext(e)
           v   == ExtractVerifiers(ctx, e)
           c   == ExtractVerifiedClients(ctx, e)
       IN  /\ verifiers' = verifiers \cup v.rows
           /\ verifierEvents' = verifierEvents \cup v.events
           /\ clients' = clients \cup c.rows
           /\ clientEvents' = clientEvents \cup c.events
    /\ done' = done \cup {e}
    /\ UNCHANGED <<born, chain>>

Next == \E e \in Epochs : Extract(e)

Spec == Init /\ [][Next]_vars

-----------------------------------------------------------------------------
(* Properties                                                              *)

\* Every row and event the extractor wrote is true of the chain at its
\* height: a verifier or client row carries the datacap the address had
\* there, an Added event names an address present there, a Removed event
\* one absent there.
ExtractedFactsHold ==
    /\ \A r \in verifiers : chain[r[1]].verifiers[r[2]] = r[3]
    /\ \A r \in clients : chain[r[1]].clients[r[2]] = r[3]
    /\ \A ev \in verifierEvents :
          (ev[3] = "Added") <=> (chain[ev[1]].verifiers[ev[2]] # Absent)
    /\ \A ev \in clientEvents :
          (ev[3] = "Added") <=> (chain[ev[1]].clients[ev[2]] # Absent)

\* Replaying the verifier events up to height e: a is present when its
\* latest event at or below e is Added.
ReplayedPresent(a, e) ==
    \E ev \in verifierEvents :
        /\ ev[2] = a /\ ev[1] <= e /\ ev[3] = "Added"
        /\ ~\E ev2 \in verifierEvents :
              ev2[2] = a /\ ev[1] < ev2[1] /\ ev2[1] <= e /\ ev2[3] = "Removed"

\* Section 4.1 of the design: a dump of every entry as Added happens only
\* when there is no previous state (genesis, or the actor just created);
\* otherwise the diff is taken.  So once the extractor has run at every
\* height up to e at which the actor changed, replaying the verifier events
\* gives exactly the verifiers of height e.
ReplayMatchesState ==
    \A e \in Epochs :
        (e >= born /\ \A d \in born..e : ActorChanged(d) => d \in done)
            => \A a \in Addrs : ReplayedPresent(a, e) <=> chain[e].verifiers[a] # Absent

=============================================================================
