------------------------------ MODULE ActorsProofs ------------------------------
(***************************************************************************)
(* A merge by the entity resolver moves what it has read, for any number of *)
(* actors, presences and requests, and whatever the other requests do to    *)
(* the library between its steps.                                            *)
(***************************************************************************)
EXTENDS Actors, TLAPS

Rows == [id : Nat, owner : Nat, account : Accounts, known : BOOLEAN]

\* A presence is told by its id, and an account known by its own.
LibraryInv ==
  /\ newActor \in Nat /\ newPresence \in Nat /\ actors \subseteq Nat
  /\ presences \subseteq Rows
  /\ \A p \in presences : p.id < newPresence
  /\ \A p, q \in presences : p.id = q.id => p = q
  /\ \A p, q \in presences : p.known /\ q.known /\ p.account = q.account => p = q

\* What a merge has read and dealt with, it has moved.
MergeInv ==
  /\ into \in [Mergers -> Nat] /\ collided \in [Mergers -> BOOLEAN]
  /\ merging \in [Mergers -> {"no", "look", "move", "delete"}]
  /\ toMove \in [Mergers -> SUBSET Nat] /\ moved \in [Mergers -> SUBSET Nat]
  /\ looked \in [Mergers -> SUBSET Nat]
  /\ \A m \in Mergers :
       /\ \A i \in looked[m] : i < newPresence
       /\ merging[m] # "move" => toMove[m] = {}
       /\ ~collided[m] => \A p \in presences :
            p.known /\ p.id \in looked[m] => p.id \in toMove[m] \cup moved[m]

ActorsInv == LibraryInv /\ MergeInv

LEMMA ActorsInvInit == ActorsInit => ActorsInv
<1> SUFFICES ASSUME ActorsInit PROVE ActorsInv
  OBVIOUS
<1>1. LibraryInv
  BY DEF ActorsInit, LibraryInv
<1>2. MergeInv
  BY DEF ActorsInit, MergeInv
<1> QED BY <1>1, <1>2 DEF ActorsInv

-----------------------------------------------------------------------------
(* The library *)

\* The rows that follow are old ones, perhaps with another owner, and a new one.
Follows(new) ==
  \A p \in new :
    \/ p.id = newPresence /\ newPresence' = newPresence + 1
    \/ \E q \in presences : q.id = p.id /\ q.known = p.known

\* Owners may change.
LEMMA OwnersChange ==
  ASSUME LibraryInv, NEW kept \in SUBSET presences, NEW others \in SUBSET presences,
         NEW o \in Nat, kept \cap others = {},
         presences' = kept \cup {[p EXCEPT !.owner = o] : p \in others}
  PROVE  /\ presences' \subseteq Rows /\ \A p \in presences' : \E q \in presences : q.id = p.id /\ q.known = p.known
         /\ \A p \in presences' : p.id < newPresence
         /\ \A p, q \in presences' : p.id = q.id => p = q
         /\ \A p, q \in presences' : p.known /\ q.known /\ p.account = q.account => p = q
<1> DEFINE Owned(p) == [p EXCEPT !.owner = o]
<1>1. \A p \in presences : /\ Owned(p) \in Rows /\ Owned(p).id = p.id
                           /\ Owned(p).known = p.known /\ Owned(p).account = p.account
  BY DEF LibraryInv, Rows
<1>2. \A p \in presences' : \/ p \in kept
                            \/ \E q \in others : p = Owned(q)
  OBVIOUS
<1> HIDE DEF Owned
<1>3. \A p \in presences' : \E q \in presences :
        /\ q.id = p.id /\ q.known = p.known /\ q.account = p.account
        /\ q \in kept => p = q
        /\ q \in others => p = Owned(q)
        /\ q \in kept \cup others
  BY <1>1, <1>2
<1>4. presences' \subseteq Rows
  BY <1>1, <1>2 DEF LibraryInv
<1>5. \A p \in presences' : p.id < newPresence
  BY <1>3 DEF LibraryInv
<1>6. ASSUME NEW p \in presences', NEW q \in presences', p.id = q.id PROVE p = q
  BY <1>3, <1>6 DEF LibraryInv
<1>7. ASSUME NEW p \in presences', NEW q \in presences', p.known, q.known, p.account = q.account PROVE p = q
  BY <1>3, <1>7 DEF LibraryInv
<1> QED BY <1>3, <1>4, <1>5, <1>6, <1>7

\* A new row has a new id.
LEMMA RowAdded ==
  ASSUME LibraryInv, NEW a \in Nat, NEW account \in Accounts, NEW known \in BOOLEAN,
         NewPresence(a, account, known), ~Taken(account, known), actors' \subseteq Nat, newActor' \in Nat
  PROVE  LibraryInv' /\ Follows(presences')
<1> DEFINE p == [id |-> newPresence, owner |-> a, account |-> account, known |-> known]
<1>1. /\ presences' = presences \cup {p} /\ newPresence' = newPresence + 1
      /\ newPresence \in Nat /\ p \in Rows
  BY DEF NewPresence, LibraryInv, Rows
<1>2. /\ p.id = newPresence
      /\ \A q \in presences : q.id \in Nat /\ q.id < newPresence /\ ~(known /\ q.known /\ q.account = account)
      /\ p.known = known /\ p.account = account
  BY DEF LibraryInv, Taken, Rows
<1> HIDE DEF p
<1>3. Follows(presences')
  BY <1>1, <1>2 DEF Follows
<1>4. \A q \in presences' : q.id < newPresence'
  BY <1>1, <1>2
<1>5. \A q, r \in presences' : q.id = r.id => q = r
  BY <1>1, <1>2 DEF LibraryInv
<1>6. \A q, r \in presences' : q.known /\ r.known /\ q.account = r.account => q = r
  BY <1>1, <1>2 DEF LibraryInv
<1> QED BY <1>1, <1>3, <1>4, <1>5, <1>6 DEF LibraryInv

\* What a merge knows of the rows it has read stays true of those that follow.
LEMMA MergesKeep ==
  ASSUME LibraryInv, MergeInv, UNCHANGED mergeVars, Follows(presences'),
         newPresence' \in Nat, newPresence' >= newPresence
  PROVE  MergeInv'
<1>1. UNCHANGED <<into, collided, merging, toMove, moved, looked>>
  BY DEF mergeVars
<1>2. ASSUME NEW m \in Mergers, NEW p \in presences', ~collided[m], p.known, p.id \in looked[m]
      PROVE  p.id \in toMove[m] \cup moved[m]
  <2>1. p.id < newPresence /\ newPresence \in Nat
    BY <1>2 DEF MergeInv, LibraryInv
  <2>2. p.id # newPresence
    BY <2>1
  <2>3. PICK q \in presences : q.id = p.id /\ q.known = p.known
    BY <2>2 DEF Follows
  <2> QED BY <1>2, <2>3 DEF MergeInv
<1>3. ASSUME NEW m \in Mergers, NEW i \in looked[m] PROVE i < newPresence'
  <2>1. i \in Nat /\ i < newPresence /\ newPresence \in Nat
    BY <1>3 DEF MergeInv, LibraryInv
  <2> QED BY <2>1
<1> QED BY <1>1, <1>2, <1>3 DEF MergeInv

\* The requests that are one step.
LEMMA OthersKeep ==
  ASSUME ActorsInv, ActorsNext, \A m \in Mergers : ~Merge(m)
  PROVE  ActorsInv'
<1> USE DEF ActorsInv
<1>0. actors \subseteq Nat /\ newActor \in Nat /\ ActorIds \subseteq Nat /\ newPresence \in Nat
  BY DEF LibraryInv, ActorIds
<1>1. CASE CreateActor
  <2>1. LibraryInv' /\ Follows(presences')
    BY <1>0, <1>1 DEF CreateActor, NewActor, LibraryInv, Follows
  <2> QED BY <1>0, <1>1, <2>1, MergesKeep DEF CreateActor
<1>2. ASSUME NEW account \in Accounts, NEW known \in BOOLEAN, CreateWith(account, known)
      PROVE  ActorsInv'
  <2>1. LibraryInv' /\ Follows(presences')
    BY <1>0, <1>2, RowAdded DEF CreateWith, NewActor
  <2>2. newPresence' = newPresence + 1 /\ UNCHANGED mergeVars
    BY <1>2 DEF CreateWith, NewPresence
  <2> QED BY <1>0, <2>1, <2>2, MergesKeep
<1>3. ASSUME NEW account \in Accounts, NEW known \in BOOLEAN, NEW a \in actors, AddPresence(a, account, known)
      PROVE  ActorsInv'
  <2>1. LibraryInv' /\ Follows(presences')
    BY <1>0, <1>3, RowAdded DEF AddPresence
  <2>2. newPresence' = newPresence + 1 /\ UNCHANGED mergeVars
    BY <1>3 DEF AddPresence, NewPresence
  <2> QED BY <1>0, <2>1, <2>2, MergesKeep
<1>4. ASSUME presences' \subseteq presences, actors' \subseteq actors, UNCHANGED <<newActor, newPresence, mergeVars>>
      PROVE  ActorsInv'
  <2>1. LibraryInv' /\ Follows(presences')
    BY <1>0, <1>4 DEF LibraryInv, Follows
  <2> QED BY <1>0, <1>4, <2>1, MergesKeep
<1>5. ASSUME NEW a \in actors, DeleteActor(a) PROVE ActorsInv'
  <2>1. presences' \subseteq presences /\ actors' \subseteq actors /\ UNCHANGED <<newActor, newPresence, mergeVars>>
    BY <1>5 DEF DeleteActor, Without
  <2> QED BY <2>1, <1>4
<1>6. ASSUME NEW a \in actors, NEW source \in actors, Absorb(a, source) PROVE ActorsInv'
  <2>1. presences' \subseteq presences /\ actors' \subseteq actors /\ UNCHANGED <<newActor, newPresence, mergeVars>>
    BY <1>6 DEF Absorb, Without
  <2> QED BY <2>1, <1>4
<1>7. ASSUME NEW p \in presences, RemovePresence(p) PROVE ActorsInv'
  <2>1. presences' \subseteq presences /\ actors' \subseteq actors /\ UNCHANGED <<newActor, newPresence, mergeVars>>
    BY <1>7 DEF RemovePresence
  <2> QED BY <2>1, <1>4
<1>8. ASSUME NEW a \in actors, NEW chosen \in SUBSET presences, Split(a, chosen) PROVE ActorsInv'
  <2>1. /\ presences' = (presences \ chosen) \cup {[p EXCEPT !.owner = newActor] : p \in chosen}
        /\ newActor' = newActor + 1 /\ actors' = actors \cup {newActor} /\ UNCHANGED <<newPresence, mergeVars>>
    BY <1>8 DEF Split, NewActor
  <2>2. /\ presences' \subseteq Rows /\ \A p \in presences' : \E q \in presences : q.id = p.id /\ q.known = p.known
        /\ \A p \in presences' : p.id < newPresence
        /\ \A p, q \in presences' : p.id = q.id => p = q
        /\ \A p, q \in presences' : p.known /\ q.known /\ p.account = q.account => p = q
    <3>1. /\ presences \ chosen \in SUBSET presences /\ chosen \in SUBSET presences
          /\ (presences \ chosen) \cap chosen = {} /\ newActor \in Nat /\ LibraryInv
      BY <1>0
    <3> QED BY <2>1, <3>1, OwnersChange
  <2>3. LibraryInv' /\ Follows(presences')
    BY <1>0, <2>1, <2>2 DEF LibraryInv, Follows
  <2> QED BY <1>0, <2>1, <2>3, MergesKeep
<1>9. ASSUME NEW r \in Adders, NEW account \in Accounts, NEW byId \in BOOLEAN, Lookup(r, account, byId)
      PROVE  ActorsInv'
  BY <1>4, <1>9 DEF Lookup, libraryVars
<1>10. ASSUME NEW r \in Adders, NEW account \in Accounts, NEW byId \in BOOLEAN, AddFound(r, account, byId)
       PROVE  ActorsInv'
  <2>1. CASE Taken(account, byId)
    BY <1>4, <1>10, <2>1 DEF AddFound
  <2>2. CASE ~Taken(account, byId)
    <3> NewActor /\ NewPresence(newActor, account, byId)
      BY <1>10, <2>2 DEF AddFound
    <3>1. LibraryInv' /\ Follows(presences')
      BY <1>0, <2>2, RowAdded DEF NewActor
    <3>2. newPresence' = newPresence + 1 /\ UNCHANGED mergeVars
      BY <1>10, <2>2 DEF AddFound, NewPresence
    <3> QED BY <1>0, <3>1, <3>2, MergesKeep
  <2> QED BY <2>1, <2>2
<1> QED
  BY <1>1, <1>2, <1>3, <1>5, <1>6, <1>7, <1>8, <1>9, <1>10 DEF ActorsNext

-----------------------------------------------------------------------------
(* The merge *)

\* Two rows are the same for a lookup by id only if they are one.
LEMMA SameIsOne ==
  ASSUME LibraryInv, NEW p \in presences, NEW q \in presences, p.known, Same(p, q)
  PROVE  p = q
BY DEF LibraryInv, Same

\* What was read is moved, or was the canonical actor's.
LEMMA MoveKeeps ==
  ASSUME ActorsInv, NEW m \in Mergers, MMove(m)
  PROVE  ActorsInv'
<1> DEFINE ps == {p \in presences : p.id \in toMove[m]}
<1>1. LibraryInv /\ MergeInv /\ UNCHANGED libraryVars
  BY DEF ActorsInv, MMove
<1>2. LibraryInv'
  BY <1>1 DEF LibraryInv, libraryVars
<1>3. /\ merging' = [merging EXCEPT ![m] = "delete"] /\ toMove' = [toMove EXCEPT ![m] = {}]
      /\ UNCHANGED into
      /\ looked' = [looked EXCEPT ![m] = @ \ {p.id : p \in {p \in ps : p.owner = into[m]}}]
  BY DEF MMove
<1>4. PICK set \in Movable(m, ps) :
        \/ /\ moved' = [moved EXCEPT ![m] = {}] /\ collided' = [collided EXCEPT ![m] = TRUE]
        \/ /\ moved' = [moved EXCEPT ![m] = @ \cup {p.id : p \in set}] /\ UNCHANGED collided
  <2> DEFINE alias == <<into[m], NameOf[atHand[m]]>>
  <2>1. \E set \in Movable(m, ps) :
          IF into[m] \notin actors \ gone[m] \/ alias \in aliases \cup given[m]
          THEN moved' = [moved EXCEPT ![m] = {}] /\ collided' = [collided EXCEPT ![m] = TRUE]
          ELSE moved' = [moved EXCEPT ![m] = @ \cup {p.id : p \in set}] /\ UNCHANGED collided
    BY DEF MMove
  <2> QED BY <2>1
<1>5. set \subseteq ps /\ \A p \in ps : p.id \in Nat
  BY <1>1 DEF Movable, LibraryInv, Rows
<1>6. ASSUME NEW p \in ps, p.known PROVE p \in set \/ p.owner = into[m] \/ p.id \in moved[m]
  <2> SUFFICES ASSUME p \notin set PROVE p.owner = into[m] \/ p.id \in moved[m]
    OBVIOUS
  <2>1. PICK q \in Has(m) \cup (set \ {p}) : Same(p, q)
    BY DEF Movable
  <2>2. q \in presences /\ p \in presences
    BY <1>5 DEF Has, Sees
  <2>3. p = q
    BY <1>1, <1>6, <2>1, <2>2, SameIsOne
  <2> QED BY <2>1, <2>3 DEF Has, Sees
<1> HIDE DEF ps
<1>7. /\ moved' \in [Mergers -> SUBSET Nat] /\ collided' \in [Mergers -> BOOLEAN]
      /\ looked' \in [Mergers -> SUBSET Nat] /\ toMove' \in [Mergers -> SUBSET Nat]
      /\ merging' \in [Mergers -> {"no", "look", "move", "delete"}] /\ into' \in [Mergers -> Nat]
  <2> DEFINE ids == {p.id : p \in set}
             others == {p.id : p \in {p \in ps : p.owner = into[m]}}
  <2>1. ids \in SUBSET Nat
    BY <1>5
  <2> HIDE DEF ids, others
  <2>2. looked[m] \ others \in SUBSET Nat /\ moved[m] \cup ids \in SUBSET Nat
    BY <1>1, <2>1 DEF MergeInv
  <2>3. moved' = [moved EXCEPT ![m] = {}] \/ moved' = [moved EXCEPT ![m] = moved[m] \cup ids]
    BY <1>4 DEF ids
  <2>4. looked' = [looked EXCEPT ![m] = looked[m] \ others]
    BY <1>3 DEF others
  <2>5. moved' \in [Mergers -> SUBSET Nat] /\ looked' \in [Mergers -> SUBSET Nat]
    BY <1>1, <2>2, <2>3, <2>4 DEF MergeInv
  <2>6. collided' \in [Mergers -> BOOLEAN]
    BY <1>1, <1>4 DEF MergeInv
  <2> QED BY <1>1, <1>3, <2>5, <2>6 DEF MergeInv
<1>8. ASSUME NEW k \in Mergers
      PROVE  /\ \A i \in looked'[k] : i < newPresence'
             /\ merging'[k] # "move" => toMove'[k] = {}
             /\ ~collided'[k] => \A p \in presences' :
                  p.known /\ p.id \in looked'[k] => p.id \in toMove'[k] \cup moved'[k]
  <2>0. presences' = presences /\ newPresence' = newPresence
    BY <1>1 DEF libraryVars
  <2>1. CASE k # m
    BY <1>1, <1>3, <1>4, <2>0, <2>1 DEF MergeInv
  <2>2. CASE k = m
    <3>1. /\ looked'[m] = looked[m] \ {p.id : p \in {p \in ps : p.owner = into[m]}}
          /\ toMove'[m] = {} /\ merging'[m] = "delete"
      BY <1>1, <1>3 DEF MergeInv
    <3>2. ASSUME ~collided'[m], NEW p \in presences, p.known, p.id \in looked'[m]
          PROVE  p.id \in moved'[m]
      <4>1. ~collided[m] /\ moved'[m] = moved[m] \cup {r.id : r \in set}
        BY <1>1, <1>4, <3>2 DEF MergeInv
      <4>2. CASE p \in ps
        BY <1>6, <3>1, <3>2, <4>1, <4>2
      <4>3. CASE p \notin ps
        BY <1>1, <3>1, <3>2, <4>1, <4>3 DEF MergeInv, ps
      <4> QED BY <4>2, <4>3
    <3> QED BY <1>1, <2>0, <2>2, <3>1, <3>2 DEF MergeInv
  <2> QED BY <2>1, <2>2
<1> QED BY <1>2, <1>7, <1>8 DEF ActorsInv, MergeInv

\* The transaction ends, and with it what the merge remembers.
LEMMA EndKeeps ==
  ASSUME ActorsInv, NEW m \in Mergers, MEnd(m), LibraryInv', Follows(presences')
  PROVE  ActorsInv'
<1>1. LibraryInv /\ MergeInv /\ newPresence' = newPresence /\ newPresence \in Nat
  BY DEF ActorsInv, MEnd, LibraryInv
<1>2. /\ merging' = [merging EXCEPT ![m] = "no"] /\ toMove' = [toMove EXCEPT ![m] = {}]
      /\ moved' = [moved EXCEPT ![m] = {}] /\ looked' = [looked EXCEPT ![m] = {}]
      /\ collided' = [collided EXCEPT ![m] = FALSE] /\ into' = [into EXCEPT ![m] = 1]
  BY DEF MEnd
<1>3. \A p \in presences' : \E q \in presences : q.id = p.id /\ q.known = p.known
  BY <1>1 DEF Follows
<1>4. /\ moved' \in [Mergers -> SUBSET Nat] /\ collided' \in [Mergers -> BOOLEAN]
      /\ looked' \in [Mergers -> SUBSET Nat] /\ toMove' \in [Mergers -> SUBSET Nat]
      /\ merging' \in [Mergers -> {"no", "look", "move", "delete"}] /\ into' \in [Mergers -> Nat]
  BY <1>1, <1>2 DEF MergeInv
<1>5. ASSUME NEW k \in Mergers
      PROVE  /\ \A i \in looked'[k] : i < newPresence'
             /\ merging'[k] # "move" => toMove'[k] = {}
             /\ ~collided'[k] => \A p \in presences' :
                  p.known /\ p.id \in looked'[k] => p.id \in toMove'[k] \cup moved'[k]
  <2>1. CASE k = m
    BY <1>1, <1>2, <2>1 DEF MergeInv
  <2>2. CASE k # m
    BY <1>1, <1>2, <1>3, <2>2 DEF MergeInv
  <2> QED BY <2>1, <2>2
<1> QED BY <1>4, <1>5 DEF ActorsInv, MergeInv

LEMMA MergeKeeps ==
  ASSUME ActorsInv, NEW m \in Mergers, Merge(m)
  PROVE  ActorsInv'
<1>0. LibraryInv /\ MergeInv
  BY DEF ActorsInv
<1>1. ASSUME NEW c \in actors, NEW duplicates, MBegin(m, c, duplicates) PROVE ActorsInv'
  <2>1. LibraryInv' /\ c \in Nat
    BY <1>0, <1>1 DEF MBegin, libraryVars, LibraryInv
  <2>2. MergeInv'
    BY <1>0, <1>1, <2>1 DEF MBegin, libraryVars, MergeInv
  <2> QED BY <2>1, <2>2 DEF ActorsInv
<1>2. ASSUME NEW d \in ActorIds, MMissing(m, d) PROVE ActorsInv'
  BY <1>0, <1>2 DEF MMissing, libraryVars, LibraryInv, MergeInv, ActorsInv
<1>3. ASSUME NEW d \in ActorIds, MLook(m, d) PROVE ActorsInv'
  <2>1. LibraryInv' /\ UNCHANGED <<presences, newPresence, into, moved, collided>>
    BY <1>0, <1>3 DEF MLook, libraryVars, LibraryInv
  <2>2. /\ merging' = [merging EXCEPT ![m] = "move"]
        /\ toMove' = [toMove EXCEPT ![m] = {p.id : p \in Sees(m, d)}]
        /\ looked' = [looked EXCEPT ![m] = @ \cup toMove'[m]]
        /\ toMove[m] = {}
    BY <1>0, <1>3 DEF MLook, MergeInv
  <2>3. \A i \in {p.id : p \in Sees(m, d)} : i \in Nat /\ i < newPresence
    BY <1>0 DEF Sees, LibraryInv, Rows
  <2>4. toMove'[m] = {p.id : p \in Sees(m, d)} /\ toMove'[m] \subseteq Nat
    BY <1>0, <2>2, <2>3 DEF MergeInv
  <2>5. /\ looked' \in [Mergers -> SUBSET Nat] /\ toMove' \in [Mergers -> SUBSET Nat]
        /\ merging' \in [Mergers -> {"no", "look", "move", "delete"}]
    BY <1>0, <2>2, <2>4 DEF MergeInv
  <2>6. \A k \in Mergers : /\ looked'[k] = IF k = m THEN looked[m] \cup toMove'[m] ELSE looked[k]
                           /\ k # m => toMove'[k] = toMove[k] /\ merging'[k] = merging[k]
                           /\ merging'[m] = "move"
    BY <1>0, <2>2 DEF MergeInv
  <2>7. MergeInv'
    BY <1>0, <2>1, <2>2, <2>3, <2>4, <2>5, <2>6 DEF MergeInv
  <2> QED BY <2>1, <2>7 DEF ActorsInv
<1>4. CASE MDelete(m)
  BY <1>0, <1>4 DEF MDelete, libraryVars, LibraryInv, MergeInv, ActorsInv
<1>5. CASE MCommit(m)
  <2> DEFINE kept   == {p \in presences : p.owner \notin gone[m] /\ p.id \notin moved[m]}
             others == {p \in presences : p.id \in moved[m] /\ into[m] \notin gone[m]}
  <2>1. /\ kept \in SUBSET presences /\ others \in SUBSET presences /\ kept \cap others = {}
        /\ presences' = kept \cup {[p EXCEPT !.owner = into[m]] : p \in others}
        /\ into[m] \in Nat /\ MEnd(m) /\ actors' \subseteq actors
    BY <1>0, <1>5 DEF MCommit, MergeInv
  <2> HIDE DEF kept, others
  <2>2. /\ presences' \subseteq Rows /\ \A p \in presences' : \E q \in presences : q.id = p.id /\ q.known = p.known
        /\ \A p \in presences' : p.id < newPresence
        /\ \A p, q \in presences' : p.id = q.id => p = q
        /\ \A p, q \in presences' : p.known /\ q.known /\ p.account = q.account => p = q
    BY <1>0, <2>1, OwnersChange
  <2>3. LibraryInv' /\ Follows(presences')
    BY <1>0, <2>1, <2>2 DEF LibraryInv, Follows, MEnd
  <2> QED BY <2>1, <2>3, EndKeeps
<1>6. CASE MFail(m)
  <2>1. MEnd(m) /\ LibraryInv' /\ Follows(presences')
    BY <1>0, <1>6 DEF MFail, MEnd, LibraryInv, Follows
  <2> QED BY <2>1, EndKeeps
<1> QED BY <1>1, <1>2, <1>3, <1>4, <1>5, <1>6, MoveKeeps DEF Merge

LEMMA ActorsKeep == ActorsInv /\ [ActorsNext]_actorVars => ActorsInv'
<1> SUFFICES ASSUME ActorsInv, [ActorsNext]_actorVars PROVE ActorsInv'
  OBVIOUS
<1>1. CASE UNCHANGED actorVars
  BY <1>1 DEF actorVars, libraryVars, mergeVars, ActorsInv, LibraryInv, MergeInv
<1>2. CASE ActorsNext
  BY <1>2, MergeKeeps, OthersKeep
<1> QED BY <1>1, <1>2

-----------------------------------------------------------------------------
(* What the merges hold *)

LibraryTyped ==
  /\ actors \subseteq 1 .. newActor - 1
  /\ newActor \in 1 .. MaxActors + 1 /\ newPresence \in 1 .. MaxPresences + 1
  /\ presences \subseteq Presences /\ \A p \in presences : p.owner \in actors
  /\ aliases \subseteq actors \X ActorNames
  /\ adding \in [Adders -> SUBSET (Accounts \X BOOLEAN)]

MergesTyped ==
  /\ into \in [Mergers -> ActorIds] /\ atHand \in [Mergers -> ActorIds]
  /\ remaining \in [Mergers -> SUBSET ActorIds] /\ gone \in [Mergers -> SUBSET ActorIds]
  /\ given \in [Mergers -> SUBSET (ActorIds \X ActorNames)]
  /\ \A m \in Mergers :
       /\ looked[m] \subseteq 1 .. MaxPresences
       /\ toMove[m] \subseteq looked[m] /\ moved[m] \subseteq looked[m]
       /\ given[m] \subseteq {into[m]} \X ActorNames

\* What a merge has done it has done for its canonical actor, which nobody else
\* deletes before it ends; no two have moved one presence, nor one that was the
\* canonical actor's.
HeldApart ==
  /\ \A m \in Mergers :
       /\ merging[m] = "no" => moved[m] = {} /\ given[m] = {} /\ gone[m] = {}
       /\ moved[m] # {} => given[m] # {}
       /\ given[m] # {} => into[m] \in actors /\ \A k \in Mergers \ {m} : into[m] \notin gone[k]
       /\ \A p \in presences : p.id \in moved[m] => p.owner # into[m]
  /\ \A m, k \in Mergers : m # k => moved[m] \cap moved[k] = {}

HoldInv == LibraryTyped /\ MergesTyped /\ HeldApart

LEMMA HoldInvInit == ActorsInit => HoldInv
<1> SUFFICES ASSUME ActorsInit PROVE HoldInv
  OBVIOUS
<1> USE ActorsAssumption DEF ActorIds
<1>1. LibraryTyped
  BY DEF ActorsInit, LibraryTyped
<1>2. /\ into = [m \in Mergers |-> 1] /\ atHand = [m \in Mergers |-> 1]
      /\ remaining = [m \in Mergers |-> {}] /\ gone = [m \in Mergers |-> {}]
      /\ given = [m \in Mergers |-> {}] /\ looked = [m \in Mergers |-> {}]
      /\ toMove = [m \in Mergers |-> {}] /\ moved = [m \in Mergers |-> {}]
      /\ merging = [m \in Mergers |-> "no"] /\ 1 \in ActorIds /\ presences = {}
  BY DEF ActorsInit
<1>3. MergesTyped
  BY <1>2 DEF MergesTyped
<1>4. HeldApart
  BY <1>2 DEF HeldApart
<1> QED BY <1>1, <1>3, <1>4 DEF HoldInv

\* The other requests keep off the rows that merges hold.
LEMMA RequestsKeepOff ==
  ASSUME MergesTyped, HeldApart, UNCHANGED mergeVars,
         \A m \in Mergers : given[m] # {} => into[m] \in actors',
         \A p \in presences' : p.id \in Held(Mergers) => p \in presences
  PROVE  MergesTyped' /\ HeldApart'
<1>1. UNCHANGED <<merging, into, remaining, atHand, toMove, moved, given, gone, looked>>
  BY DEF mergeVars
<1>2. \A m \in Mergers : moved[m] \subseteq Held(Mergers)
  BY DEF Held
<1>3. MergesTyped'
  BY <1>1 DEF MergesTyped
<1>4. HeldApart'
  BY <1>1, <1>2 DEF HeldApart
<1> QED BY <1>3, <1>4

LEMMA NewRowsAreFree ==
  ASSUME MergeInv, MergesTyped, newPresence \in Nat
  PROVE  newPresence \notin Held(Mergers)
<1> SUFFICES ASSUME NEW m \in Mergers, newPresence \in moved[m] PROVE FALSE
  BY DEF Held
<1> QED BY DEF MergeInv, MergesTyped

\* A row is added for an actor that is there, or made for it.
LEMMA AddedRowIsTyped ==
  ASSUME LibraryTyped, MergeInv, MergesTyped, HeldApart, UNCHANGED mergeVars,
         NEW a \in actors', NEW account \in Accounts, NEW known \in BOOLEAN,
         NewPresence(a, account, known), actors \subseteq actors', actors' \subseteq 1 .. newActor' - 1,
         newActor' \in 1 .. MaxActors + 1, aliases' = aliases,
         adding' \in [Adders -> SUBSET (Accounts \X BOOLEAN)]
  PROVE  HoldInv'
<1>0. MaxActors \in Nat /\ MaxPresences \in Nat
  BY ActorsAssumption
<1> DEFINE p == [id |-> newPresence, owner |-> a, account |-> account, known |-> known]
<1>1. /\ newPresence \in 1 .. MaxPresences /\ newPresence' \in 1 .. MaxPresences + 1
      /\ presences' = presences \cup {p}
  BY <1>0 DEF NewPresence, LibraryTyped
<1>2. p \in Presences /\ p.owner \in actors' /\ p.id = newPresence
  <2>1. PICK n \in Nat : newActor' = n /\ n <= MaxActors + 1
    BY <1>0
  <2>2. a \in 1 .. n - 1
    BY <2>1
  <2>3. a \in ActorIds
    BY <1>0, <2>1, <2>2 DEF ActorIds
  <2> QED BY <1>1, <2>3 DEF Presences
<1> HIDE DEF p
<1>3. LibraryTyped'
  BY <1>1, <1>2 DEF LibraryTyped
<1>4. \A q \in presences' : q.id \in Held(Mergers) => q \in presences
  BY <1>1, <1>2, NewRowsAreFree
<1>5. \A m \in Mergers : given[m] # {} => into[m] \in actors'
  BY DEF HeldApart
<1>6. MergesTyped' /\ HeldApart'
  BY <1>4, <1>5, RequestsKeepOff
<1> QED BY <1>3, <1>6 DEF HoldInv

\* Rows go, and perhaps an actor that no merge refers to.
LEMMA FewerRowsAreTyped ==
  ASSUME LibraryTyped, MergesTyped, HeldApart, UNCHANGED <<newActor, newPresence, mergeVars>>,
         presences' \subseteq presences, actors' \subseteq actors, \A p \in presences' : p.owner \in actors',
         aliases' \subseteq actors' \X ActorNames,
         \A m \in Mergers : given[m] # {} => into[m] \in actors',
         adding' \in [Adders -> SUBSET (Accounts \X BOOLEAN)]
  PROVE  HoldInv'
<1>1. LibraryTyped'
  BY DEF LibraryTyped
<1>2. MergesTyped' /\ HeldApart'
  BY RequestsKeepOff
<1> QED BY <1>1, <1>2 DEF HoldInv

LEMMA RequestsHold ==
  ASSUME HoldInv, ActorsInv, ActorsNext, \A m \in Mergers : ~Merge(m)
  PROVE  HoldInv'
<1>0. /\ LibraryTyped /\ MergesTyped /\ HeldApart /\ MergeInv /\ LibraryInv
      /\ MaxActors \in Nat \ {0} /\ newActor \in Nat
  BY ActorsAssumption DEF HoldInv, ActorsInv, LibraryInv
<1>1. actors \subseteq ActorIds
  BY <1>0 DEF LibraryTyped, ActorIds
<1>2. \A m \in Mergers : given[m] # {} => into[m] \in actors
  BY <1>0 DEF HeldApart
<1>3. NewActor => /\ newActor \in ActorIds /\ actors \subseteq actors' /\ newActor \in actors'
                  /\ actors' \subseteq 1 .. newActor' - 1 /\ newActor' \in 1 .. MaxActors + 1
  <2> SUFFICES ASSUME NewActor PROVE /\ newActor \in ActorIds /\ actors \subseteq actors' /\ newActor \in actors'
                                     /\ actors' \subseteq 1 .. newActor' - 1 /\ newActor' \in 1 .. MaxActors + 1
    OBVIOUS
  <2>1. newActor \in 1 .. MaxActors /\ newActor' = newActor + 1 /\ actors' = actors \cup {newActor}
    BY DEF NewActor, ActorIds
  <2>2. \A a \in actors : a \in 1 .. newActor - 1
    BY <1>0 DEF LibraryTyped
  <2>3. \A a \in actors' : a \in 1 .. newActor' - 1
    BY <1>0, <2>1, <2>2
  <2> QED BY <1>0, <2>1, <2>3 DEF ActorIds
<1>4. CASE CreateActor
  <2>1. NewActor /\ UNCHANGED <<presences, aliases, newPresence, adding, mergeVars>>
    BY <1>4 DEF CreateActor
  <2>2. LibraryTyped'
    BY <1>0, <1>3, <2>1 DEF LibraryTyped
  <2>3. MergesTyped' /\ HeldApart'
    BY <1>0, <1>2, <1>3, <2>1, RequestsKeepOff
  <2> QED BY <2>2, <2>3 DEF HoldInv
<1>5. ASSUME NEW account \in Accounts, NEW known \in BOOLEAN, CreateWith(account, known) PROVE HoldInv'
  <2>1. NewActor /\ NewPresence(newActor, account, known) /\ UNCHANGED <<aliases, adding, mergeVars>>
    BY <1>5 DEF CreateWith
  <2>2. adding' \in [Adders -> SUBSET (Accounts \X BOOLEAN)]
    BY <1>0, <2>1 DEF LibraryTyped
  <2> QED BY <1>0, <1>3, <2>1, <2>2, AddedRowIsTyped
<1>6. ASSUME NEW account \in Accounts, NEW known \in BOOLEAN, NEW a \in actors, AddPresence(a, account, known)
      PROVE  HoldInv'
  <2>1. NewPresence(a, account, known) /\ UNCHANGED <<actors, aliases, newActor, adding, mergeVars>>
    BY <1>6 DEF AddPresence
  <2>2. /\ adding' \in [Adders -> SUBSET (Accounts \X BOOLEAN)] /\ a \in actors' /\ actors \subseteq actors'
        /\ actors' \subseteq 1 .. newActor' - 1 /\ newActor' \in 1 .. MaxActors + 1
    BY <1>0, <2>1 DEF LibraryTyped
  <2> QED BY <1>0, <2>1, <2>2, AddedRowIsTyped
<1>7. ASSUME NEW p \in presences, RemovePresence(p) PROVE HoldInv'
  <2>1. presences' = presences \ {p} /\ UNCHANGED <<actors, aliases, newActor, newPresence, adding, mergeVars>>
    BY <1>7 DEF RemovePresence
  <2> QED BY <1>0, <1>2, <2>1, FewerRowsAreTyped DEF LibraryTyped
<1>8. ASSUME NEW a \in actors, Free(a), Without(a), aliases' \subseteq actors' \X ActorNames,
             UNCHANGED <<newActor, newPresence, adding, mergeVars>>
      PROVE  HoldInv'
  <2>1. actors' = actors \ {a} /\ presences' = {p \in presences : p.owner # a}
    BY <1>8 DEF Without
  <2>2. \A m \in Mergers : given[m] # {} => into[m] # a
    BY <1>8 DEF Free, Referred
  <2> QED BY <1>0, <1>2, <1>8, <2>1, <2>2, FewerRowsAreTyped DEF LibraryTyped
<1>9. ASSUME NEW a \in actors, DeleteActor(a) PROVE HoldInv'
  <2>1. Free(a) /\ Without(a) /\ UNCHANGED <<newActor, newPresence, adding, mergeVars>>
    BY <1>9 DEF DeleteActor
  <2>2. aliases' \subseteq actors' \X ActorNames
    BY <1>0, <1>9, <2>1 DEF DeleteActor, Without, LibraryTyped
  <2> QED BY <1>8, <2>1, <2>2
<1>10. ASSUME NEW a \in actors, NEW source \in actors, Absorb(a, source) PROVE HoldInv'
  <2> DEFINE names == {NameOf[source]} \cup {x[2] : x \in {x \in aliases : x[1] = source}}
  <2>1. /\ Free(source) /\ Without(source) /\ a # source
        /\ UNCHANGED <<newActor, newPresence, adding, mergeVars>>
        /\ aliases' = {x \in aliases : x[1] # source} \cup ({a} \X names)
    BY <1>10 DEF Absorb
  <2>2. names \subseteq ActorNames
    BY <1>0, <1>1, ActorsAssumption DEF LibraryTyped, ActorIds
  <2> HIDE DEF names
  <2>3. actors' = actors \ {source}
    BY <2>1 DEF Without
  <2>4. {x \in aliases : x[1] # source} \subseteq actors' \X ActorNames
    BY <1>0, <2>3 DEF LibraryTyped
  <2>5. {a} \X names \subseteq actors' \X ActorNames
    BY <2>1, <2>2, <2>3
  <2> QED BY <1>8, <2>1, <2>4, <2>5
<1>11. ASSUME NEW a \in actors, NEW chosen \in SUBSET presences, Split(a, chosen) PROVE HoldInv'
  <2>1. /\ NewActor /\ UNCHANGED <<newPresence, adding, mergeVars>>
        /\ presences' = (presences \ chosen) \cup {[p EXCEPT !.owner = newActor] : p \in chosen}
        /\ aliases' = aliases \cup {<<a, NameOf[newActor]>>}
        /\ \A p \in chosen : p.id \notin Held(Mergers)
    BY <1>11 DEF Split
  <2>2. /\ newActor \in ActorIds /\ actors \subseteq actors' /\ newActor \in actors'
        /\ actors' \subseteq 1 .. newActor' - 1 /\ newActor' \in 1 .. MaxActors + 1
    BY <1>3, <2>1
  <2> DEFINE Owned(p) == [p EXCEPT !.owner = newActor]
  <2>3. \A p \in chosen : Owned(p) \in Presences /\ Owned(p).owner = newActor /\ Owned(p).id = p.id
    BY <1>0, <2>2 DEF LibraryTyped, Presences
  <2>4. presences' = (presences \ chosen) \cup {Owned(p) : p \in chosen}
    BY <2>1
  <2> HIDE DEF Owned
  <2>5. presences' \subseteq Presences /\ \A p \in presences' : p.owner \in actors'
    BY <1>0, <2>2, <2>3, <2>4 DEF LibraryTyped
  <2>6. aliases' \subseteq actors' \X ActorNames
    <3>1. aliases \subseteq actors \X ActorNames /\ NameOf[newActor] \in ActorNames
      BY <1>0, <2>2, ActorsAssumption DEF LibraryTyped, ActorIds
    <3> QED BY <2>1, <2>2, <3>1
  <2>7. LibraryTyped'
    BY <1>0, <2>1, <2>2, <2>5, <2>6 DEF LibraryTyped
  <2>8. \A p \in presences' : p.id \in Held(Mergers) => p \in presences
    BY <2>1, <2>3, <2>4
  <2>9. MergesTyped' /\ HeldApart'
    BY <1>0, <1>2, <2>1, <2>2, <2>8, RequestsKeepOff
  <2> QED BY <2>7, <2>9 DEF HoldInv
<1>12. ASSUME NEW r \in Adders, NEW account \in Accounts, NEW byId \in BOOLEAN, Lookup(r, account, byId)
       PROVE  HoldInv'
  <2>1. adding' = [adding EXCEPT ![r] = {<<account, byId>>}] /\ UNCHANGED <<libraryVars, mergeVars>>
    BY <1>12 DEF Lookup
  <2>2. adding' \in [Adders -> SUBSET (Accounts \X BOOLEAN)]
    BY <1>0, <2>1 DEF LibraryTyped
  <2> QED BY <1>0, <1>2, <2>1, <2>2, FewerRowsAreTyped DEF LibraryTyped, libraryVars
<1>13. ASSUME NEW r \in Adders, NEW account \in Accounts, NEW byId \in BOOLEAN, AddFound(r, account, byId)
       PROVE  HoldInv'
  <2>1. adding' = [adding EXCEPT ![r] = {}] /\ UNCHANGED <<aliases, mergeVars>>
    BY <1>13 DEF AddFound
  <2>2. adding' \in [Adders -> SUBSET (Accounts \X BOOLEAN)]
    BY <1>0, <2>1 DEF LibraryTyped
  <2>3. CASE Taken(account, byId)
    <3>1. UNCHANGED <<actors, presences, newActor, newPresence>>
      BY <1>13, <2>3 DEF AddFound
    <3> QED BY <1>0, <1>2, <2>1, <2>2, <3>1, FewerRowsAreTyped DEF LibraryTyped
  <2>4. CASE ~Taken(account, byId)
    <3>1. NewActor /\ NewPresence(newActor, account, byId)
      BY <1>13, <2>4 DEF AddFound
    <3> QED BY <1>0, <1>3, <2>1, <2>2, <3>1, AddedRowIsTyped
  <2> QED BY <2>3, <2>4
<1> QED
  BY <1>4, <1>5, <1>6, <1>7, <1>9, <1>10, <1>11, <1>12, <1>13 DEF ActorsNext

\* A merge starts, and reads.
Reads(m) ==
  \/ \E c \in actors, duplicates \in SUBSET ActorIds : MBegin(m, c, duplicates)
  \/ \E d \in ActorIds : MMissing(m, d) \/ MLook(m, d)

LEMMA ReadingHolds ==
  ASSUME HoldInv, ActorsInv, NEW m \in Mergers, Reads(m)
  PROVE  HoldInv'
<1>0. LibraryTyped /\ MergesTyped /\ HeldApart /\ MergeInv /\ MaxActors \in Nat
  BY ActorsAssumption DEF HoldInv, ActorsInv
<1>1. UNCHANGED <<libraryVars, adding, moved, given, gone>>
  BY DEF Reads, MBegin, MMissing, MLook
<1>2. LibraryTyped'
  BY <1>0, <1>1 DEF LibraryTyped, libraryVars
<1>3. ASSUME NEW c \in actors, NEW duplicates \in SUBSET ActorIds, MBegin(m, c, duplicates) PROVE HoldInv'
  <2>1. /\ c \in ActorIds /\ merging[m] = "no" /\ UNCHANGED <<atHand, toMove, looked>>
        /\ merging' = [merging EXCEPT ![m] = "look"] /\ into' = [into EXCEPT ![m] = c]
        /\ remaining' = [remaining EXCEPT ![m] = duplicates]
    BY <1>0, <1>3 DEF MBegin, LibraryTyped, ActorIds
  <2>2. moved[m] = {} /\ given[m] = {} /\ gone[m] = {}
    BY <1>0, <2>1 DEF HeldApart
  <2>3. into' \in [Mergers -> ActorIds] /\ remaining' \in [Mergers -> SUBSET ActorIds]
    BY <1>0, <2>1 DEF MergesTyped
  <2>4. MergesTyped'
    BY <1>0, <1>1, <2>1, <2>2, <2>3 DEF MergesTyped
  <2>5. HeldApart'
    BY <1>0, <1>1, <2>1, <2>2 DEF HeldApart, MergesTyped, MergeInv, libraryVars
  <2> QED BY <1>2, <2>4, <2>5 DEF HoldInv
<1>4. ASSUME NEW d \in ActorIds, MMissing(m, d) PROVE HoldInv'
  <2>1. /\ remaining' = [remaining EXCEPT ![m] = remaining[m] \ {d}]
        /\ UNCHANGED <<merging, into, atHand, toMove, looked>>
    BY <1>4 DEF MMissing
  <2>2. remaining' \in [Mergers -> SUBSET ActorIds]
    BY <1>0, <2>1 DEF MergesTyped
  <2>3. MergesTyped'
    BY <1>0, <1>1, <2>1, <2>2 DEF MergesTyped
  <2>4. HeldApart'
    BY <1>0, <1>1, <2>1 DEF HeldApart, MergesTyped, libraryVars
  <2> QED BY <1>2, <2>3, <2>4 DEF HoldInv
<1>5. ASSUME NEW d \in ActorIds, MLook(m, d) PROVE HoldInv'
  <2> DEFINE read == {p.id : p \in Sees(m, d)}
  <2>1. /\ merging[m] = "look" /\ d \in remaining[m] /\ UNCHANGED into
        /\ merging' = [merging EXCEPT ![m] = "move"]
        /\ atHand' = [atHand EXCEPT ![m] = d] /\ remaining' = [remaining EXCEPT ![m] = remaining[m] \ {d}]
        /\ toMove' = [toMove EXCEPT ![m] = read]
        /\ looked' = [looked EXCEPT ![m] = looked[m] \cup toMove'[m]]
    BY <1>5 DEF MLook
  <2>2. read \subseteq 1 .. MaxPresences
    BY <1>0 DEF Sees, LibraryTyped, Presences
  <2> HIDE DEF read
  <2>3. remaining' \in [Mergers -> SUBSET ActorIds] /\ atHand' \in [Mergers -> ActorIds]
    BY <1>0, <2>1 DEF MergesTyped
  <2>4. \A k \in Mergers : /\ looked'[k] \subseteq 1 .. MaxPresences /\ toMove'[k] \subseteq looked'[k]
                           /\ moved'[k] \subseteq looked'[k]
    <3>1. toMove'[m] = read /\ looked'[m] = looked[m] \cup read
      BY <1>0, <2>1 DEF MergeInv
    <3>2. \A k \in Mergers : k # m => toMove'[k] = toMove[k] /\ looked'[k] = looked[k]
      BY <1>0, <2>1 DEF MergeInv
    <3>3. moved' = moved
      BY <1>1
    <3> QED BY <1>0, <2>2, <3>1, <3>2, <3>3 DEF MergesTyped
  <2>5. MergesTyped'
    BY <1>0, <1>1, <2>1, <2>3, <2>4 DEF MergesTyped
  <2>6. HeldApart'
    BY <1>0, <1>1, <2>1 DEF HeldApart, MergesTyped, MergeInv, libraryVars
  <2> QED BY <1>2, <2>5, <2>6 DEF HoldInv
<1> QED BY <1>3, <1>4, <1>5 DEF Reads

\* What is moved was nobody's, and not the canonical actor's.
LEMMA MovingHolds ==
  ASSUME HoldInv, ActorsInv, NEW m \in Mergers, MMove(m)
  PROVE  HoldInv'
<1> DEFINE ps == {p \in presences : p.id \in toMove[m]}
           others == {p.id : p \in {p \in ps : p.owner = into[m]}}
           alias == <<into[m], NameOf[atHand[m]]>>
<1>0. LibraryTyped /\ MergesTyped /\ HeldApart /\ MergeInv /\ LibraryInv
  BY DEF HoldInv, ActorsInv
<1>1. /\ UNCHANGED <<libraryVars, adding, into, remaining, atHand>> /\ merging[m] = "move"
      /\ merging' = [merging EXCEPT ![m] = "delete"] /\ toMove' = [toMove EXCEPT ![m] = {}]
      /\ \A k \in Mergers \ {m} : into[m] \notin gone[k]
      /\ looked' = [looked EXCEPT ![m] = looked[m] \ others]
  BY DEF MMove
<1>2. PICK set \in Movable(m, ps) :
        /\ \A p \in set : p.id \notin Held(Mergers \ {m}) /\ into[m] \notin gone[m]
        /\ IF into[m] \notin actors \ gone[m] \/ alias \in aliases \cup given[m]
           THEN /\ moved' = [moved EXCEPT ![m] = {}] /\ given' = [given EXCEPT ![m] = {}]
                /\ gone' = [gone EXCEPT ![m] = {}]
           ELSE /\ moved' = [moved EXCEPT ![m] = moved[m] \cup {p.id : p \in set}]
                /\ given' = [given EXCEPT ![m] = given[m] \cup {alias}] /\ gone' = gone
  BY DEF MMove
<1>3. set \subseteq ps /\ \A p \in set : p.owner # into[m]
  <2>1. set \subseteq ps /\ \A p \in set : \A q \in Has(m) : ~Same(p, q)
    BY DEF Movable
  <2>2. \A p \in set : p \notin Has(m)
    BY <2>1 DEF Same
  <2>3. ASSUME NEW p \in set, p.owner = into[m] PROVE FALSE
    <3>1. p \in presences /\ into[m] \notin gone[m]
      BY <1>2, <2>1
    <3>2. p \in Sees(m, into[m])
      BY <2>3, <3>1 DEF Sees
    <3> QED BY <2>2, <3>2 DEF Has
  <2> QED BY <2>1, <2>3
<1>4. alias \in {into[m]} \X ActorNames
  BY <1>0, ActorsAssumption DEF MergesTyped, ActorIds
<1> DEFINE ids == {p.id : p \in set}
<1>5. ids \subseteq toMove[m] /\ ids \cap others = {} /\ moved[m] \cap others = {}
  <2>1. \A p \in ps : p.id \in toMove[m] /\ p \in presences
    OBVIOUS
  <2>2. \A p, q \in presences : p.id = q.id => p = q
    BY <1>0 DEF LibraryInv
  <2>3. \A p \in presences : p.id \in moved[m] => p.owner # into[m]
    BY <1>0 DEF HeldApart
  <2> QED BY <1>3, <2>1, <2>2, <2>3
<1>6. \A i \in ids : \A k \in Mergers \ {m} : i \notin moved[k]
  BY <1>2 DEF Held
<1> HIDE DEF ps, others, alias
<1>7. LibraryTyped'
  BY <1>0, <1>1 DEF LibraryTyped, libraryVars
<1>8. \A p \in presences : p.id \in ids => p.owner # into[m]
  BY <1>0, <1>3 DEF LibraryInv, ps
<1> HIDE DEF ids
<1>9. /\ moved' \in [Mergers -> SUBSET Nat] /\ given' \in [Mergers -> SUBSET (ActorIds \X ActorNames)]
      /\ gone' \in [Mergers -> SUBSET ActorIds]
  <2>1. ids \subseteq Nat /\ alias \in ActorIds \X ActorNames
    BY <1>0, <1>4, <1>5 DEF MergeInv, MergesTyped
  <2>2. moved' = [moved EXCEPT ![m] = {}] \/ moved' = [moved EXCEPT ![m] = moved[m] \cup ids]
    BY <1>2 DEF ids
  <2>3. given' = [given EXCEPT ![m] = {}] \/ given' = [given EXCEPT ![m] = given[m] \cup {alias}]
    BY <1>2
  <2>4. gone' = [gone EXCEPT ![m] = {}] \/ gone' = gone
    BY <1>2
  <2>5. moved' \in [Mergers -> SUBSET Nat]
    <3>1. moved \in [Mergers -> SUBSET Nat]
      BY <1>0 DEF MergeInv
    <3>2. moved[m] \cup ids \in SUBSET Nat
      BY <2>1, <3>1
    <3> QED BY <2>2, <3>1, <3>2
  <2>6. given' \in [Mergers -> SUBSET (ActorIds \X ActorNames)]
    BY <1>0, <2>1, <2>3 DEF MergesTyped
  <2>7. gone' \in [Mergers -> SUBSET ActorIds]
    BY <1>0, <2>4 DEF MergesTyped
  <2> QED BY <2>5, <2>6, <2>7
<1>10. \/ moved'[m] = {} /\ given'[m] = {} /\ gone'[m] = {}
       \/ /\ moved'[m] = moved[m] \cup ids /\ given'[m] = given[m] \cup {alias} /\ gone'[m] = gone[m]
          /\ into[m] \in actors
  BY <1>0, <1>2 DEF MergeInv, MergesTyped, ids
<1>11. \A k \in Mergers \ {m} : moved'[k] = moved[k] /\ given'[k] = given[k] /\ gone'[k] = gone[k]
  BY <1>0, <1>2 DEF MergeInv, MergesTyped
<1>12. /\ looked'[m] = looked[m] \ others /\ toMove'[m] = {} /\ merging'[m] = "delete"
       /\ \A k \in Mergers \ {m} : looked'[k] = looked[k] /\ toMove'[k] = toMove[k] /\ merging'[k] = merging[k]
  BY <1>0, <1>1 DEF MergeInv
<1>13. into' = into /\ atHand' = atHand /\ remaining' = remaining /\ presences' = presences /\ actors' = actors
  BY <1>1 DEF libraryVars
<1>14. ASSUME NEW k \in Mergers
       PROVE  /\ looked'[k] \subseteq 1 .. MaxPresences
              /\ toMove'[k] \subseteq looked'[k] /\ moved'[k] \subseteq looked'[k]
              /\ given'[k] \subseteq {into[k]} \X ActorNames
  <2>1. CASE k = m
    BY <1>0, <1>4, <1>5, <1>10, <1>12, <2>1 DEF MergesTyped
  <2>2. CASE k # m
    BY <1>0, <1>11, <1>12, <2>2 DEF MergesTyped
  <2> QED BY <2>1, <2>2
<1>15. MergesTyped'
  BY <1>0, <1>9, <1>13, <1>14 DEF MergesTyped
<1>16. gone'[m] \subseteq gone[m]
  BY <1>10
<1>17. ASSUME NEW k \in Mergers
       PROVE  /\ merging'[k] = "no" => moved'[k] = {} /\ given'[k] = {} /\ gone'[k] = {}
              /\ moved'[k] # {} => given'[k] # {}
              /\ given'[k] # {} => into[k] \in actors /\ \A l \in Mergers \ {k} : into[k] \notin gone'[l]
              /\ \A p \in presences : p.id \in moved'[k] => p.owner # into[k]
  <2>1. CASE k = m
    <3>1. moved'[m] # {} => given'[m] # {}
      BY <1>10
    <3>2. given'[m] # {} => into[m] \in actors /\ \A l \in Mergers \ {m} : into[m] \notin gone'[l]
      BY <1>1, <1>10, <1>11
    <3>3. \A p \in presences : p.id \in moved'[m] => p.owner # into[m]
      BY <1>0, <1>8, <1>10 DEF HeldApart
    <3> QED BY <1>12, <2>1, <3>1, <3>2, <3>3
  <2>2. CASE k # m
    <3>1. \A l \in Mergers : gone'[l] \subseteq gone[l]
      BY <1>11, <1>16
    <3> QED BY <1>0, <1>11, <1>12, <2>2, <3>1 DEF HeldApart
  <2> QED BY <2>1, <2>2
<1>18. \A k, l \in Mergers : k # l => moved'[k] \cap moved'[l] = {}
  <2>1. \A k \in Mergers \ {m} : moved'[m] \cap moved[k] = {}
    BY <1>0, <1>6, <1>10 DEF HeldApart
  <2> QED BY <1>0, <1>11, <2>1 DEF HeldApart
<1>19. HeldApart'
  BY <1>13, <1>17, <1>18 DEF HeldApart
<1> QED BY <1>7, <1>15, <1>19 DEF HoldInv

\* A duplicate that is deleted is no other merge's canonical actor.
LEMMA DeletingHolds ==
  ASSUME HoldInv, ActorsInv, NEW m \in Mergers, MDelete(m)
  PROVE  HoldInv'
<1>0. LibraryTyped /\ MergesTyped /\ HeldApart /\ MergeInv
  BY DEF HoldInv, ActorsInv
<1>1. /\ UNCHANGED <<libraryVars, adding, into, remaining, atHand, toMove, moved, given, looked>>
      /\ merging[m] = "delete" /\ merging' = [merging EXCEPT ![m] = "look"]
      /\ gone' = [gone EXCEPT ![m] = gone[m] \cup {atHand[m]}]
      /\ atHand[m] \notin Referred(Mergers \ {m})
  BY DEF MDelete
<1>2. LibraryTyped'
  BY <1>0, <1>1 DEF LibraryTyped, libraryVars
<1>3. gone' \in [Mergers -> SUBSET ActorIds]
  BY <1>0, <1>1 DEF MergesTyped
<1>4. MergesTyped'
  BY <1>0, <1>1, <1>3 DEF MergesTyped
<1>5. \A k \in Mergers \ {m} : given[k] # {} => into[k] # atHand[m]
  BY <1>1 DEF Referred
<1>6. /\ gone'[m] = gone[m] \cup {atHand[m]} /\ merging'[m] = "look"
      /\ \A k \in Mergers \ {m} : gone'[k] = gone[k] /\ merging'[k] = merging[k]
  BY <1>0, <1>1 DEF MergesTyped, MergeInv
<1>7. presences' = presences /\ actors' = actors
  BY <1>1 DEF libraryVars
<1>8. HeldApart'
  BY <1>0, <1>1, <1>5, <1>6, <1>7 DEF HeldApart
<1> QED BY <1>2, <1>4, <1>8 DEF HoldInv

\* A merge that ends holds nothing, and the others what they held.
LEMMA EndingHolds ==
  ASSUME MergesTyped, HeldApart, MergeInv, NEW m \in Mergers, MEnd(m), 1 \in ActorIds,
         \A k \in Mergers \ {m} : given[k] # {} => into[k] \in actors',
         \A k \in Mergers \ {m} : \A p \in presences' : p.id \in moved[k] => p \in presences
  PROVE  MergesTyped' /\ HeldApart'
<1>1. /\ merging' = [merging EXCEPT ![m] = "no"]
      /\ remaining' = [remaining EXCEPT ![m] = {}] /\ toMove' = [toMove EXCEPT ![m] = {}]
      /\ moved' = [moved EXCEPT ![m] = {}]
      /\ given' = [given EXCEPT ![m] = {}] /\ gone' = [gone EXCEPT ![m] = {}]
      /\ looked' = [looked EXCEPT ![m] = {}]
      /\ into' = [into EXCEPT ![m] = 1] /\ atHand' = [atHand EXCEPT ![m] = 1]
  BY DEF MEnd
<1>2. /\ into' \in [Mergers -> ActorIds] /\ atHand' \in [Mergers -> ActorIds]
      /\ remaining' \in [Mergers -> SUBSET ActorIds] /\ gone' \in [Mergers -> SUBSET ActorIds]
      /\ given' \in [Mergers -> SUBSET (ActorIds \X ActorNames)]
  BY <1>1 DEF MergesTyped
<1>3. /\ merging'[m] = "no" /\ remaining'[m] = {} /\ toMove'[m] = {} /\ moved'[m] = {}
      /\ given'[m] = {} /\ gone'[m] = {} /\ looked'[m] = {}
  BY <1>1 DEF MergesTyped, MergeInv
<1>4. \A k \in Mergers \ {m} :
        /\ merging'[k] = merging[k] /\ remaining'[k] = remaining[k] /\ toMove'[k] = toMove[k]
        /\ moved'[k] = moved[k] /\ given'[k] = given[k] /\ gone'[k] = gone[k] /\ looked'[k] = looked[k]
        /\ into'[k] = into[k] /\ atHand'[k] = atHand[k]
  BY <1>1 DEF MergesTyped, MergeInv
<1>5. MergesTyped'
  BY <1>2, <1>3, <1>4 DEF MergesTyped
<1>6. HeldApart'
  BY <1>3, <1>4 DEF HeldApart
<1> QED BY <1>5, <1>6

LEMMA HoldInvKeeps == HoldInv /\ ActorsInv /\ [ActorsNext]_actorVars => HoldInv'
<1> SUFFICES ASSUME HoldInv, ActorsInv, [ActorsNext]_actorVars PROVE HoldInv'
  OBVIOUS
<1>0. LibraryTyped /\ MergesTyped /\ HeldApart /\ MergeInv /\ LibraryInv /\ 1 \in ActorIds
  BY ActorsAssumption DEF HoldInv, ActorsInv, ActorIds
<1>1. CASE UNCHANGED actorVars
  BY <1>1 DEF actorVars, libraryVars, mergeVars, HoldInv, LibraryTyped, MergesTyped, HeldApart
<1>2. CASE ActorsNext /\ \A m \in Mergers : ~Merge(m)
  BY <1>2, RequestsHold
<1>3. ASSUME NEW m \in Mergers, Reads(m) PROVE HoldInv'
  BY <1>3, ReadingHolds
<1>4. ASSUME NEW m \in Mergers, MCommit(m) PROVE HoldInv'
  <2>1. /\ actors' = actors \ gone[m] /\ MEnd(m) /\ UNCHANGED <<newActor, newPresence, adding>>
        /\ presences' = {p \in presences : p.owner \notin gone[m] /\ p.id \notin moved[m]}
             \cup {[p EXCEPT !.owner = into[m]] : p \in {p \in presences : p.id \in moved[m] /\ into[m] \notin gone[m]}}
        /\ aliases' = {x \in aliases \cup given[m] : x[1] \notin gone[m]}
    BY <1>4 DEF MCommit, MEnd
  <2> DEFINE Owned(p) == [p EXCEPT !.owner = into[m]]
             kept == {p \in presences : p.owner \notin gone[m] /\ p.id \notin moved[m]}
             mine == {p \in presences : p.id \in moved[m] /\ into[m] \notin gone[m]}
  <2>2. presences' = kept \cup {Owned(p) : p \in mine}
    BY <2>1
  <2>3. into[m] \in ActorIds
    BY <1>0 DEF MergesTyped
  <2>4. \A p \in mine : Owned(p) \in Presences /\ Owned(p).owner = into[m] /\ Owned(p).id = p.id /\ p.id \in moved[m]
    BY <1>0, <2>3 DEF LibraryTyped, Presences
  <2>5. \A p \in kept : p \in presences /\ p.owner \in actors'
    BY <1>0, <2>1 DEF LibraryTyped
  <2> HIDE DEF Owned, kept, mine
  <2>6. \A k \in Mergers \ {m} : given[k] # {} => into[k] \in actors'
    BY <1>0, <2>1 DEF HeldApart
  <2>7. \A p \in mine : into[m] \in actors'
    BY <1>0, <2>1 DEF HeldApart, mine
  <2>8. presences' \subseteq Presences /\ \A p \in presences' : p.owner \in actors'
    BY <1>0, <2>2, <2>4, <2>5, <2>7 DEF LibraryTyped
  <2>9. aliases' \subseteq actors' \X ActorNames
    <3>1. given[m] \subseteq {into[m]} \X ActorNames /\ aliases \subseteq actors \X ActorNames
      BY <1>0 DEF MergesTyped, LibraryTyped
    <3>2. \A x \in aliases : x[1] \notin gone[m] => x \in actors' \X ActorNames
      BY <2>1, <3>1
    <3>3. \A x \in given[m] : x[1] \notin gone[m] => x \in actors' \X ActorNames
      <4>1. given[m] # {} => into[m] \in actors
        BY <1>0 DEF HeldApart
      <4> QED BY <2>1, <3>1, <4>1
    <3> QED BY <2>1, <3>2, <3>3
  <2>10. LibraryTyped'
    <3>1. actors' \subseteq 1 .. newActor' - 1
      BY <1>0, <2>1 DEF LibraryTyped
    <3> QED BY <1>0, <2>1, <2>8, <2>9, <3>1 DEF LibraryTyped
  <2>11. \A k \in Mergers \ {m} : \A p \in presences' : p.id \in moved[k] => p \in presences
    <3>1. \A k \in Mergers \ {m} : moved[m] \cap moved[k] = {}
      BY <1>0 DEF HeldApart
    <3> QED BY <2>2, <2>4, <2>5, <3>1
  <2>12. MergesTyped' /\ HeldApart'
    BY <1>0, <2>1, <2>6, <2>11, EndingHolds
  <2> QED BY <2>10, <2>12 DEF HoldInv
<1>5. ASSUME NEW m \in Mergers, MFail(m) PROVE HoldInv'
  <2>1. MEnd(m) /\ UNCHANGED <<libraryVars, adding>>
    BY <1>5 DEF MFail, MEnd, libraryVars
  <2>2. LibraryTyped'
    BY <1>0, <2>1 DEF LibraryTyped, libraryVars
  <2>3. MergesTyped' /\ HeldApart'
    <3>1. \A k \in Mergers \ {m} : given[k] # {} => into[k] \in actors'
      BY <1>0, <2>1 DEF HeldApart, libraryVars
    <3> QED BY <1>0, <2>1, <3>1, EndingHolds DEF libraryVars
  <2> QED BY <2>2, <2>3 DEF HoldInv
<1>6. ASSUME NEW m \in Mergers, Merge(m) PROVE HoldInv'
  BY <1>3, <1>4, <1>5, <1>6, MovingHolds, DeletingHolds DEF Merge, Reads
<1> QED BY <1>1, <1>2, <1>6

-----------------------------------------------------------------------------
(* Theorems *)

\* Whatever others do between the steps of a merge that does not name its canonical
\* actor among the duplicates, it moves what it has read and what that actor did not
\* have, or was refused an alias.
THEOREM MergesMove == ActorsSpec => MergeMovesKnown
<1>1. ActorsInv /\ [ActorsNext]_actorVars =>
        [\A m \in Mergers : MCommit(m) /\ ~collided[m] /\ into[m] \notin gone[m] =>
           \A p \in presences : p.known /\ p.owner \in gone[m] /\ p.id \in looked[m] =>
             [p EXCEPT !.owner = into[m]] \in presences']_actorVars
  <2> SUFFICES ASSUME ActorsInv, NEW m \in Mergers, MCommit(m), ~collided[m], into[m] \notin gone[m],
                      NEW p \in presences, p.known, p.id \in looked[m]
               PROVE  [p EXCEPT !.owner = into[m]] \in presences'
    OBVIOUS
  <2>1. p.id \in moved[m]
    BY DEF ActorsInv, MergeInv, MCommit
  <2> QED BY <2>1 DEF MCommit
<1> QED BY <1>1, ActorsInvInit, ActorsKeep, PTL DEF ActorsSpec, MergeMovesKnown

\* While a merge has given its canonical actor an alias nobody else deletes that
\* actor, not in another merge either; and no two merges have moved one presence,
\* nor one that was the canonical actor's all along.
THEOREM MergesHoldApart == ActorsSpec => []HeldApart
<1>1. ActorsInit => ActorsInv /\ HoldInv
  BY ActorsInvInit, HoldInvInit
<1>2. (ActorsInv /\ HoldInv) /\ [ActorsNext]_actorVars => (ActorsInv /\ HoldInv)'
  BY ActorsKeep, HoldInvKeeps
<1>3. ActorsInv /\ HoldInv => HeldApart
  BY DEF HoldInv
<1> QED BY <1>1, <1>2, <1>3, PTL DEF ActorsSpec

\* The library and the merges keep their types: aliases and presences belong to
\* actors that are there, an account known by its id belongs to one of them,
\* and a merge moves only what it has read.
THEOREM ActorsTyped == ActorsSpec => []ActorsTypeOK
<1>1. ActorsInit => ActorsInv /\ HoldInv
  BY ActorsInvInit, HoldInvInit
<1>2. (ActorsInv /\ HoldInv) /\ [ActorsNext]_actorVars => (ActorsInv /\ HoldInv)'
  BY ActorsKeep, HoldInvKeeps
<1>3. ASSUME ActorsInv, HoldInv PROVE ActorsTypeOK
  <2>1. LibraryTyped /\ MergesTyped /\ LibraryInv /\ MergeInv
    BY <1>3 DEF ActorsInv, HoldInv
  <2>2. \A m \in Mergers :
          /\ into[m] \in ActorIds /\ atHand[m] \in ActorIds /\ remaining[m] \subseteq ActorIds
          /\ looked[m] \subseteq 1 .. MaxPresences
          /\ toMove[m] \subseteq looked[m] /\ moved[m] \subseteq looked[m] /\ gone[m] \subseteq ActorIds
          /\ given[m] \subseteq {into[m]} \X ActorNames
    BY <2>1 DEF MergesTyped
  <2> QED BY <2>1, <2>2 DEF ActorsTypeOK, LibraryTyped, LibraryInv, MergeInv
<1> QED BY <1>1, <1>2, <1>3, PTL DEF ActorsSpec

=============================================================================
