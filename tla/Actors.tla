--------------------------------- MODULE Actors ---------------------------------
(***************************************************************************)
(* The library of actors: who creates them, and who merges, splits and      *)
(* deletes them.  Of an actor it keeps the name, the aliases and the          *)
(* presences: accounts on platforms, known by the platform's id, or, when     *)
(* added from a page of content, by their user name alone.                    *)
(*                                                                         *)
(* A merge by the entity resolver is one transaction, with a step for each     *)
(* duplicate that reads its presences, one that moves them and one that       *)
(* deletes it; what it has done so far is visible to nobody, but keeps others *)
(* from the rows it touched.  The other requests are short: they look, and    *)
(* then commit in one step.  Records refer to actors by author_id, which      *)
(* nothing ever sets.                                                          *)
(***************************************************************************)
EXTENDS Naturals, FiniteSets

CONSTANTS
  ActorNames,
  NameOf,         \* actor -> the name it is created with
  Accounts,       \* authors, each on one platform
  PlatformOf,     \* account -> platform
  Adders,         \* requests that add an author they have found
  Mergers,        \* merge requests
  MaxActors,      \* bound
  MaxPresences    \* bound

ASSUME ActorsAssumption ==
  /\ MaxActors \in Nat \ {0} /\ MaxPresences \in Nat /\ NameOf \in [1 .. MaxActors -> ActorNames]

ActorIds == 1 .. MaxActors
Presences == [id : 1 .. MaxPresences, owner : ActorIds, account : Accounts, known : BOOLEAN]

VARIABLES
  actors, presences,
  aliases,                   \* <<actor, name>>
  newActor, newPresence,     \* the next ids
  adding,                    \* adder -> the account it has not found (if any),
                             \* and whether it looked for its id
  merging,                   \* merger -> "no", "look", "move", "delete"
  into, remaining, atHand,   \* merger -> canonical actor, duplicates left, the one at hand
  toMove,                    \* merger -> presences it has just read
  moved, given, gone,        \* merger -> what its transaction has done: presences
                             \* moved, aliases given, actors deleted
  looked, collided           \* history: merger -> presences it has read, but for
                             \* those that were the canonical actor's when it came
                             \* to move them; whether an alias was refused

libraryVars == <<actors, presences, aliases, newActor, newPresence>>
mergeVars == <<merging, into, remaining, atHand, toMove, moved, given, gone, looked, collided>>
actorVars == <<libraryVars, adding, mergeVars>>

Of(a) == {p \in presences : p.owner = a}

ActorsTypeOK ==
  /\ actors \subseteq 1 .. newActor - 1
  /\ presences \subseteq Presences /\ aliases \subseteq actors \X ActorNames
  /\ \A p \in presences : p.owner \in actors /\ p.id < newPresence
  /\ \A p, q \in presences : p.known /\ q.known /\ p.account = q.account => p = q
  /\ newActor \in 1 .. MaxActors + 1 /\ newPresence \in 1 .. MaxPresences + 1
  /\ adding \in [Adders -> SUBSET (Accounts \X BOOLEAN)]
  /\ merging \in [Mergers -> {"no", "look", "move", "delete"}]
  /\ \A m \in Mergers :
       /\ into[m] \in ActorIds /\ atHand[m] \in ActorIds /\ remaining[m] \subseteq ActorIds
       /\ looked[m] \subseteq 1 .. MaxPresences
       /\ toMove[m] \subseteq looked[m] /\ moved[m] \subseteq looked[m] /\ gone[m] \subseteq ActorIds
       /\ given[m] \subseteq {into[m]} \X ActorNames

ActorsInit ==
  /\ actors = {} /\ presences = {} /\ aliases = {} /\ newActor = 1 /\ newPresence = 1
  /\ adding = [r \in Adders |-> {}]
  /\ merging = [m \in Mergers |-> "no"]
  /\ into = [m \in Mergers |-> 1] /\ atHand = into /\ remaining = [m \in Mergers |-> {}]
  /\ toMove = remaining /\ moved = remaining /\ given = remaining /\ gone = remaining /\ looked = remaining
  /\ collided = [m \in Mergers |-> FALSE]

\* Rows that uncommitted merges keep others from: actors they have deleted,
\* actors they refer to, presences they have moved.
Deleted(ms)  == UNION {gone[m] : m \in ms}
Referred(ms) == {into[m] : m \in {m \in ms : given[m] # {}}}
Held(ms)     == UNION {moved[m] : m \in ms}

\* Nobody keeps others from deleting a, or its presences.
Free(a) ==
  /\ a \in actors \ (Deleted(Mergers) \cup Referred(Mergers))
  /\ \A p \in Of(a) : p.id \notin Held(Mergers)

-----------------------------------------------------------------------------
(* Creating and deleting *)

NewPresence(a, account, known) ==
  /\ newPresence <= MaxPresences /\ newPresence' = newPresence + 1
  /\ presences' = presences \cup
       {[id |-> newPresence, owner |-> a, account |-> account, known |-> known]}

NewActor ==
  newActor \in ActorIds /\ newActor' = newActor + 1 /\ actors' = actors \cup {newActor}

\* UNIQUE(platform, platform_user_id).
Taken(account, known) == \E p \in presences : known /\ p.known /\ p.account = account

\* POST /actors, without a presence or with one.
CreateActor ==
  /\ NewActor /\ UNCHANGED <<presences, aliases, newPresence, adding, mergeVars>>
CreateWith(account, known) ==
  /\ NewActor /\ NewPresence(newActor, account, known) /\ ~Taken(account, known)
  /\ UNCHANGED <<aliases, adding, mergeVars>>

AddPresence(a, account, known) ==
  /\ a \in actors \ Deleted(Mergers) /\ ~Taken(account, known)
  /\ NewPresence(a, account, known)
  /\ UNCHANGED <<actors, aliases, newActor, adding, mergeVars>>

RemovePresence(p) ==
  /\ p.id \notin Held(Mergers) /\ p.owner \notin Deleted(Mergers)
  /\ presences' = presences \ {p}
  /\ UNCHANGED <<actors, aliases, newActor, newPresence, adding, mergeVars>>

\* The rows of an actor go with it.
Without(a) ==
  /\ actors' = actors \ {a}
  /\ presences' = {p \in presences : p.owner # a}

DeleteActor(a) ==
  /\ Free(a) /\ Without(a)
  /\ aliases' = {x \in aliases : x[1] # a}
  /\ UNCHANGED <<newActor, newPresence, adding, mergeVars>>

-----------------------------------------------------------------------------
(* quick_add_actor, auto_create_actor_records *)

\* The quick-add looks for the user name, the snowball for the id.
Lookup(r, account, byId) ==
  /\ adding[r] = {}
  /\ ~ \E p \in presences : p.account = account /\ (byId => p.known)
  /\ adding' = [adding EXCEPT ![r] = {<<account, byId>>}]
  /\ UNCHANGED <<libraryVars, mergeVars>>

\* What was not found is added; an id that has been taken since is refused.
AddFound(r, account, byId) ==
  /\ <<account, byId>> \in adding[r]
  /\ adding' = [adding EXCEPT ![r] = {}]
  /\ IF Taken(account, byId)
     THEN UNCHANGED <<actors, presences, newActor, newPresence>>
     ELSE NewActor /\ NewPresence(newActor, account, byId)
  /\ UNCHANGED <<aliases, mergeVars>>

-----------------------------------------------------------------------------
(* EntityResolver.merge_actors *)

\* The canonical actor may be among the duplicates.
MBegin(m, c, duplicates) ==
  /\ merging[m] = "no" /\ c \in actors /\ duplicates # {}
  /\ merging' = [merging EXCEPT ![m] = "look"]
  /\ into' = [into EXCEPT ![m] = c] /\ remaining' = [remaining EXCEPT ![m] = duplicates]
  /\ UNCHANGED <<libraryVars, adding, atHand, toMove, moved, given, gone, looked, collided>>

\* A duplicate that is not there is passed over.
MMissing(m, d) ==
  /\ merging[m] = "look" /\ d \in remaining[m] \ actors
  /\ remaining' = [remaining EXCEPT ![m] = @ \ {d}]
  /\ UNCHANGED <<libraryVars, adding, merging, into, atHand, toMove, moved, given, gone, looked, collided>>

\* What a has by now, for this transaction.
Sees(m, a) ==
  {p \in presences : a \notin gone[m] /\ a = IF p.id \in moved[m] THEN into[m] ELSE p.owner}

\* The presences of the next duplicate are read.
MLook(m, d) ==
  /\ merging[m] = "look" /\ d \in remaining[m] \cap actors
  /\ merging' = [merging EXCEPT ![m] = "move"]
  /\ atHand' = [atHand EXCEPT ![m] = d] /\ remaining' = [remaining EXCEPT ![m] = @ \ {d}]
  /\ toMove' = [toMove EXCEPT ![m] = {p.id : p \in Sees(m, d)}]
  /\ looked' = [looked EXCEPT ![m] = @ \cup toMove'[m]]
  /\ UNCHANGED <<libraryVars, adding, into, moved, given, gone, collided>>

\* (faulty: the lookup is for the presence, whoever has it)
HasAnyone(m) == presences

Has(m) == Sees(m, into[m])

\* The lookup of what the canonical actor has already: on the same platform,
\* with the same id, or without an id like the one to be moved.
Same(p, q) ==
  /\ PlatformOf[p.account] = PlatformOf[q.account] /\ p.known = q.known
  /\ p.known => p.account = q.account

\* Those of ps that are moved, one by one: never two that are the same.
Movable(m, ps) ==
  {set \in SUBSET ps : \A p \in ps :
     p \in set <=> \A q \in Has(m) \cup (set \ {p}) : ~Same(p, q)}

\* What was read is moved, wherever it is by now, and the duplicate's name is
\* made an alias.  A lookup that finds two rows is an error, and so is a new owner
\* that is gone.  If the alias is refused, all that was done so far is rolled
\* back, and the work goes on.  Of the canonical actor itself nothing is moved.
MMove(m) ==
  LET ps    == {p \in presences : p.id \in toMove[m]}
      alias == <<into[m], NameOf[atHand[m]]>>
  IN
  /\ merging[m] = "move" /\ merging' = [merging EXCEPT ![m] = "delete"]
  /\ toMove' = [toMove EXCEPT ![m] = {}]
  /\ \A p \in ps : Cardinality({q \in Has(m) : Same(p, q)}) <= 1
  /\ \A k \in Mergers \ {m} : into[m] \notin gone[k] /\ alias \notin given[k]
  /\ \E set \in Movable(m, ps) :
       /\ \A p \in set : p.id \notin Held(Mergers \ {m}) /\ p.owner \notin Deleted(Mergers \ {m})
       /\ into[m] \in actors \ gone[m] \/ set = {}
       /\ IF into[m] \notin actors \ gone[m] \/ alias \in aliases \cup given[m]
          THEN /\ moved' = [moved EXCEPT ![m] = {}] /\ given' = [given EXCEPT ![m] = {}]
               /\ gone' = [gone EXCEPT ![m] = {}]
               /\ collided' = [collided EXCEPT ![m] = TRUE]
          ELSE /\ moved' = [moved EXCEPT ![m] = @ \cup {p.id : p \in set}]
               /\ given' = [given EXCEPT ![m] = @ \cup {alias}]
               /\ UNCHANGED <<gone, collided>>
  /\ looked' = [looked EXCEPT ![m] = @ \ {p.id : p \in {p \in ps : p.owner = into[m]}}]
  /\ UNCHANGED <<libraryVars, adding, into, remaining, atHand>>

\* The presences that the duplicate still has go with it.
MDelete(m) ==
  /\ merging[m] = "delete"
  /\ atHand[m] \notin Deleted(Mergers \ {m}) \cup Referred(Mergers \ {m})
  /\ \A p \in Of(atHand[m]) : p.id \notin Held(Mergers \ {m})
  /\ merging' = [merging EXCEPT ![m] = "look"]
  /\ gone' = [gone EXCEPT ![m] = @ \cup {atHand[m]}]
  /\ UNCHANGED <<libraryVars, adding, into, remaining, atHand, toMove, moved, given, looked, collided>>

MEnd(m) ==
  /\ merging' = [merging EXCEPT ![m] = "no"]
  /\ remaining' = [remaining EXCEPT ![m] = {}] /\ toMove' = [toMove EXCEPT ![m] = {}]
  /\ moved' = [moved EXCEPT ![m] = {}]
  /\ given' = [given EXCEPT ![m] = {}] /\ gone' = [gone EXCEPT ![m] = {}]
  /\ looked' = [looked EXCEPT ![m] = {}] /\ collided' = [collided EXCEPT ![m] = FALSE]
  /\ into' = [into EXCEPT ![m] = 1] /\ atHand' = [atHand EXCEPT ![m] = 1]
  /\ UNCHANGED <<newActor, newPresence, adding>>

MCommit(m) ==
  /\ merging[m] = "look" /\ remaining[m] = {}
  /\ actors' = actors \ gone[m]
  /\ presences' = {p \in presences : p.owner \notin gone[m] /\ p.id \notin moved[m]}
       \cup {[p EXCEPT !.owner = into[m]] : p \in {p \in presences : p.id \in moved[m] /\ into[m] \notin gone[m]}}
  /\ aliases' = {x \in aliases \cup given[m] : x[1] \notin gone[m]}
  /\ MEnd(m)

\* An error, or the database ends a deadlock.
MFail(m) ==
  /\ merging[m] # "no" /\ MEnd(m) /\ UNCHANGED <<actors, presences, aliases>>

-----------------------------------------------------------------------------
(* The other merge, and the split *)

\* merge_actors of the page of one actor: the session has loaded the presences
\* of the source; pointed to the target as they are, they are deleted with it.
Absorb(target, source) ==
  LET names == {NameOf[source]} \cup {x[2] : x \in {x \in aliases : x[1] = source}} IN
  /\ target \in actors \ Deleted(Mergers) /\ target # source /\ Free(source)
  /\ \A m \in Mergers : ({target} \X names) \cap given[m] = {}
  /\ Without(source)
  /\ aliases' = {x \in aliases : x[1] # source} \cup ({target} \X names)
  /\ UNCHANGED <<newActor, newPresence, adding, mergeVars>>

\* EntityResolver.split_actor.  If the alias is refused, nothing remains.
Split(a, chosen) ==
  LET alias == <<a, NameOf[newActor]>> IN
  /\ a \in actors \ Deleted(Mergers) /\ chosen # {} /\ chosen \subseteq Of(a)
  /\ \A p \in chosen : p.id \notin Held(Mergers)
  /\ NewActor /\ alias \notin aliases /\ \A m \in Mergers : alias \notin given[m]
  /\ presences' = (presences \ chosen) \cup {[p EXCEPT !.owner = newActor] : p \in chosen}
  /\ aliases' = aliases \cup {alias}
  /\ UNCHANGED <<newPresence, adding, mergeVars>>

-----------------------------------------------------------------------------

Merge(m) ==
  \/ \E c \in actors, duplicates \in SUBSET ActorIds : MBegin(m, c, duplicates)
  \/ \E d \in ActorIds : MMissing(m, d) \/ MLook(m, d)
  \/ MMove(m) \/ MDelete(m) \/ MCommit(m) \/ MFail(m)

ActorsNext ==
  \/ CreateActor
  \/ \E account \in Accounts, known \in BOOLEAN :
       CreateWith(account, known) \/ \E a \in actors : AddPresence(a, account, known)
  \/ \E a \in actors :
       \/ DeleteActor(a)
       \/ \E source \in actors : Absorb(a, source)
       \/ \E chosen \in SUBSET presences : Split(a, chosen)
  \/ \E p \in presences : RemovePresence(p)
  \/ \E r \in Adders, account \in Accounts, byId \in BOOLEAN :
       Lookup(r, account, byId) \/ AddFound(r, account, byId)
  \/ \E m \in Mergers : Merge(m)

ActorsSpec == ActorsInit /\ [][ActorsNext]_actorVars

-----------------------------------------------------------------------------
(* Properties *)

\* Where a merge ends, the canonical actor has every account, known by its id,
\* that the merge has read of a duplicate and that is a duplicate's still,
\* whatever others have moved, merged and deleted meanwhile - unless an alias was
\* refused, or others took the account away from the canonical actor itself.  A
\* request that names the canonical actor among its duplicates deletes it, and with
\* it all that it had moved: no line of the resolver or of its route forbids that.
MergeMovesKnown ==
  [][\A m \in Mergers : MCommit(m) /\ ~collided[m] /\ into[m] \notin gone[m] =>
       \A p \in presences : p.known /\ p.owner \in gone[m] /\ p.id \in looked[m] =>
         [p EXCEPT !.owner = into[m]] \in presences']_actorVars

\* The promise itself: "Move ActorPlatformPresence rows to canonical_id", but for
\* those that "the canonical actor already has".
MergeMovesAll ==
  [][\A m \in Mergers : MCommit(m) =>
       {p.account : p \in {p \in presences : p.owner \in gone[m] /\ p.id \in looked[m]}}
         \subseteq {p.account : p \in {p \in presences' : p.owner = into[m]}}]_actorVars

=============================================================================
