------------------------------- MODULE Groups -------------------------------
(***************************************************************************)
(* The model groups of one brand in the database: passes that regroup it   *)
(* (after a collection, or for a request) and the rules a user saves by    *)
(* hand (api/groups.py), which commit while a pass is between its reads    *)
(* and its writes.                                                         *)
(*                                                                         *)
(* A pass reads everything when it has grouping_lock and writes when it is *)
(* done: SQLite's write lock is only held from the first write on, and an  *)
(* UPDATE names the columns that changed in memory.                        *)
(***************************************************************************)
EXTENDS Grouping

CONSTANTS
    FirstTitles,    \* listing -> its title in the first collection, <<>> for none
    TitleTexts,     \* listing -> the titles it may be collected with
    Names,          \* phrases a user may type
    Attempts,       \* MUTATION_ATTEMPTS
    MaxEdits, MaxPasses, MaxDay     \* bounds of the instance

ASSUME AttemptsAssumption == Attempts \in Nat \ {0}
ASSUME TitlesAssumption ==
    /\ DOMAIN FirstTitles = DOMAIN Listings
    /\ \A l \in DOMAIN Listings : FirstTitles[l] \in Seq(Int) /\ TitleTexts[l] \subseteq Seq(Int)

VARIABLES
    groups,         \* table model_groups: id -> group
    titles,         \* listing -> its title, <<>> while it is not stored
    assigned,       \* listing_model_assignments, and the listing's type and relist
    overrides,      \* table listing_overrides: listing -> group
    parents,        \* table parent_overrides: group -> line, 0 for none
    blocks,         \* table model_blocklist
    hash,           \* brand.grouping_hash
    policy,         \* the release that runs
    day,
    pass,           \* the pass that holds grouping_lock, or NoPass
    request,        \* the edit whose handler waits for its regroup, or NoRequest
    edits,          \* how many edits there were
    passes          \* how many passes there were

vars == <<groups, titles, assigned, overrides, parents, blocks, hash, policy, day, pass, request, edits, passes>>

Nothing == [i \in {} |-> 0]
NoPass == [by |-> "nobody"]
NoRequest == [open |-> FALSE, stale |-> Nothing, tries |-> 0]
NoHash == [policy |-> 0]

\* What a pass reads; stale are groups the session has in memory already.
Snapshot(stale) ==
    [groups |-> [i \in DOMAIN groups |-> IF i \in DOMAIN stale THEN stale[i] ELSE groups[i]],
     titles |-> titles, assigned |-> assigned, overrides |-> overrides, parents |-> parents,
     blocks |-> blocks, hash |-> hash, policy |-> policy, day |-> day]

\* The runtime regroups after a run, a deal scan regroups for its listings: a delta.
Delta == [by |-> "collector", full |-> FALSE, stale |-> Nothing]

\* A request regroups in full.  The groups its handler holds were read before it waited
\* for the lock and are not read again (expire_on_commit is off).
Full == [by |-> "request", full |-> TRUE, stale |-> request.stale]

Started(x, start) == [by |-> start.by, base |-> x, result |-> Regroup(x, start.full)]

\* The first collection is stored and its pass has read it.
Init ==
    /\ groups = Nothing /\ overrides = Nothing /\ parents = Nothing /\ blocks = {}
    /\ titles = FirstTitles
    /\ assigned = [l \in DOMAIN Listings |-> Unassigned]
    /\ hash = NoHash /\ policy = 1 /\ day = 1
    /\ pass = Started(Snapshot(Nothing), Delta)
    /\ request = NoRequest /\ edits = 0 /\ passes = 1

---------------------------------------------------------------------------
(* The collector, the calendar and a new release                           *)

\* A listing is stored, or comes back with another title.
Collect(l, t) ==
    /\ titles[l] # t /\ passes < MaxPasses
    /\ titles' = [titles EXCEPT ![l] = t]
    /\ UNCHANGED <<groups, assigned, overrides, parents, blocks, hash, policy, day, pass, request, edits, passes>>

NextDay ==
    /\ day < MaxDay
    /\ day' = day + 1
    /\ UNCHANGED <<groups, titles, assigned, overrides, parents, blocks, hash, policy, pass, request, edits, passes>>

\* The process restarts with another config/.
Deploy ==
    /\ policy < Len(Policies)
    /\ policy' = policy + 1
    /\ pass' = NoPass /\ request' = NoRequest
    /\ UNCHANGED <<groups, titles, assigned, overrides, parents, blocks, hash, day, edits, passes>>

---------------------------------------------------------------------------
(* A pass                                                                  *)

Start ==
    /\ pass = NoPass /\ passes < MaxPasses
    /\ passes' = passes + 1
    /\ \E start \in {Delta, Full} :
          /\ IF start.by = "request" THEN request.open ELSE request.tries = 0
          /\ pass' = Started(Snapshot(start.stale), start)
    /\ UNCHANGED <<groups, titles, assigned, overrides, parents, blocks, hash, policy, day, request, edits>>

\* The id SQLite gives a group the pass made: another one may have come in between.
Id(i) == LET read == {0} \cup DOMAIN pass.base.groups
         IN  IF i \in read THEN i ELSE i + Max({0} \cup DOMAIN groups) - Max(read)

\* The column of a group in memory goes to the table if it is not what was read.
Column(i, c) ==
    LET old == pass.base.groups[i][c]   new == pass.result.groups[i][c]
    IN  IF c = "parent" THEN IF new = old THEN groups[i][c] ELSE Id(new)
        ELSE IF new = old THEN groups[i][c] ELSE new

Stored ==
    LET read == DOMAIN pass.base.groups
        made == DOMAIN pass.result.groups \ read
        gone == read \ DOMAIN pass.result.groups
        ids == (DOMAIN groups \ gone) \cup {Id(j) : j \in made}
        row(i) == IF i \in DOMAIN groups
                  THEN IF i \in read THEN [c \in DOMAIN groups[i] |-> Column(i, c)] ELSE groups[i]
                  ELSE pass.result.groups[CHOOSE j \in made : Id(j) = i]
        parent(i) == IF i \in DOMAIN groups THEN row(i).parent ELSE Id(row(i).parent)
    IN  [i \in ids |-> [row(i) EXCEPT !.parent = IF parent(i) \in ids THEN parent(i) ELSE 0]]

Clashes(G) == \E i, j \in DOMAIN G : i # j /\ G[i].type = G[j].type /\ G[i].slug = G[j].slug

\* Mutant: the pass digests the rules that are stored when it commits.
DigestNow == RulesHash(Stored, Snapshot(Nothing))

\* The hash of the rules the pass applied, its groups under their ids.
Digest ==
    LET made == pass.result.hash.groups
    IN  [pass.result.hash EXCEPT !.groups =
            [i \in {Id(j) : j \in DOMAIN made} |->
                LET g == made[CHOOSE j \in DOMAIN made : Id(j) = i] IN [g EXCEPT !.parent = Id(@)]]]

\* The pass commits; a deleted group takes the rules about it with it (ON DELETE CASCADE).
Commit ==
    /\ pass # NoPass /\ ~ Clashes(Stored)
    /\ groups' = Stored
    /\ overrides' = Restrict(overrides, {l \in DOMAIN overrides : overrides[l] \in DOMAIN Stored})
    /\ parents' = Restrict(parents, {i \in DOMAIN parents :
                      i \in DOMAIN Stored /\ parents[i] \in {0} \cup DOMAIN Stored})
    /\ assigned' = [l \in DOMAIN Listings |->
                      LET a == pass.result.assigned[l]
                      IN  IF a = pass.base.assigned[l] THEN assigned[l] ELSE [a EXCEPT !.group = Id(@)]]
    /\ hash' = Digest
    /\ pass' = NoPass
    /\ request' = IF pass.by = "request" THEN NoRequest ELSE request
    /\ UNCHANGED <<titles, blocks, policy, day, edits, passes>>

\* The pass loses the write lock, or two groups would have one slug, and rolls back, which
\* expires what its session holds.  A request tries again when it lost the lock.
RollBack ==
    /\ pass # NoPass
    /\ pass' = NoPass
    /\ request' = IF pass.by # "request" THEN request
                  ELSE IF request.tries + 1 < Attempts /\ ~ Clashes(Stored)
                  THEN [open |-> TRUE, stale |-> Nothing, tries |-> request.tries + 1]
                  ELSE NoRequest
    /\ UNCHANGED <<groups, titles, assigned, overrides, parents, blocks, hash, policy, day, edits, passes>>

---------------------------------------------------------------------------
(* Edits: the handler commits the rule, then waits for its regroup         *)

Editable(i) == ~ IsService(groups[i].slug) /\ ~ IsUnused(groups[i])

\* One request at a time, as the group editor sends them; ids are the groups whose
\* objects the handler still holds.
Edit(G, O, P, B, ids) ==
    /\ ~ request.open /\ edits < MaxEdits
    /\ groups' = G /\ overrides' = O /\ parents' = P /\ blocks' = B
    /\ request' = [open |-> TRUE, stale |-> Restrict(G, ids), tries |-> 0]
    /\ edits' = edits + 1
    /\ UNCHANGED <<titles, assigned, hash, policy, day, pass, passes>>

\* update_group: a new name confirms the group.
Rename(i, name) ==
    /\ Editable(i) /\ name # groups[i].name
    /\ LET g == [groups[i] EXCEPT !.aliases = @ \cup {groups[i].name}, !.name = name,
                                  !.status = "confirmed", !.source = IF @ = "mined" THEN "user" ELSE @]
       IN  Edit([groups EXCEPT ![i] = g], overrides, parents, blocks, {i})

Confirm(i) ==
    /\ Editable(i)
    /\ Edit([groups EXCEPT ![i].status = "confirmed"], overrides, parents, blocks, {i})

\* _set_parent and _check_parent: a line change is a rule; it confirms nothing.
Versions(i) == {j \in DOMAIN groups : groups[j].parent = i /\ ~ IsUnused(groups[j])}

SetParent(i, p) ==
    /\ Editable(i)
    /\ p # 0 => /\ Editable(p) /\ p # i
                /\ groups[p].type = groups[i].type /\ groups[p].parent = 0
                /\ Versions(i) = {}
    /\ Edit([groups EXCEPT ![i].parent = p], overrides, Put(parents, i, p), blocks, {i})

\* merge_groups: what the source has goes to the target, the source stays as a tombstone.
Merge(i, j) ==
    /\ Editable(i) /\ Editable(j) /\ i # j /\ groups[i].type = groups[j].type
    /\ LET line == IF groups[j].parent = 0 THEN j ELSE groups[j].parent
           moved == [k \in DOMAIN groups |->
                       IF groups[k].parent # i THEN groups[k]
                       ELSE [groups[k] EXCEPT !.parent = IF line = i THEN 0 ELSE line]]
           G == [moved EXCEPT ![j].aliases = (@ \cup Phrases(groups[i])) \ {groups[j].name},
                              ![j].status = "confirmed",
                              ![i].status = "ignored", ![i].parent = 0]
           O == [l \in DOMAIN overrides |-> IF overrides[l] = i THEN j ELSE overrides[l]]
       IN  Edit(G, O, parents, blocks, {i, j})

\* split_group: a phrase of a group becomes a model; a tombstone or a retired group of
\* that phrase comes back.
Split(i, phrase, asVersion) ==
    /\ ~ IsUnused(groups[i])
    /\ LET type == groups[i].type
           old == Find(groups, type, phrase)
           line == IF ~ asVersion \/ IsService(groups[i].slug) THEN 0
                   ELSE IF groups[i].parent # 0 THEN groups[i].parent ELSE i
           new == NextId(groups)
           made == NewGroup(type, phrase, phrase, {}, line, "confirmed", "user")
           revived == [groups[old] EXCEPT !.status = "confirmed", !.source = "user", !.name = phrase,
                                          !.parent = line, !.retired = 0]
       IN  /\ old # 0 => IsUnused(groups[old])
           /\ IF old = 0
              THEN Edit(AddGroup(groups, made), overrides, parents, blocks, {i, new})
              ELSE Edit([groups EXCEPT ![old] = revived], overrides, parents, blocks, {i, old})

\* mark_not_model
NotModel(i) ==
    /\ Editable(i)
    /\ LET G == [k \in DOMAIN groups |-> IF groups[k].parent = i THEN [groups[k] EXCEPT !.parent = 0]
                                         ELSE groups[k]]
       IN  Edit([G EXCEPT ![i].status = "ignored", ![i].parent = 0], overrides, parents,
                blocks \cup Phrases(groups[i]), {i})

\* move_listing: to a group in use, or back to what the rules say.
MoveListing(l, i) ==
    /\ titles[l] # <<>> /\ ~ IsUnused(groups[i])
    /\ Edit(groups, Put(overrides, l, i), parents, blocks, {i})

UnbindListing(l) ==
    /\ titles[l] # <<>>
    /\ Edit(groups, Restrict(overrides, DOMAIN overrides \ {l}), parents, blocks, {})

\* POST /grouping/regroup
RegroupButton == Edit(groups, overrides, parents, blocks, {})

Next ==
    \/ \E l \in DOMAIN Listings : \E t \in TitleTexts[l] : Collect(l, t)
    \/ NextDay
    \/ Deploy
    \/ Start
    \/ Commit
    \/ RollBack
    \/ RegroupButton
    \/ \E i \in DOMAIN groups :
          \/ \E name \in Names : Rename(i, name)
          \/ Confirm(i)
          \/ \E p \in {0} \cup DOMAIN groups : SetParent(i, p)
          \/ \E j \in DOMAIN groups : Merge(i, j)
          \/ \E phrase \in Names, asVersion \in BOOLEAN : Split(i, phrase, asVersion)
          \/ NotModel(i)
          \/ \E l \in DOMAIN Listings : MoveListing(l, i)
    \/ \E l \in DOMAIN Listings : UnbindListing(l)

Spec == Init /\ [][Next]_vars

---------------------------------------------------------------------------
(* Properties                                                              *)

\* While the brand's hash is the hash of what is stored, a delta pass takes every rule for
\* applied.  They are: each binding, each line, and no listing is in a group that is out of
\* use or two levels deep, though rules are saved while passes run (regroup_brand, _write).
HashMeansApplied ==
    hash = RulesHash(groups, Snapshot(Nothing)) =>
        /\ \A l \in DOMAIN overrides : titles[l] # <<>> => assigned[l].group = overrides[l]
        /\ \A i \in DOMAIN parents : groups[i].parent = parents[i]
        /\ \A l \in DOMAIN Listings \ DOMAIN overrides : LET g == assigned[l].group IN
              g # 0 => /\ ~ IsUnused(groups[g])
                       /\ groups[g].parent # 0 => groups[groups[g].parent].parent = 0

\* The pass that would follow this one with nothing changed in between.
Again(full) ==
    Regroup([pass.base EXCEPT !.groups = pass.result.groups, !.assigned = pass.result.assigned,
                              !.hash = pass.result.hash], full)

\* After a full pass a delta has nothing to do: seeding, mining and retiring leave the
\* hash they were digested into, and no listing changes its model (regroup_brand).
Same(again) ==
    /\ ~ again.full
    /\ again.assigned = pass.result.assigned
    /\ again.groups = pass.result.groups

DeltaAfterFullIsQuiet == (pass # NoPass /\ pass.result.full) => Same(Again(FALSE))

\* docs/GROUPING.md section 7: a second full pass in a row changes nothing
\* (changed = retired = revived = 0).
Unchanged(again) ==
    /\ again.assigned = pass.result.assigned
    /\ \A i \in DOMAIN pass.result.groups \cap DOMAIN again.groups :
          again.groups[i].retired = pass.result.groups[i].retired

SecondPassIsQuiet == (pass # NoPass /\ pass.result.full) => Unchanged(Again(TRUE))

\* A pass never makes two groups of one slug: seeds, versions, service lines and mined
\* phrases find the group that has it, in use, retired or rejected (uq brand, type, slug).
\* Objects a request read long ago may clash with a newer row; that pass rolls back.
PassKeepsSlugsApart == pass # NoPass /\ ~ Clashes(pass.base.groups) => ~ Clashes(pass.result.groups)

\* The rules give a listing no group that a user rejected.
TombstonesStay ==
    pass # NoPass => \A i \in DOMAIN pass.base.groups : pass.base.groups[i].status = "ignored" =>
        \A l \in DOMAIN Listings :
            pass.result.assigned[l].group = i => pass.result.assigned[l].method = "override"

\* What a user rejected stays rejected, and what a user confirmed is neither retired nor
\* deleted, by a pass that read it (_settle and
\* _inherit touch only found groups and the seeds nothing names).
RulingsSurvive ==
    pass # NoPass => \A i \in DOMAIN pass.base.groups :
        LET read == pass.base.groups[i]   left == pass.result.groups[i]
        IN  /\ read.status = "ignored" => i \in DOMAIN pass.result.groups /\ left.status = "ignored"
            /\ read.status = "confirmed" /\ read.source # "seed" =>
                   /\ i \in DOMAIN pass.result.groups /\ left.status = "confirmed"
                   /\ read.retired = 0 => left.retired = 0
=============================================================================
