------------------------------- MODULE PetCatalog -------------------------------
(***************************************************************************)
(* The catalog: pets, their photos, health records and status trail, and   *)
(* what of them the public role reads through the chain of row policies    *)
(* (migrations 00003, 00005 and 00006, query/pets.sql and media.sql).      *)
(* Transactions of a shelter run the statements below; a statement that a  *)
(* policy, a key or an index refuses ends its transaction, and is Fail.    *)
(* PostgreSQL is modelled as in FormVersions, with cascading deletes.      *)
(***************************************************************************)
EXTENDS Naturals, FiniteSets

CONSTANTS
    Procs,      \* handlers, each running one transaction at a time
    Shelters,
    Pets, Media, Trail, Records,    \* row ids, which the callers choose
    MaxDirty,   \* bound: rows a transaction writes, unless they are photos or cascaded to
    NoShelter,  \* no transaction is open
    NoRow,      \* never inserted, or deleted
    Untouched   \* a row this transaction has not written

Photos == Pets \X Media     \* pet_media has no id of its own
Ids == Pets \cup Media \cup Trail \cup Records \cup Photos

\* listed: of the seven statuses the one that the public policy asks for, and
\* published_at set.  They are set together, and either takes a pet off the list.
PetRow    == [shelter: Shelters, listed: BOOLEAN, deleted: BOOLEAN]
MediaRow  == [shelter: Shelters, deleted: BOOLEAN]
TrailRow  == [shelter: Shelters, pet: Pets]
RecordRow == [shelter: Shelters, pet: Pets, document: Media \cup {NoRow}]
PhotoRow  == [shelter: Shelters, cover: BOOLEAN]

AnyRow    == PetRow \cup MediaRow \cup TrailRow \cup RecordRow \cup PhotoRow

ASSUME CatalogAssumption ==
    /\ Pets \cap (Media \cup Trail \cup Records \cup Photos) = {}
    /\ Media \cap (Trail \cup Records \cup Photos) = {}
    /\ Trail \cap (Records \cup Photos) = {} /\ Records \cap Photos = {}
    /\ MaxDirty \in Nat
    /\ NoShelter \notin Shelters
    /\ NoRow \notin AnyRow \cup Pets \cup Media
    /\ Untouched \notin AnyRow \cup {NoRow}

VARIABLES
    rows,       \* the committed tables
    writes,     \* writes[x]: row versions x's transaction has not committed
    scope       \* scope[x]: the shelter x's transaction was opened for

vars == <<rows, writes, scope>>

RowOf(i) == IF i \in Pets THEN PetRow ELSE IF i \in Media THEN MediaRow
            ELSE IF i \in Trail THEN TrailRow ELSE IF i \in Records THEN RecordRow
            ELSE PhotoRow

TypeOK ==
    /\ DOMAIN rows = Ids /\ \A i \in Ids : rows[i] \in RowOf(i) \cup {NoRow}
    /\ DOMAIN writes = Procs
    /\ \A x \in Procs : /\ DOMAIN writes[x] = Ids
                        /\ \A i \in Ids : writes[x][i] \in RowOf(i) \cup {NoRow, Untouched}
    /\ scope \in [Procs -> Shelters \cup {NoShelter}]

Init ==
    /\ rows = [i \in Ids |-> NoRow]
    /\ writes = [x \in Procs |-> [i \in Ids |-> Untouched]]
    /\ scope = [x \in Procs |-> NoShelter]

-----------------------------------------------------------------------------
(* What a statement sees, and what it waits for.                           *)

View(x, i) == IF writes[x][i] = Untouched THEN rows[i] ELSE writes[x][i]

\* Mutant: public_catalog for every command and every role, as policies are ORed.
MineOrPublic(x, i) ==
    /\ scope[x] # NoShelter
    /\ View(x, i) # NoRow
    /\ \/ View(x, i).shelter = scope[x]
       \/ i \in Pets /\ View(x, i).listed /\ ~View(x, i).deleted
    /\ \A y \in Procs \ {x} : writes[y][i] = Untouched

\* Row policy tenant_isolation, and the row lock.
Mine(x, i) ==
    /\ scope[x] # NoShelter
    /\ View(x, i) # NoRow /\ View(x, i).shelter = scope[x]
    /\ \A y \in Procs \ {x} : writes[y][i] = Untouched

\* The rows of a table that name i in a foreign key.
Children(table, i) ==
    LET there == {j \in Ids : table[j] \notin {NoRow, Untouched}} IN
       {f \in there \cap Photos : i \in {f[1], f[2]}}
    \cup {h \in there \cap Trail : table[h].pet = i}
    \cup {r \in there \cap Records : i \in {table[r].pet, table[r].document}}

\* KEY SHARE on a parent is held by whoever is inserting a child of it.
Shared(x, i) == \E y \in Procs \ {x} : Children(writes[y], i) # {}

\* Mutant: REFERENCES pets (id), without the shelter.
ParentById(x, i) ==
    /\ View(x, i) # NoRow
    /\ \A y \in Procs \ {x} : writes[y][i] # NoRow

\* A composite foreign key to (id, shelter_id): it looks past row security, and
\* waits for whoever is deleting the parent.
ParentExists(x, i) ==
    /\ View(x, i) # NoRow /\ View(x, i).shelter = scope[x]
    /\ \A y \in Procs \ {x} : writes[y][i] # NoRow

\* Mutant: the application looks for a cover first, instead of the index.
SeesNoCover(x, p) ==
    \A m \in Media : LET r == View(x, <<p, m>>) IN
        r # NoRow => ~(r.shelter = scope[x] /\ r.cover)

\* pet_media_one_primary_idx: nobody has the cover of p, is about to have it, or
\* to give it up.
CoverFree(x, p) ==
    \A m \in Media : LET f == <<p, m>>
                        others == {writes[y][f] : y \in Procs \ {x}} \ {Untouched}
                    IN
        \A r \in {View(x, f)} \cup others \cup (IF others = {} THEN {} ELSE {rows[f]}) :
            r # NoRow => ~(r.shelter = scope[x] /\ r.cover)

Dirty(x) == {i \in Ids : writes[x][i] # Untouched}

Put(x, new) ==
    /\ LET all == Dirty(x) \cup DOMAIN new
       IN  all \subseteq Photos \/ Cardinality(all) <= MaxDirty
    /\ writes' = [writes EXCEPT ![x] =
                    [i \in Ids |-> IF i \in DOMAIN new THEN new[i] ELSE writes[x][i]]]

\* The primary key is free, and nobody is about to take it or to give it up.
Insert(x, i, r) ==
    /\ scope[x] # NoShelter
    /\ View(x, i) = NoRow
    /\ \A y \in Procs \ {x} : writes[y][i] = Untouched
    /\ Put(x, [j \in {i} |-> r])
    /\ UNCHANGED <<rows, scope>>

Update(x, i, r) ==
    /\ Put(x, [j \in {i} |-> r])
    /\ UNCHANGED <<rows, scope>>

\* DELETE with what ON DELETE CASCADE takes along; it waits for KEY SHARE on the
\* row and for the locks of what goes with it.
Delete(x, i, cascade) ==
    /\ Mine(x, i)
    /\ ~Shared(x, i)
    /\ \A j \in cascade : \A y \in Procs \ {x} : writes[y][j] = Untouched
    /\ writes' = [writes EXCEPT ![x] =
                    [j \in Ids |-> IF j \in cascade \cup {i} THEN NoRow ELSE writes[x][j]]]
    /\ UNCHANGED <<rows, scope>>

ChildrenSeen(x, i) == Children([j \in Ids |-> View(x, j)], i)

-----------------------------------------------------------------------------
(* The statements of a transaction.                                        *)

Begin(x, s) ==
    /\ scope[x] = NoShelter
    /\ scope' = [scope EXCEPT ![x] = s]
    /\ UNCHANGED <<rows, writes>>

CreatePet(x, p) ==
    Insert(x, p, [shelter |-> scope[x], listed |-> FALSE, deleted |-> FALSE])

\* Whatever the status was: only deleted_at is asked.
PublishPet(x, p) ==
    /\ Mine(x, p) /\ ~View(x, p).deleted
    /\ Update(x, p, [View(x, p) EXCEPT !.listed = TRUE])

\* The UPDATEs by which a pet leaves the catalog: deleted_at set, or else another
\* status, or published_at cleared.
LeaveCatalog(x, p, deleted) ==
    /\ Mine(x, p)
    /\ Update(x, p, [View(x, p) EXCEPT !.listed = @ /\ deleted, !.deleted = @ \/ deleted])

\* Mutant: the trail's key cascades.
DeletePetAndTrail(x, p) == Delete(x, p, ChildrenSeen(x, p))

\* A pet with a trail cannot be deleted; photos and records go with it.
DeletePet(x, p) ==
    /\ ChildrenSeen(x, p) \cap Trail = {}
    /\ Delete(x, p, ChildrenSeen(x, p))

RecordUpload(x, m) == Insert(x, m, [shelter |-> scope[x], deleted |-> FALSE])

SoftDeleteMedia(x, m) ==
    /\ Mine(x, m) /\ ~View(x, m).deleted
    /\ Update(x, m, [View(x, m) EXCEPT !.deleted = TRUE])

\* A document of a health record cannot be deleted; photos go with it.
DeleteMedia(x, m) ==
    /\ ChildrenSeen(x, m) \cap Records = {}
    /\ Delete(x, m, ChildrenSeen(x, m))

AttachPhoto(x, p, m, cover) ==
    /\ cover => CoverFree(x, p)
    /\ ParentExists(x, p) /\ ParentExists(x, m)
    /\ Insert(x, <<p, m>>, [shelter |-> scope[x], cover |-> cover])

SetCover(x, p, m, cover) ==
    /\ Mine(x, <<p, m>>)
    /\ View(x, <<p, m>>).cover # cover
    /\ cover => CoverFree(x, p)
    /\ Update(x, <<p, m>>, [View(x, <<p, m>>) EXCEPT !.cover = cover])

DetachPhoto(x, p, m) == Delete(x, <<p, m>>, {})

RecordHealthEvent(x, r, p, document) ==
    /\ ParentExists(x, p)
    /\ document # NoRow => ParentExists(x, document)
    /\ Insert(x, r, [shelter |-> scope[x], pet |-> p, document |-> document])

\* The one statement the grants and the triggers leave on the trail.
AppendStatusChange(x, h, p) ==
    /\ ParentExists(x, p)
    /\ Insert(x, h, [shelter |-> scope[x], pet |-> p])

End(x) ==
    /\ scope[x] # NoShelter
    /\ writes' = [writes EXCEPT ![x] = [i \in Ids |-> Untouched]]
    /\ scope' = [scope EXCEPT ![x] = NoShelter]

Commit(x) ==
    /\ End(x)
    /\ rows' = [i \in Ids |-> View(x, i)]

\* A refused statement, an error of the callback, a deadlock, a crash.
Fail(x) == End(x) /\ UNCHANGED rows

Next ==
    \E x \in Procs :
        \/ \E s \in Shelters : Begin(x, s)
        \/ \E p \in Pets :
              \/ CreatePet(x, p)
              \/ PublishPet(x, p)
              \/ \E deleted \in BOOLEAN : LeaveCatalog(x, p, deleted)
              \/ DeletePet(x, p)
        \/ \E m \in Media : RecordUpload(x, m) \/ SoftDeleteMedia(x, m) \/ DeleteMedia(x, m)
        \/ \E p \in Pets, m \in Media, cover \in BOOLEAN :
              AttachPhoto(x, p, m, cover) \/ SetCover(x, p, m, cover)
        \/ \E p \in Pets, m \in Media : DetachPhoto(x, p, m)
        \/ \E r \in Records, p \in Pets, document \in Media \cup {NoRow} :
              RecordHealthEvent(x, r, p, document)
        \/ \E h \in Trail, p \in Pets : AppendStatusChange(x, h, p)
        \/ Commit(x)
        \/ Fail(x)

Spec == Init /\ [][Next]_vars

-----------------------------------------------------------------------------
(* What app_public reads, each policy asking the one before it.            *)

PublicPet(p) ==
    /\ rows[p] # NoRow
    /\ rows[p].listed /\ ~rows[p].deleted

PublicPhoto(p, m) == rows[<<p, m>>] # NoRow /\ PublicPet(p)

PublicMedia(m) ==
    /\ rows[m] # NoRow /\ ~rows[m].deleted
    /\ \E p \in Pets : PublicPhoto(p, m)

OnShow(i) ==
    \/ i \in Pets /\ PublicPet(i)
    \/ i \in Media /\ PublicMedia(i)
    \/ i \in Photos /\ PublicPhoto(i[1], i[2])

-----------------------------------------------------------------------------
(* Properties.                                                             *)

\* What a pet's photos and records name is there and of their own shelter,
\* whatever is deleted meanwhile (00006 3-16, 45-49, 106-119).
NothingIsBorrowed ==
    \A i \in Ids : rows[i] # NoRow =>
        \A parent \in Pets \cup Media : i \in Children(rows, parent) =>
            rows[parent] # NoRow /\ rows[parent].shelter = rows[i].shelter

\* One cover photo per pet, whoever attaches and changes covers at the same
\* time (00006 52-68).
OneCover ==
    \A p \in Pets :
        Cardinality({m \in Media : rows[<<p, m>>] # NoRow /\ rows[<<p, m>>].cover}) <= 1

\* A committed line of the trail is never changed nor lost, and neither is the
\* pet it is about (00006 139-230).
TrailStays ==
    [][\A h \in Trail : rows[h] # NoRow =>
          rows'[h] = rows[h] /\ rows'[rows[h].pet] # NoRow]_rows

\* A pet, a photo or a file enters the public catalog, or leaves it, only by a
\* commit of the shelter that owns it, although what makes a file public is rows of
\* two other tables, which keys reach past row security (00005 132-142, 00006 45-50,
\* 79-84, 232-254).
OnlyItsShelterPublishes ==
    [][\A i \in Pets \cup Media \cup Photos : OnShow(i)' # OnShow(i) =>
          \E x \in Procs :
             /\ scope[x] # NoShelter /\ scope'[x] = NoShelter
             /\ \A r \in {rows[i], rows'[i]} \ {NoRow} : r.shelter = scope[x]]_rows
=============================================================================
