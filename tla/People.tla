-------------------------------- MODULE People --------------------------------
(***************************************************************************)
(* Who an item is about (ArchiveItemPerson), who appears on its photos     *)
(* (PhotoPerson), and what its search index says of them. Each request is  *)
(* one transaction at READ COMMITTED: a step takes the row locks of one    *)
(* statement when they are free, its writes are seen by the others from    *)
(* the commit on, and the index of an item is rebuilt under the lock of    *)
(* the item, from what is committed then and the writes of its own.        *)
(* Foreign keys are deferred: a new row locks nothing and the person it    *)
(* names may change or go, until the commit looks that person up.          *)
(* A person's names are a version: a rename, an alias or a merge makes a   *)
(* new one. Every transaction may be refused, die, or be the victim of a   *)
(* deadlock: then it keeps nothing.                                        *)
(***************************************************************************)
EXTENDS Naturals

CONSTANTS
  PeopleItems,      \* archive items
  PhotoSlots,       \* the photos of an item
  Persons,
  PeopleWriters,    \* requests that may be open at the same time
  PeopleTxBound,    \* requests in all
  PeopleBeside      \* what may go on beside them

ASSUME PeopleAssumption ==
  PeopleBeside \subseteq {"nothing", "edits", "imports"} /\ PeopleTxBound \in Nat

VARIABLES
  pLive,    \* the persons that exist
  pNames,   \* the version of each person's names
  aip,      \* ArchiveItemPerson rows
  pp,       \* PhotoPerson rows
  pIndex,   \* per item: the persons its index shows, with their names
  pTx,      \* what each request holds and will write
  pCount,   \* requests so far
  pBeside   \* are persons also renamed, or is a reviewed photo import run

pVars == <<pLive, pNames, aip, pp, pIndex, pTx, pCount, pBeside>>

Photos == PeopleItems \X PhotoSlots
ItemOf(ph) == ph[1]
Links == PeopleItems \X Persons
Appearances == Photos \X Persons
Required(rows) == {<<ItemOf(a[1]), a[2]>> : a \in rows}

(* What the builder of the index finds for an item.                        *)
Shown(i, links, appearances, names) ==
  {<<p, names[p]>> : p \in {q \in Persons : <<i, q>> \in links \cup Required(appearances)}}

------------------------------------------------------------------------------
(* Transactions                                                            *)

PeopleRows ==
  {"item"} \X PeopleItems \cup {"photo"} \X Photos \cup {"person"} \X Persons
    \cup {"link"} \X Links \cup {"appearance"} \X Appearances

(* Modes of PostgreSQL: FOR UPDATE, FOR NO KEY UPDATE (an UPDATE that      *)
(* leaves the key alone), FOR KEY SHARE (the commit of a new row, on what  *)
(* its foreign keys name: nobody holds it from one step to the next).      *)
LockModes == {"update", "no key", "share"}
Conflict(m, n) == ~ \/ m = "share" /\ n # "update"
                    \/ n = "share" /\ m # "update"

NoTx == [at |-> "idle", locks |-> {}, want |-> {}, addLinks |-> {}, dropLinks |-> {},
         addSeen |-> {}, dropSeen |-> {}, renamed |-> {}, gone |-> {},
         todo |-> {}, built |-> {}]

IsFree(w, row, mode) ==
  \A v \in PeopleWriters \ {w} : \A m \in LockModes :
    <<row, m>> \in pTx[v].locks => ~ Conflict(mode, m)
MayLock(w, locks) == \A l \in locks : IsFree(w, l[1], l[2])

LinksOf(w) == (aip \ pTx[w].dropLinks) \cup pTx[w].addLinks
SeenOf(w) == (pp \ pTx[w].dropSeen) \cup pTx[w].addSeen
NamesOf(w) ==
  [p \in Persons |-> pNames[p] + (IF p \in pTx[w].renamed THEN 1 ELSE 0)]

TxBecomes(w, tx) == pTx' = [pTx EXCEPT ![w] = tx]
NothingCommitted == UNCHANGED <<pLive, pNames, aip, pp, pIndex, pBeside>>

MayOpen(w) == pTx[w].at = "idle" /\ pCount < PeopleTxBound
Opens(w, tx) ==
  /\ MayOpen(w) /\ MayLock(w, tx.locks)
  /\ TxBecomes(w, tx)
  /\ pCount' = pCount + 1
  /\ NothingCommitted

(* A step of an open transaction that takes more locks.                    *)
Takes(w, locks, tx) ==
  /\ MayLock(w, locks)
  /\ TxBecomes(w, [tx EXCEPT !.locks = pTx[w].locks \cup locks])
  /\ NothingCommitted /\ UNCHANGED pCount

Exclusive(kind, rows) == {<<<<kind, r>>, "update">> : r \in rows}
Shared(kind, rows) == {<<<<kind, r>>, "share">> : r \in rows}

(* Unique constraints: a new row waits while another open request has      *)
(* inserted, moved or deleted the same one.                                *)
Unclaimed(w, links, seen) ==
  \A v \in PeopleWriters \ {w} :
    /\ links \cap (pTx[v].addLinks \cup pTx[v].dropLinks) = {}
    /\ seen \cap (pTx[v].addSeen \cup pTx[v].dropSeen) = {}

(* Django's foreign keys are DEFERRABLE INITIALLY DEFERRED: who is named   *)
(* by a new row must exist at the commit, which waits for whoever holds    *)
(* that person FOR UPDATE. The items and the photos named are locked by    *)
(* the request itself by then, or with their item.                         *)
NamedByNewRows(w) ==
  {r[2] : r \in pTx[w].addLinks \cup pTx[w].addSeen} \cup pTx[w].renamed
KeysHold(w) ==
  /\ NamedByNewRows(w) \subseteq pLive
  /\ MayLock(w, Shared("person", NamedByNewRows(w)))

(* sync_archive_item_search_index, in ascending order of the items.        *)
SyncItem(w) ==
  /\ pTx[w].at = "sync"
  /\ \E i \in pTx[w].todo :
       Takes(w, Exclusive("item", {i}),
             [pTx[w] EXCEPT !.todo = @ \ {i},
                            !.built = @ \cup {<<i, Shown(i, LinksOf(w), SeenOf(w), NamesOf(w))>>}])

CommitPeople(w) ==
  /\ pTx[w].at = "sync" /\ pTx[w].todo = {} /\ KeysHold(w)
  /\ pLive' = pLive \ pTx[w].gone
  /\ pNames' = NamesOf(w)
  /\ aip' = LinksOf(w)
  /\ pp' = SeenOf(w)
  /\ pIndex' = [i \in PeopleItems |->
                  IF \E b \in pTx[w].built : b[1] = i
                  THEN (CHOOSE b \in pTx[w].built : b[1] = i)[2]
                  ELSE pIndex[i]]
  /\ TxBecomes(w, NoTx)
  /\ UNCHANGED <<pCount, pBeside>>

AbortPeople(w) ==
  /\ pTx[w].at # "idle"
  /\ TxBecomes(w, NoTx)
  /\ NothingCommitted /\ UNCHANGED pCount

------------------------------------------------------------------------------
(* The people of an item                                                   *)

(* set_archive_item_people, with the people of the form.                   *)
StartReplace(w, i, P) ==
  Opens(w, [NoTx EXCEPT !.at = "required", !.locks = Exclusive("item", {i}),
                        !.want = P, !.todo = {i}])

(* Mutant of RequiredPeople: only the people of the form. *)
NoneRequired(rows) == {}

RequiredPeople(rows) == {a[2] : a \in rows}

(* person_ids_required_by_photo_people: the query joins the photos, so     *)
(* their rows are locked as well.                                          *)
ReadRequired(w) ==
  /\ pTx[w].at = "required"
  /\ LET rows == {a \in pp : ItemOf(a[1]) \in pTx[w].todo} IN
     Takes(w, Exclusive("appearance", rows) \cup Exclusive("photo", {a[1] : a \in rows}),
           [pTx[w] EXCEPT !.at = "replace", !.want = @ \cup RequiredPeople(rows)])

ReplaceLinks(w) ==
  /\ pTx[w].at = "replace" /\ pTx[w].want \subseteq pLive
  /\ LET rows == {l \in aip : l[1] \in pTx[w].todo}
         desired == pTx[w].todo \X pTx[w].want
     IN /\ Unclaimed(w, desired \ rows, {})
        /\ Takes(w, Exclusive("link", rows),
                 [pTx[w] EXCEPT !.at = "sync", !.dropLinks = rows \ desired,
                                !.addLinks = desired \ rows])

(* approve_suggestion locks the suggestion with its item and its person,   *)
(* then applies one ADD or one REMOVE.                                     *)
ApproveAdd(w, i, p) ==
  /\ p \in pLive /\ <<i, p>> \notin aip /\ Unclaimed(w, {<<i, p>>}, {})
  /\ Opens(w, [NoTx EXCEPT
       !.at = "sync", !.addLinks = {<<i, p>>}, !.todo = {i},
       !.locks = Exclusive("item", {i}) \cup Exclusive("person", {p})])

(* Mutant of IsRequired: a person on a photo may be unlinked as well. *)
NeverRequired(i, p) == FALSE

IsRequired(i, p) == <<i, p>> \in Required(pp)

(* delete_archive_item_person                                              *)
ApproveRemove(w, i, p) ==
  /\ <<i, p>> \in aip /\ ~ IsRequired(i, p)
  /\ Opens(w, [NoTx EXCEPT
       !.at = "sync", !.dropLinks = {<<i, p>>}, !.todo = {i},
       !.locks = Exclusive("item", {i}) \cup Exclusive("person", {p})
                   \cup Exclusive("link", {<<i, p>>})])

------------------------------------------------------------------------------
(* The people of a photo                                                   *)

(* update_photo_content_metadata                                           *)
StartPhoto(w, ph, P) ==
  Opens(w, [NoTx EXCEPT
    !.at = "appearances", !.want = {ph} \X P, !.todo = {ItemOf(ph)},
    !.locks = Exclusive("item", {ItemOf(ph)})
                \cup Exclusive("photo", {ItemOf(ph)} \X PhotoSlots)])

(* create_additional_photo_upload_plan: a slot with nobody on it stands    *)
(* for the new photo.                                                      *)
AddPhoto(w, ph, P) ==
  /\ P # {} /\ \A a \in pp : a[1] # ph
  /\ StartPhoto(w, ph, P)

(* set_photo_people *)
SetAppearances(w, ph) ==
  /\ pTx[w].at = "appearances" /\ pTx[w].want \subseteq {ph} \X pLive
  /\ ItemOf(ph) \in pTx[w].todo
  /\ LET rows == {a \in pp : a[1] = ph}
         dropped == rows \ pTx[w].want
         added == pTx[w].want \ rows
     IN /\ Unclaimed(w, {}, added)
        /\ Takes(w, Exclusive("appearance", dropped),
                 [pTx[w] EXCEPT !.at = "ensure", !.dropSeen = dropped, !.addSeen = added])

(* ensure_archive_item_person, for each appearance: an unlocked read, and  *)
(* an insert where it finds no link.                                       *)
EnsureLinks(w) ==
  /\ pTx[w].at = "ensure"
  /\ LET missing == Required(pTx[w].want) \ LinksOf(w) IN
     /\ Unclaimed(w, missing, {})
     /\ Takes(w, {}, [pTx[w] EXCEPT !.at = "sync", !.addLinks = missing])

(* apply_reviewed_photo_person_import: no lock on the item until the index *)
(* is rebuilt.                                                             *)
ImportAppearance(w, ph, p) ==
  /\ pBeside = "imports" /\ p \in pLive /\ <<ph, p>> \notin pp
  /\ Unclaimed(w, {}, {<<ph, p>>})
  /\ Opens(w, [NoTx EXCEPT
       !.at = "ensure", !.want = {<<ph, p>>}, !.addSeen = {<<ph, p>>}, !.todo = {ItemOf(ph)}])

------------------------------------------------------------------------------
(* The persons                                                             *)

ItemsOf(p) == {i \in PeopleItems : <<i, p>> \in aip \cup Required(pp)}

(* merge_persons: the pair first, then the rows that name one of them.     *)
StartMerge(w, keeper, duplicate) ==
  /\ keeper # duplicate /\ {keeper, duplicate} \subseteq pLive
  /\ Opens(w, [NoTx EXCEPT
       !.at = "merge", !.locks = Exclusive("person", {keeper, duplicate}),
       !.renamed = {keeper}, !.gone = {duplicate}])

Moved(rows, keeper, duplicate) ==
  {<<r[1], keeper>> : r \in {s \in rows : s[2] = duplicate}}

(* Mutant of Affected: only the items of the duplicate. *)
DuplicatesItems(keeper, duplicate) == ItemsOf(duplicate)

Affected(keeper, duplicate) == ItemsOf(keeper) \cup ItemsOf(duplicate)

MoveLinks(w, keeper, duplicate) ==
  /\ pTx[w].at = "merge"
  /\ pTx[w].renamed = {keeper} /\ pTx[w].gone = {duplicate}
  /\ LET pair == {keeper, duplicate}
         links == {l \in aip : l[2] \in pair}
         seen == {a \in pp : a[2] \in pair}
         kept == {l \in links : l[2] = keeper}
         moved == Moved(links, keeper, duplicate)
         movedSeen == Moved(seen, keeper, duplicate)
         ensured == Required({a \in seen : a[2] = keeper} \cup movedSeen)
         newLinks == (moved \cup ensured) \ kept
         newSeen == movedSeen \ seen
     IN /\ Unclaimed(w, newLinks, newSeen)
        /\ Takes(w, Exclusive("link", links) \cup Exclusive("appearance", seen),
                 [pTx[w] EXCEPT
                    !.at = "sync", !.todo = Affected(keeper, duplicate),
                    !.dropLinks = links \ kept, !.addLinks = newLinks,
                    !.dropSeen = {a \in seen : a[2] = duplicate}, !.addSeen = newSeen])

(* update_person_name updates the row of the person, create_person_alias   *)
(* and its kind insert a row that names it and lock nothing of the person; *)
(* the items are listed next.                                              *)
StartEdit(w, p, locks) ==
  /\ pBeside = "edits" /\ p \in pLive
  /\ Opens(w, [NoTx EXCEPT !.at = "list", !.renamed = {p}, !.locks = locks])

ListItems(w) ==
  /\ pTx[w].at = "list"
  /\ Takes(w, {}, [pTx[w] EXCEPT !.at = "sync", !.todo = UNION {ItemsOf(p) : p \in pTx[w].renamed}])

------------------------------------------------------------------------------
(* A consistent catalogue, as the backfills left it.                       *)
Init_People ==
  /\ pLive = Persons
  /\ pNames = [p \in Persons |-> 0]
  /\ pp \in SUBSET Appearances
  /\ aip \in {S \in SUBSET Links : Required(pp) \subseteq S}
  /\ pIndex = [i \in PeopleItems |-> Shown(i, aip, pp, pNames)]
  /\ pTx = [w \in PeopleWriters |-> NoTx]
  /\ pCount = 0
  /\ pBeside \in PeopleBeside

PeopleRequest(w) ==
  \/ \E i \in PeopleItems, P \in SUBSET pLive : StartReplace(w, i, P)
  \/ \E i \in PeopleItems, p \in Persons : ApproveAdd(w, i, p) \/ ApproveRemove(w, i, p)
  \/ \E ph \in Photos, P \in SUBSET pLive : StartPhoto(w, ph, P) \/ AddPhoto(w, ph, P)
  \/ \E ph \in Photos, p \in Persons : ImportAppearance(w, ph, p)
  \/ \E k, d \in Persons : StartMerge(w, k, d)
  \/ \E p \in Persons : StartEdit(w, p, {<<<<"person", p>>, "no key">>}) \/ StartEdit(w, p, {})

PeopleStep(w) ==
  \/ MayOpen(w) /\ PeopleRequest(w)
  \/ ReadRequired(w) \/ ReplaceLinks(w)
  \/ \E ph \in Photos : SetAppearances(w, ph)
  \/ EnsureLinks(w)
  \/ \E k, d \in Persons : MoveLinks(w, k, d)
  \/ ListItems(w)
  \/ SyncItem(w) \/ CommitPeople(w) \/ AbortPeople(w)

Next_People == \E w \in PeopleWriters : PeopleStep(w)

Spec_People == Init_People /\ [][Next_People]_pVars

LockRecords == PeopleRows \X LockModes
PeopleTx == [
  at : {"idle", "required", "replace", "appearances", "ensure", "merge", "list", "sync"},
  locks : SUBSET LockRecords,
  want : (SUBSET Persons) \cup (SUBSET Appearances),
  addLinks : SUBSET Links, dropLinks : SUBSET Links,
  addSeen : SUBSET Appearances, dropSeen : SUBSET Appearances,
  renamed : SUBSET Persons, gone : SUBSET Persons, todo : SUBSET PeopleItems,
  built : SUBSET (PeopleItems \X SUBSET (Persons \X Nat))]

(* Every row and every open request has one of its shapes. *)
PeopleTypeOK ==
  /\ pLive \subseteq Persons /\ pNames \in [Persons -> Nat]
  /\ aip \subseteq Links /\ pp \subseteq Appearances
  /\ \A i \in PeopleItems : pIndex[i] \in SUBSET (Persons \X Nat)
  /\ pTx \in [PeopleWriters -> PeopleTx]
  /\ pCount \in 0..PeopleTxBound /\ pBeside \in PeopleBeside

(* Whoever appears on a photo is linked to its item: "Item-level REPLACE   *)
(* keeps every Person still implied by PhotoPerson"                        *)
(* (archive_item_people.py:4), and neither a colleague's removal nor a     *)
(* merge takes that link away while the photo is being edited. A reviewed  *)
(* import may lose it: it reads the link without a lock.                   *)
PhotoPeopleAreLinked == pBeside # "imports" => Required(pp) \subseteq aip

PeopleOf(i) == {p \in Persons : <<i, p>> \in aip \cup Required(pp)}
UpToDate(i) == {p \in PeopleOf(i) : <<p, pNames[p]>> \in pIndex[i]}

(* The index of an item names exactly the people the item has.             *)
IndexNamesPeople ==
  \A i \in DOMAIN pIndex : {s[1] : s \in pIndex[i]} = PeopleOf(i)

KeepsIndex ==
  /\ IndexNamesPeople'
  /\ pBeside # "edits" =>
       \A i \in DOMAIN pIndex : UpToDate(i) \cap PeopleOf(i)' \subseteq UpToDate(i)'

(* A step leaves the index of every item with exactly its people, and      *)
(* whoever it showed by the current names it shows by those after the      *)
(* step: "Search: capture the pre-merge union of ArchiveItem ids ...       *)
(* refreshes each id once" (docs/ai-context/decision-log.md:2390). A link  *)
(* that is not committed when the names change is not reached, and an      *)
(* edit of the names reads its items while links may still be committed.   *)
IndexKeepsUp == [][KeepsIndex]_pVars

=============================================================================
