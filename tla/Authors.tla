------------------------------- MODULE Authors -------------------------------
(***************************************************************************)
(* The ordered authors of an item (ArchiveItemAuthor) and the copy of      *)
(* their names in ArchiveItem.author_name. A save, a rename and a merge    *)
(* are transactions at READ COMMITTED that take FOR UPDATE locks, of items *)
(* before authors; a statement that waits for a lock has chosen its rows   *)
(* before, and looks at them again when it has the lock. Each of them may  *)
(* be refused, die, or be the victim of a deadlock.                        *)
(***************************************************************************)
EXTENDS Naturals, Sequences, FiniteSets

CONSTANTS
  AuthoredItems,
  AuthorIdCount,    \* ids of Author rows, never given twice
  AuthorNames,
  AuthorWriters,    \* requests that may be open at the same time
  AuthorTxBound,    \* requests in all
  Unused, Deleted,  \* the name of an id without a row
  NoAuthor          \* of a request that renames or merges nothing

AuthorIds == 1..AuthorIdCount

ASSUME AuthorAssumption ==
  /\ {Unused, Deleted} \cap AuthorNames = {}
  /\ AuthorIdCount \in Nat /\ AuthorTxBound \in Nat
  /\ NoAuthor \notin AuthorIds

VARIABLES
  auName,   \* Author.name
  auLinks,  \* per item: its authors, by position
  auText,   \* per item: author_name, the names it joins
  auTx,     \* what each request holds and will write
  auCount   \* requests so far

auVars == <<auName, auLinks, auText, auTx, auCount>>

Among(seq) == {seq[n] : n \in DOMAIN seq}
Distinct(seq) == \A j, k \in DOMAIN seq : seq[j] = seq[k] => j = k
AuthorLists(S) == {s \in UNION {[1..n -> S] : n \in 0..Cardinality(S)} : Distinct(s)}
ExistingAuthors == {a \in DOMAIN auName : auName[a] \in AuthorNames}
Named(n) == {a \in ExistingAuthors : auName[a] = n}
LinkedTo(a) == {i \in AuthoredItems : a \in Among(auLinks[i])}
NamesIn(names, authors) == [k \in DOMAIN authors |-> names[authors[k]]]

NoNames == [a \in AuthorIds |-> Unused]
NoAuTx == [at |-> "idle", item |-> {}, chosen |-> <<>>, name |-> Unused, looks |-> 0,
           made |-> {}, text |-> <<>>, target |-> NoAuthor, keeper |-> NoAuthor,
           found |-> {}, missing |-> {}, items |-> {}, authors |-> {},
           links |-> [i \in AuthoredItems |-> <<>>], names |-> NoNames]

Others(w) == AuthorWriters \ {w}
ItemsFree(w, S) == \A v \in Others(w) : S \cap auTx[v].items = {}
AuthorsFree(w, S) == \A v \in Others(w) : S \cap auTx[v].authors = {}
RowsUnchanged == UNCHANGED <<auName, auLinks, auText>>

MayOpenAu(w) == auTx[w].at = "idle" /\ auCount < AuthorTxBound
OpensAu(w, tx) ==
  /\ MayOpenAu(w) /\ ItemsFree(w, tx.items)
  /\ auTx' = [auTx EXCEPT ![w] = tx]
  /\ auCount' = auCount + 1
  /\ RowsUnchanged

StepsAu(w, tx) ==
  /\ auTx' = [auTx EXCEPT ![w] = tx]
  /\ UNCHANGED auCount /\ RowsUnchanged

CommitsAu(w, names, links, texts) ==
  /\ auName' = names /\ auLinks' = links /\ auText' = texts
  /\ auTx' = [auTx EXCEPT ![w] = NoAuTx]
  /\ UNCHANGED auCount

(* Refused, dead, or a rename to the name it has.                          *)
AbortAuthors(w) == auTx[w].at # "idle" /\ StepsAu(w, NoAuTx)

------------------------------------------------------------------------------
(* The authors of one item                                                 *)

(* apply_staff_archive_item_authors looks for the new name twice, then     *)
(* creates it; apply_legacy_author_name has a name only and looks once.    *)
SaveAuthors(w, i, chosen, name, looks) ==
  /\ looks = 1 => chosen = <<>>
  /\ OpensAu(w, [NoAuTx EXCEPT !.at = "ids", !.item = {i}, !.items = {i},
                               !.chosen = chosen, !.name = name, !.looks = looks])

LockChosen(w) ==
  LET tx == auTx[w] IN
  /\ tx.at = "ids"
  /\ Among(tx.chosen) \subseteq ExistingAuthors /\ AuthorsFree(w, Among(tx.chosen))
  /\ StepsAu(w, [tx EXCEPT !.authors = Among(tx.chosen), !.text = NamesIn(auName, tx.chosen),
                           !.at = IF tx.name = Unused THEN "save" ELSE "look"])

LookUp(w) ==
  /\ auTx[w].at = "look"
  /\ StepsAu(w, [auTx[w] EXCEPT !.at = "found", !.found = Named(auTx[w].name)])

Uses(tx, a) ==
  [tx EXCEPT !.at = "save", !.chosen = Append(tx.chosen, a), !.text = Append(tx.text, tx.name)]

(* _staff_author_plan and _resolve_unique_author_by_exact_name: one author *)
(* is used again, several are refused, and none is created.                *)
UseOrCreate(w) ==
  LET tx == auTx[w]
      matches == tx.found \cap Named(tx.name)
  IN
  /\ tx.at = "found" /\ AuthorsFree(w, tx.found)
  /\ \/ \E a \in matches :
          /\ matches = {a}
          /\ StepsAu(w, IF a \in Among(tx.chosen) THEN [tx EXCEPT !.at = "save"]
                        ELSE [Uses(tx, a) EXCEPT !.authors = tx.authors \cup {a}])
     \/ /\ matches = {} /\ tx.looks > 1
        /\ StepsAu(w, [tx EXCEPT !.at = "look", !.looks = @ - 1])
     \/ /\ matches = {} /\ tx.looks = 1
        /\ \E a \in AuthorIds :
             /\ auName[a] = Unused /\ \A v \in AuthorWriters : a \notin auTx[v].made
             /\ StepsAu(w, [Uses(tx, a) EXCEPT !.made = {a}])

CommitSave(w) ==
  LET tx == auTx[w] IN
  /\ tx.at = "save"
  /\ CommitsAu(w, [a \in AuthorIds |-> IF a \in tx.made THEN tx.name ELSE auName[a]],
               [i \in AuthoredItems |-> IF i \in tx.item THEN tx.chosen ELSE auLinks[i]],
               [i \in AuthoredItems |-> IF i \in tx.item THEN tx.text ELSE auText[i]])

------------------------------------------------------------------------------
(* All the items of one author: rename_author, and merge_author with the   *)
(* duplicate for its target.                                               *)

StartRenameAuthor(w, a, name) ==
  OpensAu(w, [NoAuTx EXCEPT !.at = "gather", !.target = a, !.name = name])

StartMergeAuthors(w, keeper, duplicate) ==
  /\ keeper # duplicate
  /\ OpensAu(w, [NoAuTx EXCEPT !.at = "gather", !.target = duplicate, !.keeper = keeper])

(* The linked items are read without locks until none of them is missing;  *)
(* then their links are locked, and a statement chooses the authors.       *)
Gather(w) ==
  LET tx == auTx[w]
      missing == LinkedTo(tx.target) \ tx.items
  IN
  /\ tx.at = "gather"
  /\ StepsAu(w, [tx EXCEPT !.at = IF missing = {} THEN "authors" ELSE "items",
                           !.missing = missing, !.found = Named(tx.name),
                           !.links = [i \in AuthoredItems |->
                                        IF i \in tx.items THEN auLinks[i] ELSE <<>>]])

LockItems(w) ==
  LET tx == auTx[w] IN
  /\ tx.at = "items" /\ ItemsFree(w, tx.missing)
  /\ StepsAu(w, [tx EXCEPT !.at = "gather", !.items = @ \cup tx.missing, !.missing = {}])

AuthorsOn(tx) == UNION {Among(tx.links[i]) : i \in tx.items}

(* The authors of the locked items, the target and, of a merge, the        *)
(* keeper; of a rename, whoever has the new name, which is then refused.   *)
LockAuthors(w) ==
  LET tx == auTx[w]
      pair == {tx.target, tx.keeper} \ {NoAuthor}
      all == AuthorsOn(tx) \cup pair
  IN
  /\ tx.at = "authors" /\ pair \subseteq ExistingAuthors
  /\ AuthorsFree(w, all \cup tx.found)
  /\ \A a \in all \cup tx.found : auName[a] # tx.name
  /\ StepsAu(w, [tx EXCEPT !.at = IF tx.keeper = NoAuthor THEN "rename" ELSE "merge",
                           !.authors = all,
                           !.names = [a \in AuthorIds |->
                                        IF a \in all THEN auName[a] ELSE Unused]])

(* Mutant of LinksAreHeld: without the second look at the links. *)
NotReread(w) == TRUE

(* AUTHOR_LINKS_CHANGED_RETRY_ERROR otherwise *)
LinksAreHeld(w) == LinkedTo(auTx[w].target) \subseteq auTx[w].items

CommitRename(w) ==
  LET tx == auTx[w]
      affected == {i \in tx.items : tx.target \in Among(tx.links[i])}
      read == [tx.names EXCEPT ![tx.target] = tx.name]
  IN
  /\ tx.at = "rename" /\ LinksAreHeld(w)
  /\ CommitsAu(w, [auName EXCEPT ![tx.target] = tx.name], auLinks,
               [i \in AuthoredItems |->
                  IF i \in affected THEN NamesIn(read, tx.links[i]) ELSE auText[i]])

(* _planned_author_ids, of an item that the duplicate is linked to, once.   *)
PlannedAuthors(links, keeper, duplicate) ==
  IF keeper \in Among(links)
  THEN LET at == CHOOSE k \in DOMAIN links : links[k] = duplicate IN
       [k \in 1..(Len(links) - 1) |-> IF k < at THEN links[k] ELSE links[k + 1]]
  ELSE [k \in DOMAIN links |-> IF links[k] = duplicate THEN keeper ELSE links[k]]

CommitMergeAuthors(w) ==
  LET tx == auTx[w]
      linked == LinkedTo(tx.target)
      planned(i) == PlannedAuthors(tx.links[i], tx.keeper, tx.target)
  IN
  /\ tx.at = "merge" /\ LinksAreHeld(w)
  /\ CommitsAu(w, [auName EXCEPT ![tx.target] = Deleted],
               [i \in AuthoredItems |-> IF i \in linked THEN planned(i) ELSE auLinks[i]],
               [i \in AuthoredItems |->
                  IF i \in linked THEN NamesIn(tx.names, planned(i)) ELSE auText[i]])

------------------------------------------------------------------------------
(* Any authors, of any items, whose names the items show.                  *)
Init_Authors ==
  /\ auName \in {f \in [AuthorIds -> AuthorNames \cup {Unused}] :
                   \A a, b \in AuthorIds : f[a] = Unused /\ a < b => f[b] = Unused}
  /\ auLinks \in [AuthoredItems -> AuthorLists(ExistingAuthors)]
  /\ auText = [i \in AuthoredItems |-> NamesIn(auName, auLinks[i])]
  /\ auTx = [w \in AuthorWriters |-> NoAuTx]
  /\ auCount = 0

AuthorRequest(w) ==
  \/ \E i \in AuthoredItems, s \in AuthorLists(ExistingAuthors), n \in AuthorNames \cup {Unused} :
       \E looks \in {1, 2} : SaveAuthors(w, i, s, n, looks)
  \/ \E a \in ExistingAuthors, n \in AuthorNames : StartRenameAuthor(w, a, n)
  \/ \E k, d \in ExistingAuthors : StartMergeAuthors(w, k, d)

AuthorStep(w) ==
  \/ MayOpenAu(w) /\ AuthorRequest(w)
  \/ LockChosen(w) \/ LookUp(w) \/ UseOrCreate(w) \/ CommitSave(w)
  \/ Gather(w) \/ LockItems(w) \/ LockAuthors(w) \/ CommitRename(w) \/ CommitMergeAuthors(w)
  \/ AbortAuthors(w)

Next_Authors == \E w \in AuthorWriters : AuthorStep(w)

Spec_Authors == Init_Authors /\ [][Next_Authors]_auVars

AuthorTx == [
  at : {"idle", "ids", "look", "found", "save", "gather", "items", "authors", "rename", "merge"},
  item : SUBSET AuthoredItems, chosen : Seq(AuthorIds),
  name : AuthorNames \cup {Unused}, looks : 0..2, made : SUBSET AuthorIds,
  target : AuthorIds \cup {NoAuthor}, keeper : AuthorIds \cup {NoAuthor},
  text : Seq(AuthorNames), found : SUBSET AuthorIds, missing : SUBSET AuthoredItems,
  items : SUBSET AuthoredItems, authors : SUBSET AuthorIds,
  links : [AuthoredItems -> Seq(AuthorIds)], names : [AuthorIds -> AuthorNames \cup {Unused}]]

(* Every row and every open request has one of its shapes. *)
AuthorTypeOK ==
  /\ auName \in [AuthorIds -> AuthorNames \cup {Unused, Deleted}]
  /\ auLinks \in [AuthoredItems -> Seq(AuthorIds)]
  /\ auText \in [AuthoredItems -> Seq(AuthorNames)]
  /\ auTx \in [AuthorWriters -> AuthorTx]
  /\ auCount \in 0..AuthorTxBound

(* author_name of every item joins the names of its authors, in their      *)
(* order, and each of them exists: "Each affected ``author_name`` is then  *)
(* rebuilt from that item's ordered author links"                          *)
(* (archive_item_authors.py:615), also when an item is linked, a co-author *)
(* renamed or the author merged while the rename waits for its locks.      *)
AuthorNamesAgree ==
  \A i \in DOMAIN auText :
    /\ Among(auLinks[i]) \subseteq ExistingAuthors
    /\ auText[i] = NamesIn(auName, auLinks[i])
=============================================================================
