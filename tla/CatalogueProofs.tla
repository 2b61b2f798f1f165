--------------------------- MODULE CatalogueProofs ---------------------------
(***************************************************************************)
(* Authors and people for any number of items, authors, persons, photos    *)
(* and requests. AuthorNamesAgree: a request writes what it read when it   *)
(* got its locks, so the invariant says of every open request that this is *)
(* still so (TxIsSound), and of every two that they hold different rows    *)
(* (TxAreApart). PhotoPeopleAreLinked and IndexShowsPeople: rows that an   *)
(* open request depends on are rows that it holds, or rows of an item or a *)
(* person that it holds (TxSound), so no commit beside it changes them.    *)
(***************************************************************************)
EXTENDS Authors, People, TLAPS

TxIsSound(tx, names, links) ==
  /\ \A a \in tx.authors : names[a] \in AuthorNames
  /\ \A a \in tx.made : names[a] = Unused
  /\ tx.made # {} => tx.at = "save" /\ tx.name \in AuthorNames
  /\ tx.at \in {"ids", "look", "found", "save"} =>
       tx.item = tx.items /\ Distinct(tx.chosen)
  /\ tx.at \in {"look", "found", "save"} =>
       /\ Len(tx.text) = Len(tx.chosen)
       /\ \A k \in 1..Len(tx.chosen) :
            \/ tx.chosen[k] \in tx.authors /\ tx.text[k] = names[tx.chosen[k]]
            \/ tx.chosen[k] \in tx.made /\ tx.text[k] = tx.name
  /\ tx.at \in {"look", "found"} => tx.name \in AuthorNames
  /\ tx.at \in {"gather", "items", "authors", "rename", "merge"} =>
       /\ tx.target \in AuthorIds /\ tx.keeper # tx.target
       /\ tx.keeper = NoAuthor => tx.name \in AuthorNames
  /\ tx.at \in {"authors", "rename", "merge"} =>
       \A i \in tx.items : tx.links[i] = links[i]
  /\ tx.at \in {"rename", "merge"} =>
       /\ tx.target \in tx.authors
       /\ \A i \in tx.items : \A k \in 1..Len(tx.links[i]) : tx.links[i][k] \in tx.authors
       /\ \A a \in tx.authors : tx.names[a] = names[a]
  /\ tx.at = "rename" => tx.keeper = NoAuthor
  /\ tx.at = "merge" => tx.keeper \in tx.authors

TxAreApart ==
  \A v \in AuthorWriters : \A w \in Others(v) :
    /\ auTx[v].items \cap auTx[w].items = {}
    /\ auTx[v].authors \cap auTx[w].authors = {}
    /\ auTx[v].made \cap auTx[w].made = {}

(* The text of an item, without sequences of functions. *)
TextAgrees(text, links, names) ==
  /\ Distinct(links) /\ Len(text) = Len(links)
  /\ \A k \in 1..Len(links) : names[links[k]] \in AuthorNames /\ text[k] = names[links[k]]

(* The inductive invariant. *)
AuthorInvariant ==
  /\ AuthorTypeOK /\ TxAreApart
  /\ \A w \in AuthorWriters : TxIsSound(auTx[w], auName, auLinks)
  /\ \A i \in AuthoredItems : TextAgrees(auText[i], auLinks[i], auName)

------------------------------------------------------------------------------
(* NoAuTx is a request of the right type that holds nothing. *)
LEMMA NoAuTxIsSound ==
  ASSUME NEW names, NEW links
  PROVE  /\ NoAuTx \in AuthorTx /\ TxIsSound(NoAuTx, names, links)
         /\ NoAuTx.items = {} /\ NoAuTx.authors = {} /\ NoAuTx.made = {}
  BY DEF NoAuTx, AuthorTx, TxIsSound, NoNames

(* What the invariant says of the text of an item is AuthorNamesAgree. *)
LEMMA InvariantMeansNamesAgree == AuthorInvariant => AuthorNamesAgree
<1> SUFFICES ASSUME AuthorInvariant, NEW i \in AuthoredItems
             PROVE  /\ Among(auLinks[i]) \subseteq ExistingAuthors
                    /\ auText[i] = NamesIn(auName, auLinks[i])
  BY DEF AuthorInvariant, AuthorTypeOK, AuthorNamesAgree
<1>1. /\ auLinks[i] \in Seq(AuthorIds) /\ auText[i] \in Seq(AuthorNames)
      /\ DOMAIN auName = AuthorIds
      /\ TextAgrees(auText[i], auLinks[i], auName)
  BY DEF AuthorInvariant, AuthorTypeOK
<1>2. Among(auLinks[i]) \subseteq ExistingAuthors
  BY <1>1 DEF Among, ExistingAuthors, TextAgrees
<1>3. auText[i] = NamesIn(auName, auLinks[i])
  BY <1>1 DEF NamesIn, TextAgrees
<1> QED BY <1>2, <1>3

(* Soundness of a request reads only the rows it holds. *)
LEMMA SoundnessIsLocal ==
  ASSUME NEW tx, NEW names, NEW links, NEW newNames, NEW newLinks,
         TxIsSound(tx, names, links),
         \A a \in tx.authors \cup tx.made : newNames[a] = names[a],
         \A i \in tx.items : newLinks[i] = links[i]
  PROVE  TxIsSound(tx, newNames, newLinks)
<1>1. tx.at \in {"look", "found", "save"} =>
        \A k \in 1..Len(tx.chosen) :
          \/ tx.chosen[k] \in tx.authors /\ tx.text[k] = newNames[tx.chosen[k]]
          \/ tx.chosen[k] \in tx.made /\ tx.text[k] = tx.name
  BY DEF TxIsSound
<1>2. \A a \in tx.authors : newNames[a] \in AuthorNames
  BY DEF TxIsSound
<1>3. tx.at \in {"authors", "rename", "merge"} => \A i \in tx.items : tx.links[i] = newLinks[i]
  BY DEF TxIsSound
<1>4. tx.at \in {"rename", "merge"} => \A a \in tx.authors : tx.names[a] = newNames[a]
  BY DEF TxIsSound
<1>5. \A a \in tx.made : newNames[a] = Unused
  BY DEF TxIsSound
<1> QED BY <1>1, <1>2, <1>3, <1>4, <1>5, Zenon DEF TxIsSound

(* A step that leaves the rows alone keeps the invariant when the request  *)
(* it changes is sound and apart from the others.                          *)
LEMMA StepKeepsInvariant ==
  ASSUME AuthorInvariant, NEW w \in AuthorWriters, NEW tx \in AuthorTx,
         TxIsSound(tx, auName, auLinks),
         \A v \in Others(w) : /\ tx.items \cap auTx[v].items = {}
                              /\ tx.authors \cap auTx[v].authors = {}
                              /\ tx.made \cap auTx[v].made = {},
         auTx' = [auTx EXCEPT ![w] = tx], RowsUnchanged, auCount' \in 0..AuthorTxBound
  PROVE  AuthorInvariant'
<1>1. AuthorTypeOK'
  BY DEF AuthorInvariant, AuthorTypeOK, RowsUnchanged
<1>2. TxAreApart'
  BY DEF AuthorInvariant, AuthorTypeOK, TxAreApart, Others
<1>3. \A v \in AuthorWriters : TxIsSound(auTx'[v], auName', auLinks')
  BY DEF AuthorInvariant, AuthorTypeOK, RowsUnchanged
<1>4. \A i \in AuthoredItems : TextAgrees(auText'[i], auLinks'[i], auName')
  BY DEF AuthorInvariant, RowsUnchanged
<1> QED BY <1>1, <1>2, <1>3, <1>4 DEF AuthorInvariant

(* A commit keeps it when it writes rows of the request only, and leaves   *)
(* every text as its links say.                                            *)
LEMMA CommitKeepsInvariant ==
  ASSUME AuthorInvariant, NEW w \in AuthorWriters,
         auTx' = [auTx EXCEPT ![w] = NoAuTx], UNCHANGED auCount,
         auName' \in [AuthorIds -> AuthorNames \cup {Unused, Deleted}],
         auLinks' \in [AuthoredItems -> Seq(AuthorIds)],
         auText' \in [AuthoredItems -> Seq(AuthorNames)],
         \A a \in AuthorIds :
           a \in auTx[w].authors \/ a \in auTx[w].made \/ auName'[a] = auName[a],
         \A i \in AuthoredItems : i \in auTx[w].items \/ auLinks'[i] = auLinks[i],
         \A i \in AuthoredItems : TextAgrees(auText'[i], auLinks'[i], auName')
  PROVE  AuthorInvariant'
<1>1. AuthorTypeOK'
  BY NoAuTxIsSound DEF AuthorInvariant, AuthorTypeOK
<1>2. TxAreApart'
  BY NoAuTxIsSound, ZenonT(60) DEF AuthorInvariant, AuthorTypeOK, TxAreApart, Others
<1>3. ASSUME NEW v \in AuthorWriters PROVE TxIsSound(auTx'[v], auName', auLinks')
  <2>1. CASE v = w
    BY <2>1, NoAuTxIsSound DEF AuthorInvariant, AuthorTypeOK
  <2>2. CASE v # w
    <3> DEFINE tx == auTx[v]
    <3>1. /\ auTx'[v] = tx /\ tx \in AuthorTx /\ TxIsSound(tx, auName, auLinks)
          /\ auTx[w] \in AuthorTx /\ TxIsSound(auTx[w], auName, auLinks)
          /\ tx.items \cap auTx[w].items = {} /\ tx.authors \cap auTx[w].authors = {}
          /\ tx.made \cap auTx[w].made = {}
      BY <2>2 DEF AuthorInvariant, AuthorTypeOK, TxAreApart, Others
    <3>2. /\ tx.authors \subseteq AuthorIds /\ tx.made \subseteq AuthorIds
          /\ tx.items \subseteq AuthoredItems
      BY <3>1 DEF AuthorTx
    <3>3. \A a \in tx.authors \cup tx.made : auName'[a] = auName[a]
      BY <3>1, <3>2, AuthorAssumption DEF TxIsSound
    <3>4. \A i \in tx.items : auLinks'[i] = auLinks[i]
      BY <3>1, <3>2
    <3>5. TxIsSound(tx, auName', auLinks')
      BY <3>1, <3>3, <3>4, SoundnessIsLocal
    <3> QED BY <3>1, <3>5
  <2> QED BY <2>1, <2>2
<1> QED BY <1>1, <1>2, <1>3 DEF AuthorInvariant

------------------------------------------------------------------------------
(* A list of authors is a sequence without repetitions. *)
LEMMA ListsAreSequences ==
  ASSUME NEW S, NEW s \in AuthorLists(S)
  PROVE  s \in Seq(S) /\ Distinct(s)
<1>1. PICK n \in 0..Cardinality(S) : s \in [1..n -> S]
  BY DEF AuthorLists
<1>2. n \in Nat
  BY <1>1
<1> QED BY <1>1, <1>2 DEF AuthorLists

(* At the start nothing is open, and every item shows its authors. *)
LEMMA InitIsSound == Init_Authors => AuthorInvariant
<1> SUFFICES ASSUME Init_Authors PROVE AuthorInvariant
  OBVIOUS
<1>1. /\ auName \in [AuthorIds -> AuthorNames \cup {Unused, Deleted}]
      /\ auTx = [w \in AuthorWriters |-> NoAuTx]
  BY DEF Init_Authors
<1>2. ASSUME NEW i \in AuthoredItems
      PROVE  /\ auLinks[i] \in Seq(AuthorIds) /\ auText[i] \in Seq(AuthorNames)
             /\ TextAgrees(auText[i], auLinks[i], auName)
  <2>1. auLinks[i] \in AuthorLists(ExistingAuthors) /\ auText[i] = NamesIn(auName, auLinks[i])
    BY DEF Init_Authors
  <2>2. auLinks[i] \in Seq(ExistingAuthors) /\ Distinct(auLinks[i])
    BY <2>1, ListsAreSequences
  <2>3. ExistingAuthors \subseteq AuthorIds
    BY <1>1 DEF ExistingAuthors
  <2>4. \A k \in 1..Len(auLinks[i]) : auName[auLinks[i][k]] \in AuthorNames
    BY <2>2 DEF ExistingAuthors
  <2> QED BY <2>1, <2>2, <2>3, <2>4 DEF NamesIn, TextAgrees
<1>3. AuthorTypeOK
  <2>1. auCount = 0 /\ auLinks \in [AuthoredItems -> AuthorLists(ExistingAuthors)]
        /\ auText = [i \in AuthoredItems |-> NamesIn(auName, auLinks[i])]
    BY DEF Init_Authors
  <2>2. auLinks \in [AuthoredItems -> Seq(AuthorIds)]
    BY <1>2, <2>1
  <2>3. auText \in [AuthoredItems -> Seq(AuthorNames)]
    BY <1>2, <2>1
  <2>4. auTx \in [AuthorWriters -> AuthorTx] /\ auCount \in 0..AuthorTxBound
    BY <1>1, <2>1, NoAuTxIsSound, AuthorAssumption
  <2> QED BY <1>1, <2>2, <2>3, <2>4 DEF AuthorTypeOK
<1>4. TxAreApart
  BY <1>1, NoAuTxIsSound DEF TxAreApart, Others
<1>5. \A w \in AuthorWriters : TxIsSound(auTx[w], auName, auLinks)
  BY <1>1, NoAuTxIsSound
<1> QED BY <1>2, <1>3, <1>4, <1>5 DEF AuthorInvariant

(* What the invariant says of one request. *)
LEMMA RequestIsSound ==
  ASSUME AuthorInvariant, NEW w \in AuthorWriters
  PROVE  /\ auTx[w] \in AuthorTx /\ TxIsSound(auTx[w], auName, auLinks)
         /\ auTx \in [AuthorWriters -> AuthorTx] /\ auCount \in 0..AuthorTxBound
         /\ \A v \in Others(w) : /\ auTx[w].items \cap auTx[v].items = {}
                                 /\ auTx[w].authors \cap auTx[v].authors = {}
                                 /\ auTx[w].made \cap auTx[v].made = {}
  BY DEF AuthorInvariant, AuthorTypeOK, TxAreApart

(* A request opens with the locks of free items and no authors. *)
LEMMA OpeningKeepsInvariant ==
  ASSUME AuthorInvariant, NEW w \in AuthorWriters, NEW tx \in AuthorTx,
         TxIsSound(tx, auName, auLinks), tx.authors = {}, tx.made = {}, OpensAu(w, tx)
  PROVE  AuthorInvariant'
<1>1. \A v \in Others(w) : tx.items \cap auTx[v].items = {}
  BY DEF OpensAu, ItemsFree
<1>2. auCount' \in 0..AuthorTxBound
  BY RequestIsSound, AuthorAssumption DEF OpensAu, MayOpenAu
<1> QED BY <1>1, <1>2, StepKeepsInvariant DEF OpensAu

(* SaveAuthors *)
LEMMA SaveIsSound ==
  ASSUME AuthorInvariant, NEW w \in AuthorWriters, NEW i \in AuthoredItems,
         NEW s \in AuthorLists(ExistingAuthors), NEW n \in AuthorNames \cup {Unused},
         NEW looks \in {1, 2}, SaveAuthors(w, i, s, n, looks)
  PROVE  AuthorInvariant'
<1> DEFINE tx == [NoAuTx EXCEPT !.at = "ids", !.item = {i}, !.items = {i},
                                !.chosen = s, !.name = n, !.looks = looks]
<1>1. s \in Seq(AuthorIds) /\ Distinct(s)
  BY ListsAreSequences DEF ExistingAuthors, AuthorInvariant, AuthorTypeOK
<1>2. tx \in AuthorTx /\ tx.authors = {} /\ tx.made = {}
  <2>1. {i} \in SUBSET AuthoredItems /\ looks \in 0..2
    OBVIOUS
  <2> QED BY <1>1, <2>1, NoAuTxIsSound DEF AuthorTx
<1>3. TxIsSound(tx, auName, auLinks)
  BY <1>1 DEF TxIsSound, NoAuTx
<1>4. OpensAu(w, tx)
  BY DEF SaveAuthors
<1> HIDE DEF tx
<1> QED BY <1>2, <1>3, <1>4, OpeningKeepsInvariant

(* StartRenameAuthor and StartMergeAuthors *)
LEMMA StartIsSound ==
  ASSUME AuthorInvariant, NEW w \in AuthorWriters, NEW a \in ExistingAuthors,
         \/ \E n \in AuthorNames : StartRenameAuthor(w, a, n)
         \/ \E k \in ExistingAuthors : StartMergeAuthors(w, k, a)
  PROVE  AuthorInvariant'
<1>0. ExistingAuthors \subseteq AuthorIds
  BY DEF ExistingAuthors, AuthorInvariant, AuthorTypeOK
<1>1. ASSUME NEW n \in AuthorNames, StartRenameAuthor(w, a, n) PROVE AuthorInvariant'
  <2> DEFINE tx == [NoAuTx EXCEPT !.at = "gather", !.target = a, !.name = n]
  <2>1. tx \in AuthorTx /\ tx.authors = {} /\ tx.made = {}
    BY <1>0, NoAuTxIsSound DEF AuthorTx
  <2>2. TxIsSound(tx, auName, auLinks)
    BY <1>0, AuthorAssumption DEF TxIsSound, NoAuTx
  <2>3. OpensAu(w, tx)
    BY <1>1 DEF StartRenameAuthor
  <2> HIDE DEF tx
  <2> QED BY <2>1, <2>2, <2>3, OpeningKeepsInvariant
<1>2. ASSUME NEW k \in ExistingAuthors, StartMergeAuthors(w, k, a) PROVE AuthorInvariant'
  <2> DEFINE tx == [NoAuTx EXCEPT !.at = "gather", !.target = a, !.keeper = k]
  <2>1. tx \in AuthorTx /\ tx.authors = {} /\ tx.made = {}
    BY <1>0, NoAuTxIsSound DEF AuthorTx
  <2>2. TxIsSound(tx, auName, auLinks)
    BY <1>0, <1>2, AuthorAssumption DEF TxIsSound, NoAuTx, StartMergeAuthors
  <2>3. OpensAu(w, tx)
    BY <1>2 DEF StartMergeAuthors
  <2> HIDE DEF tx
  <2> QED BY <2>1, <2>2, <2>3, OpeningKeepsInvariant
<1> QED BY <1>1, <1>2

------------------------------------------------------------------------------
(* A step of an open request keeps the invariant, when it takes free rows. *)
LEMMA AdvancingKeepsInvariant ==
  ASSUME AuthorInvariant, NEW w \in AuthorWriters, NEW tx \in AuthorTx, StepsAu(w, tx),
         TxIsSound(tx, auName, auLinks),
         \A v \in Others(w) : /\ tx.items \cap auTx[v].items = {}
                              /\ tx.authors \cap auTx[v].authors = {}
                              /\ tx.made \cap auTx[v].made = {}
  PROVE  AuthorInvariant'
  BY StepKeepsInvariant, RequestIsSound DEF StepsAu

(* AbortAuthors *)
LEMMA AbortIsSound ==
  ASSUME AuthorInvariant, NEW w \in AuthorWriters, AbortAuthors(w)
  PROVE  AuthorInvariant'
  BY AdvancingKeepsInvariant, NoAuTxIsSound DEF AbortAuthors

(* LockChosen: the names are read with the locks. *)
LEMMA LockChosenIsSound ==
  ASSUME AuthorInvariant, NEW w \in AuthorWriters, LockChosen(w)
  PROVE  AuthorInvariant'
<1> DEFINE old == auTx[w]
           text == NamesIn(auName, old.chosen)
           tx == [old EXCEPT !.authors = Among(old.chosen), !.text = text,
                             !.at = IF old.name = Unused THEN "save" ELSE "look"]
<1>1. /\ old \in AuthorTx /\ TxIsSound(old, auName, auLinks)
      /\ \A v \in Others(w) : /\ old.items \cap auTx[v].items = {}
                              /\ old.made \cap auTx[v].made = {}
  BY RequestIsSound
<1>2. /\ old.at = "ids" /\ StepsAu(w, tx)
      /\ Among(old.chosen) \subseteq ExistingAuthors /\ AuthorsFree(w, Among(old.chosen))
  BY DEF LockChosen
<1>3. old.chosen \in Seq(AuthorIds) /\ old.name \in AuthorNames \cup {Unused}
  BY <1>1 DEF AuthorTx
<1>4. \A k \in 1..Len(old.chosen) :
        old.chosen[k] \in Among(old.chosen) /\ auName[old.chosen[k]] \in AuthorNames
  BY <1>2, <1>3 DEF Among, ExistingAuthors
<1>5. /\ text \in Seq(AuthorNames) /\ Len(text) = Len(old.chosen)
      /\ \A k \in 1..Len(old.chosen) : text[k] = auName[old.chosen[k]]
  BY <1>3, <1>4 DEF NamesIn
<1>6. Among(old.chosen) \subseteq AuthorIds
  BY <1>3 DEF Among
<1> HIDE DEF old, text
<1>7. tx \in AuthorTx
  BY <1>1, <1>5, <1>6 DEF AuthorTx
<1>8. /\ tx.authors = Among(old.chosen) /\ tx.text = text /\ tx.items = old.items
      /\ tx.item = old.item /\ tx.made = old.made /\ tx.chosen = old.chosen
      /\ tx.name = old.name /\ tx.at \in {"save", "look"} /\ (tx.at = "look" => tx.name # Unused)
  BY <1>1 DEF AuthorTx
<1>9. TxIsSound(tx, auName, auLinks)
  <2> HIDE DEF tx
  <2>1. old.made = {} /\ old.item = old.items /\ Distinct(old.chosen)
    BY <1>1, <1>2 DEF TxIsSound
  <2>2. \A a \in Among(old.chosen) : auName[a] \in AuthorNames
    BY <1>2 DEF ExistingAuthors
  <2> QED BY <1>3, <1>4, <1>5, <1>8, <2>1, <2>2 DEF TxIsSound
<1>10. \A v \in Others(w) : tx.authors \cap auTx[v].authors = {}
  BY <1>2, <1>8 DEF AuthorsFree
<1> HIDE DEF tx
<1> QED BY <1>1, <1>2, <1>7, <1>8, <1>9, <1>10, AdvancingKeepsInvariant

(* LookUp *)
LEMMA LookUpIsSound ==
  ASSUME AuthorInvariant, NEW w \in AuthorWriters, LookUp(w)
  PROVE  AuthorInvariant'
<1> DEFINE old == auTx[w]
           tx == [old EXCEPT !.at = "found", !.found = Named(old.name)]
<1>1. /\ old \in AuthorTx /\ TxIsSound(old, auName, auLinks)
      /\ old.at = "look" /\ StepsAu(w, tx)
  BY RequestIsSound DEF LookUp
<1>2. Named(old.name) \subseteq AuthorIds
  BY DEF Named, ExistingAuthors, AuthorInvariant, AuthorTypeOK
<1> HIDE DEF old
<1>3. tx \in AuthorTx
  BY <1>1, <1>2 DEF AuthorTx
<1>4. /\ tx.at = "found" /\ tx.items = old.items /\ tx.authors = old.authors
      /\ tx.made = old.made /\ tx.item = old.item /\ tx.chosen = old.chosen
      /\ tx.text = old.text /\ tx.name = old.name
  BY <1>1 DEF AuthorTx
<1> HIDE DEF tx
<1>5. TxIsSound(tx, auName, auLinks)
  BY <1>1, <1>4 DEF TxIsSound
<1> USE DEF old
<1> QED BY <1>1, <1>3, <1>4, <1>5, RequestIsSound, AdvancingKeepsInvariant

(* A request that appends one author to what it read stays sound. *)
LEMMA AppendingIsSound ==
  ASSUME NEW old \in AuthorTx, NEW tx \in AuthorTx, NEW a \in AuthorIds,
         TxIsSound(old, auName, auLinks), old.at = "found",
         tx.at = "save", tx.name = old.name, tx.item = old.item, tx.items = old.items,
         tx.chosen = Append(old.chosen, a), tx.text = Append(old.text, old.name),
         a \notin Among(old.chosen),
         \/ /\ tx.authors = old.authors \cup {a} /\ tx.made = {}
            /\ auName[a] = old.name
         \/ /\ tx.authors = old.authors /\ tx.made = {a} /\ auName[a] = Unused
  PROVE  TxIsSound(tx, auName, auLinks)
<1>1. /\ old.chosen \in Seq(AuthorIds) /\ old.text \in Seq(AuthorNames)
      /\ Len(old.text) = Len(old.chosen) /\ Distinct(old.chosen)
      /\ old.name \in AuthorNames /\ old.item = old.items /\ old.made = {}
      /\ \A k \in 1..Len(old.chosen) :
           old.chosen[k] \in old.authors /\ old.text[k] = auName[old.chosen[k]]
      /\ \A b \in old.authors : auName[b] \in AuthorNames
  BY DEF AuthorTx, TxIsSound
<1>2. /\ Len(tx.chosen) = Len(old.chosen) + 1 /\ Len(tx.text) = Len(tx.chosen)
      /\ \A k \in 1..Len(old.chosen) :
           tx.chosen[k] = old.chosen[k] /\ tx.text[k] = old.text[k]
      /\ tx.chosen[Len(old.chosen) + 1] = a /\ tx.text[Len(old.chosen) + 1] = old.name
      /\ DOMAIN tx.chosen = 1..(Len(old.chosen) + 1)
  BY <1>1
<1>3. Distinct(tx.chosen)
  BY <1>1, <1>2 DEF Distinct, Among
<1>4. \A k \in 1..Len(tx.chosen) :
        \/ tx.chosen[k] \in tx.authors /\ tx.text[k] = auName[tx.chosen[k]]
        \/ tx.chosen[k] \in tx.made /\ tx.text[k] = tx.name
  <2> SUFFICES ASSUME NEW k \in 1..Len(tx.chosen)
               PROVE  \/ tx.chosen[k] \in tx.authors /\ tx.text[k] = auName[tx.chosen[k]]
                      \/ tx.chosen[k] \in tx.made /\ tx.text[k] = tx.name
    OBVIOUS
  <2>1. CASE k \in 1..Len(old.chosen)
    BY <1>1, <1>2, <2>1
  <2>2. CASE k = Len(old.chosen) + 1
    BY <1>2, <2>2
  <2> QED BY <1>1, <1>2, <2>1, <2>2
<1>5. \A b \in tx.authors : auName[b] \in AuthorNames
  BY <1>1
<1>6. \A b \in tx.made : auName[b] = Unused
  OBVIOUS
<1> QED BY <1>1, <1>2, <1>3, <1>4, <1>5, <1>6 DEF TxIsSound

(* UseOrCreate *)
LEMMA UseOrCreateIsSound ==
  ASSUME AuthorInvariant, NEW w \in AuthorWriters, UseOrCreate(w)
  PROVE  AuthorInvariant'
<1> DEFINE old == auTx[w]
           matches == old.found \cap Named(old.name)
<1>1. /\ old \in AuthorTx /\ TxIsSound(old, auName, auLinks)
      /\ old.at = "found" /\ AuthorsFree(w, old.found)
      /\ \A v \in Others(w) : /\ old.items \cap auTx[v].items = {}
                              /\ old.authors \cap auTx[v].authors = {}
                              /\ old.made \cap auTx[v].made = {}
  BY RequestIsSound DEF UseOrCreate
<1>2. old.made = {} /\ old.name \in AuthorNames /\ old.looks \in 0..2
  BY <1>1 DEF TxIsSound, AuthorTx
<1>3. ASSUME NEW a \in matches, a \in Among(old.chosen),
             StepsAu(w, [old EXCEPT !.at = "save"])
      PROVE  AuthorInvariant'
  <2> DEFINE tx == [old EXCEPT !.at = "save"]
  <2> HIDE DEF old
  <2>1. tx \in AuthorTx /\ tx.at = "save"
    BY <1>1 DEF AuthorTx
  <2>2. /\ tx.items = old.items /\ tx.authors = old.authors /\ tx.made = old.made
        /\ tx.item = old.item /\ tx.chosen = old.chosen /\ tx.text = old.text
        /\ tx.name = old.name
    BY <1>1 DEF AuthorTx
  <2>3. StepsAu(w, tx)
    BY <1>3
  <2> HIDE DEF tx
  <2>4. TxIsSound(tx, auName, auLinks)
    BY <1>1, <1>2, <2>1, <2>2 DEF TxIsSound
  <2> QED BY <1>1, <2>1, <2>2, <2>3, <2>4, AdvancingKeepsInvariant
<1>4. ASSUME NEW a \in matches, a \notin Among(old.chosen),
             StepsAu(w, [Uses(old, a) EXCEPT !.authors = old.authors \cup {a}])
      PROVE  AuthorInvariant'
  <2> DEFINE tx == [Uses(old, a) EXCEPT !.authors = old.authors \cup {a}]
  <2>0. a \in AuthorIds /\ auName[a] = old.name /\ a \in old.found
    BY <1>1 DEF Named, ExistingAuthors, AuthorTx
  <2>00. \A v \in Others(w) : a \notin auTx[v].authors
    BY <1>1, <2>0 DEF AuthorsFree
  <2>1. StepsAu(w, tx)
    BY <1>4
  <2> HIDE DEF old
  <2>2. tx \in AuthorTx
    <3>1. Append(old.chosen, a) \in Seq(AuthorIds) /\ Append(old.text, old.name) \in Seq(AuthorNames)
      BY <1>1, <1>2, <2>0 DEF AuthorTx
    <3>2. old.authors \cup {a} \in SUBSET AuthorIds
      BY <1>1, <2>0 DEF AuthorTx
    <3> QED BY <1>1, <3>1, <3>2 DEF AuthorTx, Uses
  <2>3. /\ tx.at = "save" /\ tx.items = old.items /\ tx.authors = old.authors \cup {a}
        /\ tx.made = {} /\ tx.item = old.item /\ tx.chosen = Append(old.chosen, a)
        /\ tx.text = Append(old.text, old.name) /\ tx.name = old.name
    BY <1>1, <1>2 DEF AuthorTx, Uses
  <2> HIDE DEF tx
  <2>4. TxIsSound(tx, auName, auLinks)
    BY <1>1, <1>4, <2>0, <2>2, <2>3, AppendingIsSound
  <2> QED BY <1>1, <2>00, <2>1, <2>2, <2>3, <2>4, AdvancingKeepsInvariant
<1>5. ASSUME old.looks > 1, StepsAu(w, [old EXCEPT !.at = "look", !.looks = @ - 1])
      PROVE  AuthorInvariant'
  <2> DEFINE tx == [old EXCEPT !.at = "look", !.looks = @ - 1]
  <2>1. StepsAu(w, tx)
    BY <1>5
  <2> HIDE DEF old
  <2>2. tx \in AuthorTx /\ tx.at = "look"
    <3>1. old.looks - 1 \in 0..2
      BY <1>2, <1>5
    <3> QED BY <1>1, <3>1 DEF AuthorTx
  <2>3. /\ tx.items = old.items /\ tx.authors = old.authors /\ tx.made = old.made
        /\ tx.item = old.item /\ tx.chosen = old.chosen /\ tx.text = old.text
        /\ tx.name = old.name
    BY <1>1 DEF AuthorTx
  <2> HIDE DEF tx
  <2>4. TxIsSound(tx, auName, auLinks)
    BY <1>1, <1>2, <2>2, <2>3 DEF TxIsSound
  <2> QED BY <1>1, <2>1, <2>2, <2>3, <2>4, AdvancingKeepsInvariant
<1>6. ASSUME NEW a \in AuthorIds, auName[a] = Unused,
             \A v \in AuthorWriters : a \notin auTx[v].made,
             StepsAu(w, [Uses(old, a) EXCEPT !.made = {a}])
      PROVE  AuthorInvariant'
  <2> DEFINE tx == [Uses(old, a) EXCEPT !.made = {a}]
  <2>0. a \notin Among(old.chosen)
    <3>1. \A k \in 1..Len(old.chosen) : auName[old.chosen[k]] \in AuthorNames
      BY <1>1, <1>2 DEF TxIsSound
    <3>2. old.chosen \in Seq(AuthorIds)
      BY <1>1 DEF AuthorTx
    <3> QED BY <1>6, <3>1, <3>2, AuthorAssumption DEF Among
  <2>1. StepsAu(w, tx)
    BY <1>6
  <2> HIDE DEF old
  <2>2. tx \in AuthorTx
    <3>1. Append(old.chosen, a) \in Seq(AuthorIds) /\ Append(old.text, old.name) \in Seq(AuthorNames)
      BY <1>1, <1>2 DEF AuthorTx
    <3> QED BY <1>1, <3>1 DEF AuthorTx, Uses
  <2>3. /\ tx.at = "save" /\ tx.items = old.items /\ tx.authors = old.authors
        /\ tx.made = {a} /\ tx.item = old.item /\ tx.chosen = Append(old.chosen, a)
        /\ tx.text = Append(old.text, old.name) /\ tx.name = old.name
    BY <1>1, <1>2 DEF AuthorTx, Uses
  <2> HIDE DEF tx
  <2>4. TxIsSound(tx, auName, auLinks)
    BY <1>1, <1>6, <2>0, <2>2, <2>3, AppendingIsSound
  <2>5. \A v \in Others(w) : tx.made \cap auTx[v].made = {}
    BY <1>6, <2>3 DEF Others
  <2> QED BY <1>1, <2>1, <2>2, <2>3, <2>4, <2>5, AdvancingKeepsInvariant
<1> QED BY <1>3, <1>4, <1>5, <1>6 DEF UseOrCreate

(* Gather: the links of the locked items are read. *)
LEMMA GatherIsSound ==
  ASSUME AuthorInvariant, NEW w \in AuthorWriters, Gather(w)
  PROVE  AuthorInvariant'
<1> DEFINE old == auTx[w]
           missing == LinkedTo(old.target) \ old.items
           links == [i \in AuthoredItems |-> IF i \in old.items THEN auLinks[i] ELSE <<>>]
           tx == [old EXCEPT !.at = IF missing = {} THEN "authors" ELSE "items",
                             !.missing = missing, !.found = Named(old.name),
                             !.links = links]
<1>1. /\ old \in AuthorTx /\ TxIsSound(old, auName, auLinks)
      /\ old.at = "gather" /\ StepsAu(w, tx)
  BY RequestIsSound DEF Gather
<1>2. Named(old.name) \subseteq AuthorIds /\ missing \subseteq AuthoredItems
  BY DEF Named, ExistingAuthors, LinkedTo, AuthorInvariant, AuthorTypeOK
<1>3. /\ links \in [AuthoredItems -> Seq(AuthorIds)]
      /\ \A i \in old.items : links[i] = auLinks[i]
  BY <1>1 DEF AuthorInvariant, AuthorTypeOK, AuthorTx
<1> HIDE DEF old, missing, links
<1>4. tx \in AuthorTx
  BY <1>1, <1>2, <1>3 DEF AuthorTx
<1>5. /\ tx.at \in {"authors", "items"} /\ tx.items = old.items /\ tx.authors = old.authors
      /\ tx.made = old.made /\ tx.target = old.target /\ tx.keeper = old.keeper
      /\ tx.name = old.name /\ tx.links = links
  BY <1>1 DEF AuthorTx
<1> HIDE DEF tx
<1>6. TxIsSound(tx, auName, auLinks)
  BY <1>1, <1>3, <1>5 DEF TxIsSound
<1> USE DEF old
<1> QED BY <1>1, <1>4, <1>5, <1>6, RequestIsSound, AdvancingKeepsInvariant

(* LockItems *)
LEMMA LockItemsIsSound ==
  ASSUME AuthorInvariant, NEW w \in AuthorWriters, LockItems(w)
  PROVE  AuthorInvariant'
<1> DEFINE old == auTx[w]
           tx == [old EXCEPT !.at = "gather", !.items = @ \cup old.missing, !.missing = {}]
<1>1. /\ old \in AuthorTx /\ TxIsSound(old, auName, auLinks)
      /\ old.at = "items" /\ StepsAu(w, tx) /\ ItemsFree(w, old.missing)
      /\ \A v \in Others(w) : /\ old.items \cap auTx[v].items = {}
                              /\ old.authors \cap auTx[v].authors = {}
                              /\ old.made \cap auTx[v].made = {}
  BY RequestIsSound DEF LockItems
<1> HIDE DEF old
<1>2. old.items \cup old.missing \in SUBSET AuthoredItems
  BY <1>1 DEF AuthorTx
<1>3. tx \in AuthorTx
  BY <1>1, <1>2 DEF AuthorTx
<1>4. /\ tx.at = "gather" /\ tx.items = old.items \cup old.missing
      /\ tx.authors = old.authors /\ tx.made = old.made /\ tx.target = old.target
      /\ tx.keeper = old.keeper /\ tx.name = old.name
  BY <1>1 DEF AuthorTx
<1> HIDE DEF tx
<1>5. TxIsSound(tx, auName, auLinks)
  BY <1>1, <1>4 DEF TxIsSound
<1>6. \A v \in Others(w) : tx.items \cap auTx[v].items = {}
  BY <1>1, <1>4 DEF ItemsFree
<1> QED BY <1>1, <1>3, <1>4, <1>5, <1>6, AdvancingKeepsInvariant

(* LockAuthors: every author of a locked item is there and is read. *)
LEMMA LockAuthorsIsSound ==
  ASSUME AuthorInvariant, NEW w \in AuthorWriters, LockAuthors(w)
  PROVE  AuthorInvariant'
<1> DEFINE old == auTx[w]
           pair == {old.target, old.keeper} \ {NoAuthor}
           all == AuthorsOn(old) \cup pair
           names == [a \in AuthorIds |-> IF a \in all THEN auName[a] ELSE Unused]
           tx == [old EXCEPT !.at = IF old.keeper = NoAuthor THEN "rename" ELSE "merge",
                             !.authors = all, !.names = names]
<1>1. /\ old \in AuthorTx /\ TxIsSound(old, auName, auLinks)
      /\ old.at = "authors" /\ StepsAu(w, tx)
      /\ pair \subseteq ExistingAuthors /\ AuthorsFree(w, all \cup old.found)
      /\ \A v \in Others(w) : /\ old.items \cap auTx[v].items = {}
                              /\ old.made \cap auTx[v].made = {}
  <2>1. old.at = "authors" /\ pair \subseteq ExistingAuthors
    BY DEF LockAuthors
  <2>2. AuthorsFree(w, all \cup old.found)
    BY DEF LockAuthors
  <2>3. StepsAu(w, tx)
    BY DEF LockAuthors
  <2> QED BY <2>1, <2>2, <2>3, RequestIsSound
<1>2. /\ old.made = {} /\ old.target \in AuthorIds /\ old.keeper # old.target
      /\ old.keeper = NoAuthor => old.name \in AuthorNames
      /\ \A i \in old.items : old.links[i] = auLinks[i]
  BY <1>1 DEF TxIsSound
<1>3. \A i \in old.items : \A k \in 1..Len(old.links[i]) :
        /\ old.links[i][k] \in AuthorIds /\ auName[old.links[i][k]] \in AuthorNames
        /\ old.links[i][k] \in all
  <2>1. ASSUME NEW i \in old.items
        PROVE  /\ auLinks[i] \in Seq(AuthorIds) /\ DOMAIN auLinks[i] = 1..Len(auLinks[i])
               /\ \A k \in 1..Len(auLinks[i]) : auName[auLinks[i][k]] \in AuthorNames
    BY <1>1 DEF AuthorInvariant, AuthorTypeOK, AuthorTx, TextAgrees
  <2>2. ASSUME NEW i \in old.items, NEW k \in 1..Len(old.links[i])
        PROVE  /\ old.links[i][k] \in AuthorIds /\ auName[old.links[i][k]] \in AuthorNames
               /\ old.links[i][k] \in all
    <3>1. old.links[i] = auLinks[i] /\ k \in DOMAIN old.links[i]
      BY <1>2, <2>1
    <3>2. old.links[i][k] \in Among(old.links[i])
      BY <3>1 DEF Among
    <3>3. old.links[i][k] \in AuthorsOn(old)
      BY <3>2 DEF AuthorsOn
    <3>4. old.links[i][k] \in all
      BY <3>3
    <3>5. old.links[i][k] \in AuthorIds
      BY <2>1, <3>1
    <3> QED BY <2>1, <3>1, <3>4, <3>5
  <2> QED BY <2>2
<1>4. \A a \in all : a \in AuthorIds /\ auName[a] \in AuthorNames
  <2>1. \A a \in pair : a \in AuthorIds /\ auName[a] \in AuthorNames
    BY <1>1 DEF ExistingAuthors, AuthorInvariant, AuthorTypeOK
  <2>2. ASSUME NEW i \in old.items, NEW a \in Among(old.links[i])
        PROVE  a \in AuthorIds /\ auName[a] \in AuthorNames
    <3>1. i \in AuthoredItems /\ old.links \in [AuthoredItems -> Seq(AuthorIds)]
      BY <1>1 DEF AuthorTx
    <3>2. DOMAIN old.links[i] = 1..Len(old.links[i])
      BY <3>1
    <3> QED BY <1>3, <3>2 DEF Among
  <2>3. \A a \in AuthorsOn(old) : a \in AuthorIds /\ auName[a] \in AuthorNames
    BY <2>2 DEF AuthorsOn
  <2> HIDE DEF pair
  <2> QED BY <2>1, <2>3
<1>5. old.target \in all /\ (old.keeper # NoAuthor => old.keeper \in all)
  <2>1. old.target \in pair /\ (old.keeper # NoAuthor => old.keeper \in pair)
    BY <1>2, AuthorAssumption
  <2> HIDE DEF pair
  <2>2. pair \subseteq all
    OBVIOUS
  <2> QED BY <2>1, <2>2
<1>6. names \in [AuthorIds -> AuthorNames \cup {Unused}] /\ \A a \in all : names[a] = auName[a]
  BY <1>4
<1>7. \A v \in Others(w) : all \cap auTx[v].authors = {}
  BY <1>1 DEF AuthorsFree
<1> HIDE DEF old, all, names
<1>8. tx \in AuthorTx
  BY <1>1, <1>4, <1>6, ZenonT(60) DEF AuthorTx
<1>9. /\ tx.at = (IF old.keeper = NoAuthor THEN "rename" ELSE "merge")
      /\ tx.items = old.items /\ tx.authors = all /\ tx.names = names
      /\ tx.made = old.made /\ tx.target = old.target /\ tx.keeper = old.keeper
      /\ tx.name = old.name /\ tx.links = old.links
  BY <1>1 DEF AuthorTx
<1> HIDE DEF tx
<1>10. TxIsSound(tx, auName, auLinks)
  BY <1>2, <1>3, <1>4, <1>5, <1>6, <1>9 DEF TxIsSound
<1> QED BY <1>1, <1>7, <1>8, <1>9, <1>10, AdvancingKeepsInvariant

------------------------------------------------------------------------------
(* CommitSave: the list and the text were made together. *)
LEMMA CommitSaveIsSound ==
  ASSUME AuthorInvariant, NEW w \in AuthorWriters, CommitSave(w)
  PROVE  AuthorInvariant'
<1> DEFINE tx == auTx[w]
<1>1. /\ tx \in AuthorTx /\ TxIsSound(tx, auName, auLinks) /\ tx.at = "save"
      /\ auName' = [a \in AuthorIds |-> IF a \in tx.made THEN tx.name ELSE auName[a]]
      /\ auLinks' = [i \in AuthoredItems |-> IF i \in tx.item THEN tx.chosen ELSE auLinks[i]]
      /\ auText' = [i \in AuthoredItems |-> IF i \in tx.item THEN tx.text ELSE auText[i]]
      /\ auTx' = [auTx EXCEPT ![w] = NoAuTx] /\ UNCHANGED auCount
  BY RequestIsSound DEF CommitSave, CommitsAu
<1> HIDE DEF tx
<1>2. /\ auName \in [AuthorIds -> AuthorNames \cup {Unused, Deleted}]
      /\ auLinks \in [AuthoredItems -> Seq(AuthorIds)]
      /\ auText \in [AuthoredItems -> Seq(AuthorNames)]
      /\ \A i \in AuthoredItems : TextAgrees(auText[i], auLinks[i], auName)
  BY DEF AuthorInvariant, AuthorTypeOK
<1>3. /\ tx.chosen \in Seq(AuthorIds) /\ tx.text \in Seq(AuthorNames)
      /\ tx.item = tx.items /\ Distinct(tx.chosen) /\ Len(tx.text) = Len(tx.chosen)
      /\ tx.made # {} => tx.name \in AuthorNames
      /\ \A a \in tx.made : auName[a] = Unused
      /\ \A a \in tx.authors : auName[a] \in AuthorNames
  BY <1>1 DEF AuthorTx, TxIsSound
<1>4. /\ auName' \in [AuthorIds -> AuthorNames \cup {Unused, Deleted}]
      /\ auLinks' \in [AuthoredItems -> Seq(AuthorIds)]
      /\ auText' \in [AuthoredItems -> Seq(AuthorNames)]
  BY <1>1, <1>2, <1>3
<1>5. \A a \in AuthorIds : auName[a] \in AuthorNames => auName'[a] = auName[a]
  BY <1>1, <1>3, AuthorAssumption
<1>6. ASSUME NEW i \in AuthoredItems PROVE TextAgrees(auText'[i], auLinks'[i], auName')
  <2>1. CASE i \in tx.item
    <3>1. auText'[i] = tx.text /\ auLinks'[i] = tx.chosen
      BY <1>1, <2>1
    <3>2. ASSUME NEW k \in 1..Len(tx.chosen)
          PROVE  auName'[tx.chosen[k]] \in AuthorNames /\ tx.text[k] = auName'[tx.chosen[k]]
      <4>1. tx.chosen[k] \in AuthorIds
        BY <1>3
      <4>2. \/ tx.chosen[k] \in tx.authors /\ tx.text[k] = auName[tx.chosen[k]]
            \/ tx.chosen[k] \in tx.made /\ tx.text[k] = tx.name
        BY <1>1 DEF TxIsSound
      <4> QED BY <1>1, <1>3, <1>5, <4>1, <4>2
    <3> QED BY <1>3, <3>1, <3>2 DEF TextAgrees
  <2>2. CASE i \notin tx.item
    <3>1. auText'[i] = auText[i] /\ auLinks'[i] = auLinks[i]
      BY <1>1, <2>2
    <3>2. auLinks[i] \in Seq(AuthorIds)
      BY <1>2
    <3> QED BY <1>2, <1>5, <3>1, <3>2 DEF TextAgrees
  <2> QED BY <2>1, <2>2
<1>7. /\ \A a \in AuthorIds : a \in tx.authors \/ a \in tx.made \/ auName'[a] = auName[a]
      /\ \A i \in AuthoredItems : i \in tx.items \/ auLinks'[i] = auLinks[i]
  BY <1>1, <1>3
<1> USE DEF tx
<1> QED BY <1>1, <1>4, <1>6, <1>7, CommitKeepsInvariant

(* What the re-read of the links adds: the items of the target are held,   *)
(* so no other item shows its name.                                        *)
LEMMA TargetIsHeld ==
  ASSUME AuthorInvariant, NEW w \in AuthorWriters, LinksAreHeld(w),
         auTx[w].at \in {"rename", "merge"}
  PROVE  /\ auTx[w].items \subseteq AuthoredItems
         /\ auTx[w].target \in AuthorIds /\ auTx[w].target \in auTx[w].authors
         /\ \A i \in auTx[w].items : auTx[w].links[i] = auLinks[i]
         /\ \A i \in AuthoredItems \ auTx[w].items :
              \A k \in 1..Len(auLinks[i]) : auLinks[i][k] # auTx[w].target
<1>1. auTx[w] \in AuthorTx /\ TxIsSound(auTx[w], auName, auLinks)
  BY RequestIsSound
<1>2. ASSUME NEW i \in AuthoredItems \ auTx[w].items, NEW k \in 1..Len(auLinks[i])
      PROVE  auLinks[i][k] # auTx[w].target
  <2>1. i \notin LinkedTo(auTx[w].target)
    BY DEF LinksAreHeld
  <2>2. auTx[w].target \notin Among(auLinks[i])
    BY <2>1 DEF LinkedTo
  <2>3. k \in DOMAIN auLinks[i]
    BY DEF AuthorInvariant, AuthorTypeOK
  <2> QED BY <2>2, <2>3 DEF Among
<1> QED BY <1>1, <1>2 DEF AuthorTx, TxIsSound

(* CommitRename *)
LEMMA CommitRenameIsSound ==
  ASSUME AuthorInvariant, NEW w \in AuthorWriters, CommitRename(w)
  PROVE  AuthorInvariant'
<1> DEFINE tx == auTx[w]
           affected == {i \in tx.items : tx.target \in Among(tx.links[i])}
           read == [tx.names EXCEPT ![tx.target] = tx.name]
<1>1. /\ tx \in AuthorTx /\ TxIsSound(tx, auName, auLinks) /\ tx.at = "rename"
      /\ auName' = [auName EXCEPT ![tx.target] = tx.name]
      /\ auLinks' = auLinks
      /\ auText' = [i \in AuthoredItems |->
                      IF i \in affected THEN NamesIn(read, tx.links[i]) ELSE auText[i]]
      /\ auTx' = [auTx EXCEPT ![w] = NoAuTx] /\ UNCHANGED auCount
  BY RequestIsSound DEF CommitRename, CommitsAu
<1>2. /\ tx.items \subseteq AuthoredItems
      /\ tx.target \in AuthorIds /\ tx.target \in tx.authors
      /\ \A i \in tx.items : tx.links[i] = auLinks[i]
      /\ \A i \in AuthoredItems \ tx.items :
           \A k \in 1..Len(auLinks[i]) : auLinks[i][k] # tx.target
  BY <1>1, TargetIsHeld DEF CommitRename
<1>3. /\ auName \in [AuthorIds -> AuthorNames \cup {Unused, Deleted}]
      /\ auLinks \in [AuthoredItems -> Seq(AuthorIds)]
      /\ auText \in [AuthoredItems -> Seq(AuthorNames)]
      /\ \A i \in AuthoredItems : TextAgrees(auText[i], auLinks[i], auName)
  BY DEF AuthorInvariant, AuthorTypeOK
<1>4. /\ tx.name \in AuthorNames /\ tx.names \in [AuthorIds -> AuthorNames \cup {Unused}]
      /\ \A i \in tx.items : \A k \in 1..Len(tx.links[i]) : tx.links[i][k] \in tx.authors
      /\ \A a \in tx.authors : tx.names[a] = auName[a]
  BY <1>1 DEF AuthorTx, TxIsSound
<1> HIDE DEF tx
<1>5. \A a \in AuthorIds : a # tx.target => auName'[a] = auName[a]
  BY <1>1, <1>3
<1>6. auName'[tx.target] = tx.name /\ read[tx.target] = tx.name
  BY <1>1, <1>2, <1>3, <1>4
<1>7. \A a \in AuthorIds : a # tx.target => read[a] = tx.names[a]
  BY <1>4
<1> HIDE DEF read
<1>8. ASSUME NEW i \in AuthoredItems
      PROVE  TextAgrees(auText'[i], auLinks'[i], auName') /\ auText'[i] \in Seq(AuthorNames)
  <2>0. auLinks[i] \in Seq(AuthorIds) /\ auText[i] \in Seq(AuthorNames)
        /\ auLinks'[i] = auLinks[i] /\ TextAgrees(auText[i], auLinks[i], auName)
    BY <1>1, <1>3
  <2>1. CASE i \in affected
    <3> DEFINE s == auLinks[i]
    <3>1. i \in tx.items /\ tx.links[i] = s /\ auText'[i] = NamesIn(read, s)
      BY <1>1, <1>2, <2>1
    <3> HIDE DEF s
    <3>2. s \in Seq(AuthorIds) /\ s = auLinks[i]
      BY <2>0 DEF s
    <3>3. ASSUME NEW k \in 1..Len(s)
          PROVE  auName'[s[k]] \in AuthorNames /\ read[s[k]] = auName'[s[k]]
      <4>1. s[k] \in AuthorIds /\ s[k] \in tx.authors /\ auName[s[k]] \in AuthorNames
        BY <1>4, <2>0, <3>1, <3>2 DEF TextAgrees
      <4>2. CASE s[k] = tx.target
        BY <1>4, <1>6, <4>2
      <4>3. CASE s[k] # tx.target
        BY <1>4, <1>5, <1>7, <4>1, <4>3
      <4> QED BY <4>2, <4>3
    <3>4. /\ NamesIn(read, s) \in Seq(AuthorNames) /\ Len(NamesIn(read, s)) = Len(s)
          /\ \A k \in 1..Len(s) : NamesIn(read, s)[k] = auName'[s[k]]
      BY <3>2, <3>3 DEF NamesIn
    <3> QED BY <2>0, <3>1, <3>2, <3>3, <3>4 DEF TextAgrees
  <2>2. CASE i \notin affected
    <3>1. auText'[i] = auText[i]
      BY <1>1, <2>2
    <3>2. \A k \in 1..Len(auLinks[i]) : auLinks[i][k] # tx.target
      <4>1. CASE i \in tx.items
        <5>1. tx.target \notin Among(auLinks[i])
          BY <1>2, <2>2, <4>1
        <5> QED BY <2>0, <5>1 DEF Among
      <4> QED BY <1>2, <4>1
    <3>3. \A k \in 1..Len(auLinks[i]) : auName'[auLinks[i][k]] = auName[auLinks[i][k]]
      BY <1>5, <2>0, <3>2
    <3> QED BY <2>0, <3>1, <3>3 DEF TextAgrees
  <2> QED BY <2>1, <2>2
<1>9. /\ auName' \in [AuthorIds -> AuthorNames \cup {Unused, Deleted}]
      /\ auLinks' \in [AuthoredItems -> Seq(AuthorIds)]
  BY <1>1, <1>3, <1>4
<1>10. auText' \in [AuthoredItems -> Seq(AuthorNames)]
  BY <1>1, <1>8
<1>11. /\ \A a \in AuthorIds : a \in tx.authors \/ a \in tx.made \/ auName'[a] = auName[a]
       /\ \A i \in AuthoredItems : i \in tx.items \/ auLinks'[i] = auLinks[i]
  BY <1>1, <1>2, <1>5
<1> USE DEF tx
<1> QED BY <1>1, <1>8, <1>9, <1>10, <1>11, CommitKeepsInvariant

------------------------------------------------------------------------------
(* The links of an item, with the keeper once, where it was or where the   *)
(* duplicate was.                                                          *)
LEMMA PlannedAuthorsAreDistinct ==
  ASSUME NEW links \in Seq(AuthorIds), Distinct(links), NEW keeper \in AuthorIds,
         NEW duplicate \in AuthorIds, keeper # duplicate, duplicate \in Among(links)
  PROVE  LET planned == PlannedAuthors(links, keeper, duplicate) IN
         /\ planned \in Seq(AuthorIds) /\ Distinct(planned)
         /\ \A k \in 1..Len(planned) :
              /\ planned[k] # duplicate
              /\ planned[k] = keeper \/ \E j \in 1..Len(links) : planned[k] = links[j]
<1> DEFINE planned == PlannedAuthors(links, keeper, duplicate)
           n == Len(links)
<1>0. n \in Nat /\ DOMAIN links = 1..n /\ \A k \in 1..n : links[k] \in AuthorIds
  OBVIOUS
<1>1. CASE keeper \in Among(links)
  <2> DEFINE at == CHOOSE k \in DOMAIN links : links[k] = duplicate
  <2>1. at \in 1..n /\ links[at] = duplicate
    BY <1>0 DEF Among
  <2>2. planned = [k \in 1..(n - 1) |-> IF k < at THEN links[k] ELSE links[k + 1]]
    BY <1>1 DEF PlannedAuthors
  <2> HIDE DEF at, planned, n
  <2>3. n - 1 \in Nat
    BY <1>0, <2>1
  <2>4. \A k \in 1..(n - 1) : planned[k] = IF k < at THEN links[k] ELSE links[k + 1]
    BY <2>2
  <2>5. planned \in Seq(AuthorIds) /\ Len(planned) = n - 1 /\ DOMAIN planned = 1..(n - 1)
    <3> DEFINE m == n - 1
    <3>1. m \in Nat /\ DOMAIN planned = 1..m
      BY <2>2, <2>3
    <3>2. \A k \in 1..m : planned[k] \in AuthorIds
      BY <1>0, <2>1, <2>4
    <3> HIDE DEF m
    <3>3. planned \in [1..m -> AuthorIds]
      BY <2>2, <3>1, <3>2 DEF m
    <3>4. planned \in Seq(AuthorIds) /\ Len(planned) = m
      BY <3>1, <3>3
    <3> QED BY <3>1, <3>4 DEF m
  <2>6. Distinct(planned)
    <3> SUFFICES ASSUME NEW j \in 1..(n - 1), NEW k \in 1..(n - 1), planned[j] = planned[k]
                 PROVE  j = k
      BY <2>5, SMTT(60) DEF Distinct
    <3> QED BY <1>0, <2>1, <2>4, SMTT(60) DEF Distinct
  <2>7. ASSUME NEW k \in 1..(n - 1)
        PROVE  planned[k] # duplicate /\ \E j \in 1..n : planned[k] = links[j]
    BY <1>0, <2>1, <2>4 DEF Distinct
  <2> QED BY <2>5, <2>6, <2>7 DEF n, planned
<1>2. CASE keeper \notin Among(links)
  <2>1. planned = [k \in DOMAIN links |-> IF links[k] = duplicate THEN keeper ELSE links[k]]
    BY <1>2 DEF PlannedAuthors
  <2> HIDE DEF planned, n
  <2>2. planned \in Seq(AuthorIds) /\ Len(planned) = n /\ DOMAIN planned = 1..n
    BY <1>0, <2>1
  <2>3. \A k \in 1..n : planned[k] = IF links[k] = duplicate THEN keeper ELSE links[k]
    BY <1>0, <2>1
  <2>4. \A k \in 1..n : links[k] # keeper
    BY <1>0, <1>2 DEF Among
  <2>5. Distinct(planned)
    BY <1>0, <2>2, <2>3, <2>4 DEF Distinct
  <2> QED BY <2>2, <2>3, <2>5 DEF n, planned
<1> QED BY <1>1, <1>2

(* CommitMergeAuthors *)
LEMMA CommitMergeIsSound ==
  ASSUME AuthorInvariant, NEW w \in AuthorWriters, CommitMergeAuthors(w)
  PROVE  AuthorInvariant'
<1> DEFINE tx == auTx[w]
           linked == LinkedTo(tx.target)
           planned(i) == PlannedAuthors(tx.links[i], tx.keeper, tx.target)
<1>1. /\ tx \in AuthorTx /\ TxIsSound(tx, auName, auLinks) /\ tx.at = "merge"
      /\ auName' = [auName EXCEPT ![tx.target] = Deleted]
      /\ auLinks' = [i \in AuthoredItems |-> IF i \in linked THEN planned(i) ELSE auLinks[i]]
      /\ auText' = [i \in AuthoredItems |->
                      IF i \in linked THEN NamesIn(tx.names, planned(i)) ELSE auText[i]]
      /\ auTx' = [auTx EXCEPT ![w] = NoAuTx] /\ UNCHANGED auCount
  BY RequestIsSound DEF CommitMergeAuthors, CommitsAu
<1>2. /\ tx.items \subseteq AuthoredItems
      /\ tx.target \in AuthorIds /\ tx.target \in tx.authors
      /\ \A i \in tx.items : tx.links[i] = auLinks[i]
      /\ linked \subseteq tx.items
  BY <1>1, TargetIsHeld DEF CommitMergeAuthors, LinksAreHeld
<1>3. /\ auName \in [AuthorIds -> AuthorNames \cup {Unused, Deleted}]
      /\ auLinks \in [AuthoredItems -> Seq(AuthorIds)]
      /\ auText \in [AuthoredItems -> Seq(AuthorNames)]
      /\ \A i \in AuthoredItems : TextAgrees(auText[i], auLinks[i], auName)
  BY DEF AuthorInvariant, AuthorTypeOK
<1>4. /\ tx.authors \subseteq AuthorIds
      /\ tx.keeper \in tx.authors /\ tx.keeper # tx.target
      /\ \A i \in tx.items : \A k \in 1..Len(tx.links[i]) : tx.links[i][k] \in tx.authors
      /\ \A a \in tx.authors : tx.names[a] = auName[a] /\ auName[a] \in AuthorNames
  BY <1>1 DEF AuthorTx, TxIsSound
<1>5. \A i \in AuthoredItems : i \in linked <=> tx.target \in Among(auLinks[i])
  BY DEF LinkedTo
<1> HIDE DEF tx, linked, planned
<1>6. \A a \in AuthorIds : a # tx.target => auName'[a] = auName[a]
  BY <1>1, <1>3
<1>7. ASSUME NEW i \in AuthoredItems
      PROVE  /\ TextAgrees(auText'[i], auLinks'[i], auName')
             /\ auText'[i] \in Seq(AuthorNames) /\ auLinks'[i] \in Seq(AuthorIds)
  <2>0. auLinks[i] \in Seq(AuthorIds) /\ auText[i] \in Seq(AuthorNames)
        /\ TextAgrees(auText[i], auLinks[i], auName)
    BY <1>3
  <2>1. CASE i \in linked
    <3> DEFINE s == planned(i)
    <3>1. auLinks'[i] = s /\ auText'[i] = NamesIn(tx.names, s) /\ tx.links[i] = auLinks[i]
      BY <1>1, <1>2, <2>1
    <3>2. /\ s \in Seq(AuthorIds) /\ Distinct(s)
          /\ \A k \in 1..Len(s) :
               /\ s[k] # tx.target
               /\ s[k] = tx.keeper \/ \E j \in 1..Len(auLinks[i]) : s[k] = auLinks[i][j]
      <4>1. /\ Distinct(auLinks[i]) /\ tx.target \in Among(auLinks[i])
            /\ tx.keeper \in AuthorIds
        BY <1>4, <1>5, <2>0, <2>1 DEF TextAgrees
      <4>2. s = PlannedAuthors(auLinks[i], tx.keeper, tx.target)
        BY <3>1 DEF planned
      <4> HIDE DEF s
      <4> QED BY <1>2, <1>4, <2>0, <4>1, <4>2, PlannedAuthorsAreDistinct
    <3> HIDE DEF s
    <3>3. ASSUME NEW k \in 1..Len(s)
          PROVE  auName'[s[k]] \in AuthorNames /\ tx.names[s[k]] = auName'[s[k]]
      <4>1. s[k] \in tx.authors
        BY <1>2, <1>4, <2>1, <3>1, <3>2
      <4> QED BY <1>4, <1>6, <3>2, <4>1
    <3>4. /\ NamesIn(tx.names, s) \in Seq(AuthorNames) /\ Len(NamesIn(tx.names, s)) = Len(s)
          /\ \A k \in 1..Len(s) : NamesIn(tx.names, s)[k] = auName'[s[k]]
      BY <3>2, <3>3 DEF NamesIn
    <3> QED BY <3>1, <3>2, <3>3, <3>4 DEF TextAgrees
  <2>2. CASE i \notin linked
    <3>1. auText'[i] = auText[i] /\ auLinks'[i] = auLinks[i]
      BY <1>1, <2>2
    <3>2. \A k \in 1..Len(auLinks[i]) : auLinks[i][k] # tx.target
      BY <1>5, <2>0, <2>2 DEF Among
    <3>3. \A k \in 1..Len(auLinks[i]) : auName'[auLinks[i][k]] = auName[auLinks[i][k]]
      BY <1>6, <2>0, <3>2
    <3> QED BY <2>0, <3>1, <3>3 DEF TextAgrees
  <2> QED BY <2>1, <2>2
<1>8. auName' \in [AuthorIds -> AuthorNames \cup {Unused, Deleted}]
  BY <1>1, <1>3
<1>9. /\ auLinks' \in [AuthoredItems -> Seq(AuthorIds)]
      /\ auText' \in [AuthoredItems -> Seq(AuthorNames)]
  BY <1>1, <1>7
<1>10. /\ \A a \in AuthorIds : a \in tx.authors \/ a \in tx.made \/ auName'[a] = auName[a]
       /\ \A i \in AuthoredItems : i \in tx.items \/ auLinks'[i] = auLinks[i]
  BY <1>1, <1>2, <1>6
<1> USE DEF tx
<1> QED BY <1>1, <1>7, <1>8, <1>9, <1>10, CommitKeepsInvariant

------------------------------------------------------------------------------
(* Every step keeps the invariant. *)
LEMMA AuthorStepIsSound == AuthorInvariant /\ [Next_Authors]_auVars => AuthorInvariant'
<1> SUFFICES ASSUME AuthorInvariant, [Next_Authors]_auVars PROVE AuthorInvariant'
  OBVIOUS
<1>1. CASE UNCHANGED auVars
  BY <1>1 DEF auVars, AuthorInvariant, AuthorTypeOK, TxAreApart, TxIsSound, Others, TextAgrees,
              Distinct
<1>2. ASSUME NEW w \in AuthorWriters, AuthorStep(w) PROVE AuthorInvariant'
  <2>1. CASE MayOpenAu(w) /\ AuthorRequest(w)
    BY <2>1, SaveIsSound, StartIsSound DEF AuthorRequest
  <2>2. CASE LockChosen(w) \/ LookUp(w) \/ UseOrCreate(w) \/ CommitSave(w)
    BY <2>2, LockChosenIsSound, LookUpIsSound, UseOrCreateIsSound, CommitSaveIsSound
  <2>3. CASE Gather(w) \/ LockItems(w) \/ LockAuthors(w) \/ CommitRename(w)
             \/ CommitMergeAuthors(w)
    BY <2>3, GatherIsSound, LockItemsIsSound, LockAuthorsIsSound, CommitRenameIsSound,
       CommitMergeIsSound
  <2>4. CASE AbortAuthors(w)
    BY <2>4, AbortIsSound
  <2> QED BY <1>2, <2>1, <2>2, <2>3, <2>4 DEF AuthorStep
<1> QED BY <1>1, <1>2 DEF Next_Authors

(* The locks and what was read under them agree with the rows, always. *)
THEOREM AuthorInvariantHolds == Spec_Authors => []AuthorInvariant
<1>1. Init_Authors => AuthorInvariant
  BY InitIsSound
<1>2. AuthorInvariant /\ [Next_Authors]_auVars => AuthorInvariant'
  BY AuthorStepIsSound
<1> QED BY <1>1, <1>2, PTL DEF Spec_Authors

(* Type correctness of the authors, their links and the open requests. *)
THEOREM AuthorsTyped == Spec_Authors => []AuthorTypeOK
<1>1. AuthorInvariant => AuthorTypeOK
  BY DEF AuthorInvariant
<1> QED BY <1>1, AuthorInvariantHolds, PTL

(* author_name of every item joins the names of its authors, whatever      *)
(* saves, renames and merges run beside each other (archive_item_authors). *)
THEOREM AuthorNamesAlwaysAgree == Spec_Authors => []AuthorNamesAgree
  BY InvariantMeansNamesAgree, AuthorInvariantHolds, PTL

------------------------------------------------------------------------------
(* People. *)

(* Locks of an open request. Whoever changes or deletes a row holds it for *)
(* update; whom a new row names is only looked up at the commit.           *)
Holds(t, kind, r) == <<<<kind, r>>, "update">> \in t.locks
HoldsItem(t, i, seen) ==
  /\ Holds(t, "item", i)
  /\ \A a \in seen : ItemOf(a[1]) = i => Holds(t, "appearance", a)

UpdatesExclude ==
  \A v \in PeopleWriters : \A w \in PeopleWriters \ {v} :
  \A row \in PeopleRows, m \in LockModes :
    ~ (<<row, "update">> \in pTx[v].locks /\ <<row, m>> \in pTx[w].locks)

(* The catalogue as an open request sees it, and the items it rebuilds.    *)
LinksWith(t, links) == (links \ t.dropLinks) \cup t.addLinks
SeenWith(t, seen) == (seen \ t.dropSeen) \cup t.addSeen
NamesWith(t, names) ==
  [p \in Persons |-> names[p] + (IF p \in t.renamed THEN 1 ELSE 0)]
Rebuilt(t) == t.todo \cup {b[1] : b \in t.built}
PeopleAt(i, links, seen) == {p \in Persons : <<i, p>> \in links \cup Required(seen)}
PeopleWith(t, i, links, seen) == PeopleAt(i, LinksWith(t, links), SeenWith(t, seen))

(* What a request has read and still has to write, by its position.        *)
TxIsPlaced(t, beside) ==
  /\ t.at \notin {"ensure", "sync"} =>
       t.addLinks = {} /\ t.dropLinks = {} /\ t.addSeen = {} /\ t.dropSeen = {}
  /\ t.at # "sync" => t.built = {}
  /\ t.at \in {"required", "replace"} => t.want \subseteq Persons
  /\ t.at \in {"required", "replace", "appearances", "ensure"} => t.renamed = {}
  /\ t.at = "ensure" =>
       /\ t.addLinks = {} /\ t.dropLinks = {}
       /\ t.want \subseteq Appearances /\ t.addSeen \subseteq t.want
       /\ \A a \in t.want : ItemOf(a[1]) \in t.todo
  /\ t.at = "merge" =>
       t.renamed \cap t.gone = {} /\ \A p \in t.renamed : Holds(t, "person", p)
  /\ \A p \in t.gone : Holds(t, "person", p)
  /\ t.at = "list" => beside = "edits"

(* Its writes: what it drops it keeps, and its items are rebuilt.          *)
WritesAreHeld(t, seen) ==
  /\ \A a \in t.dropSeen : a \in seen /\ Holds(t, "appearance", a)
  /\ \A l \in t.addLinks \cup t.dropLinks : l[1] \in Rebuilt(t)
  /\ \A a \in t.addSeen \cup t.dropSeen : ItemOf(a[1]) \in Rebuilt(t)

(* What it has built for an item names the people it will leave there.     *)
BuiltIsSound(t, links, seen) ==
  \A b \in t.built :
    /\ Holds(t, "item", b[1])
    /\ {s[1] : s \in b[2]} = PeopleWith(t, b[1], links, seen)

(* Beside no edit: the items of a person it renames are rebuilt, and what  *)
(* it has built shows whoever is there and will stay by the current names. *)
NamesAreSound(t, links, seen, names) ==
  /\ \A p \in t.renamed : Holds(t, "person", p)
  /\ t.at = "sync" =>
       \A p \in t.renamed, i \in PeopleItems :
         p \in PeopleAt(i, links, seen) => i \in Rebuilt(t)
  /\ \A b \in t.built :
       \A p \in PeopleAt(b[1], links, seen) \cap PeopleWith(t, b[1], links, seen) :
         <<p, NamesWith(t, names)[p]>> \in b[2]

(* Beside no import: a link it drops belongs to a person that goes, or to  *)
(* an item it holds with the person or with the appearances; a photo it    *)
(* writes to is of an item it holds, or had the duplicate of its merge on  *)
(* it; what it will leave is linked, new rows of persons that are gone     *)
(* left aside: they are not committed.                                     *)
LinksAreSound(t, live, links, seen) ==
  /\ \A l \in t.dropLinks :
       \/ l[2] \in t.gone
       \/ Holds(t, "item", l[1]) /\ Holds(t, "person", l[2])
       \/ HoldsItem(t, l[1], seen)
  /\ \A a \in t.addSeen :
       \/ Holds(t, "item", ItemOf(a[1]))
       \/ Holds(t, "person", a[2]) /\ \E b \in t.dropSeen : b[1] = a[1]
  /\ t.at \in {"required", "appearances", "ensure"} => \A i \in t.todo : Holds(t, "item", i)
  /\ t.at = "replace" =>
       \A i \in t.todo : HoldsItem(t, i, seen) /\ \A a \in seen : ItemOf(a[1]) = i => a[2] \in t.want
  /\ t.at = "sync" =>
       /\ Required(seen \ t.dropSeen) \subseteq LinksWith(t, links)
       /\ Required({a \in t.addSeen : a[2] \in live}) \subseteq LinksWith(t, links)

TxSound(t, live, links, seen, names, beside) ==
  /\ TxIsPlaced(t, beside) /\ WritesAreHeld(t, seen) /\ BuiltIsSound(t, links, seen)
  /\ beside # "edits" => NamesAreSound(t, links, seen, names)
  /\ beside # "imports" => LinksAreSound(t, live, links, seen)

(* The inductive invariant. *)
PeopleInvariant ==
  /\ PeopleTypeOK /\ DOMAIN pIndex = PeopleItems
  /\ PhotoPeopleAreLinked /\ IndexNamesPeople
  /\ UpdatesExclude
  /\ \A w \in PeopleWriters : TxSound(pTx[w], pLive, aip, pp, pNames, pBeside)

------------------------------------------------------------------------------
(* Rows and locks. *)
LEMMA PeopleLinks ==
  /\ \A l \in Links : l[1] \in PeopleItems /\ l[2] \in Persons /\ l = <<l[1], l[2]>>
  /\ \A i \in PeopleItems, p \in Persons : <<i, p>> \in Links
  BY DEF Links

LEMMA PeopleAppearances ==
  /\ \A a \in Appearances : /\ a[1] \in Photos /\ a[2] \in Persons /\ a = <<a[1], a[2]>>
                            /\ ItemOf(a[1]) \in PeopleItems
  /\ \A ph \in Photos, p \in Persons : <<ph, p>> \in Appearances
  BY DEF Appearances, Photos, ItemOf

LEMMA RequiredLinks ==
  /\ \A rows \in SUBSET Appearances : Required(rows) \subseteq Links
  /\ \A rows, i, p : <<i, p>> \in Required(rows) <=> \E a \in rows : ItemOf(a[1]) = i /\ a[2] = p
<1>1. \A rows \in SUBSET Appearances : Required(rows) \subseteq Links
  BY PeopleAppearances, PeopleLinks DEF Required
<1>2. ASSUME NEW rows, NEW i, NEW p
      PROVE  <<i, p>> \in Required(rows) <=> \E a \in rows : ItemOf(a[1]) = i /\ a[2] = p
  BY DEF Required
<1> QED  BY <1>1, <1>2

LEMMA ShownTyped ==
  ASSUME NEW i, NEW links, NEW seen, NEW names \in [Persons -> Nat]
  PROVE  Shown(i, links, seen, names) \in SUBSET (Persons \X Nat)
<1> SUFFICES ASSUME NEW x \in Shown(i, links, seen, names) PROVE x \in Persons \X Nat
  OBVIOUS
<1>1. PICK p \in Persons : x = <<p, names[p]>>
  BY DEF Shown
<1>2. names[p] \in Nat
  OBVIOUS
<1> QED  BY <1>1, <1>2

LEMMA ShownIsWhoIsThere ==
  ASSUME NEW i, NEW links, NEW seen, NEW names
  PROVE  /\ {s[1] : s \in Shown(i, links, seen, names)} = PeopleAt(i, links, seen)
         /\ \A p \in PeopleAt(i, links, seen) : <<p, names[p]>> \in Shown(i, links, seen, names)
<1> DEFINE people == PeopleAt(i, links, seen)
<1>1. Shown(i, links, seen, names) = {<<p, names[p]>> : p \in people}
  BY DEF Shown, PeopleAt
<1>2. \A p \in people : <<p, names[p]>> \in Shown(i, links, seen, names)
  BY <1>1
<1>3. \A s \in Shown(i, links, seen, names) : s[1] \in people
  BY <1>1
<1>4. \A p \in people : <<p, names[p]>>[1] = p
  OBVIOUS
<1> HIDE DEF people
<1>5. \A p \in people : \E s \in Shown(i, links, seen, names) : s[1] = p
  BY <1>2, <1>4
<1>6. {s[1] : s \in Shown(i, links, seen, names)} = people
  BY <1>3, <1>5
<1> QED  BY <1>2, <1>6 DEF people

LEMMA RequiredNothing == \A live : Required({a \in {} : a[2] \in live}) = {}
  BY DEF Required

LEMMA LocksOfKind ==
  /\ \A kind, rows, r : r \in rows => <<<<kind, r>>, "update">> \in Exclusive(kind, rows)
  /\ \A kind, rows, r : r \in rows => <<<<kind, r>>, "share">> \in Shared(kind, rows)
  BY DEF Exclusive, Shared

LEMMA LocksAreRecords ==
  /\ \A rows \in SUBSET PeopleItems : Exclusive("item", rows) \subseteq LockRecords
  /\ \A rows \in SUBSET Photos : Exclusive("photo", rows) \subseteq LockRecords
  /\ \A rows \in SUBSET Persons : Exclusive("person", rows) \subseteq LockRecords
  /\ \A rows \in SUBSET Links : Exclusive("link", rows) \subseteq LockRecords
  /\ \A rows \in SUBSET Appearances : Exclusive("appearance", rows) \subseteq LockRecords
<1>1. ASSUME NEW kind, NEW r, <<kind, r>> \in PeopleRows
      PROVE  <<<<kind, r>>, "update">> \in LockRecords
  BY <1>1 DEF LockRecords, LockModes
<1>2. /\ \A r \in PeopleItems : <<"item", r>> \in PeopleRows
      /\ \A r \in Photos : <<"photo", r>> \in PeopleRows
      /\ \A r \in Persons : <<"person", r>> \in PeopleRows
      /\ \A r \in Links : <<"link", r>> \in PeopleRows
      /\ \A r \in Appearances : <<"appearance", r>> \in PeopleRows
  BY DEF PeopleRows
<1> QED  BY <1>1, <1>2 DEF Exclusive

(* Two requests never hold one row if one of them holds it for update. *)
LEMMA HoldersDiffer ==
  ASSUME UpdatesExclude, NEW v \in PeopleWriters, NEW w \in PeopleWriters, v # w
  PROVE  /\ \A i \in PeopleItems : ~ (Holds(pTx[v], "item", i) /\ Holds(pTx[w], "item", i))
         /\ \A a \in Appearances :
              ~ (Holds(pTx[v], "appearance", a) /\ Holds(pTx[w], "appearance", a))
         /\ \A p \in Persons : ~ (Holds(pTx[v], "person", p) /\ Holds(pTx[w], "person", p))
<1>1. /\ \A i \in PeopleItems : <<"item", i>> \in PeopleRows
      /\ \A a \in Appearances : <<"appearance", a>> \in PeopleRows
      /\ \A p \in Persons : <<"person", p>> \in PeopleRows
      /\ "update" \in LockModes
  BY DEF PeopleRows, LockModes
<1> QED  BY <1>1 DEF UpdatesExclude, Holds

------------------------------------------------------------------------------
(* A step that only changes what one request holds and will write. *)
LEMMA LocksStayApart ==
  ASSUME PeopleTypeOK, UpdatesExclude, NEW w \in PeopleWriters, NEW u \in PeopleTx,
         NEW more, MayLock(w, more), u.locks \subseteq pTx[w].locks \cup more,
         TxBecomes(w, u)
  PROVE  UpdatesExclude'
<1>1. pTx \in [PeopleWriters -> PeopleTx]
  BY DEF PeopleTypeOK
<1>2. pTx'[w] = u /\ \A v \in PeopleWriters \ {w} : pTx'[v] = pTx[v]
  BY <1>1 DEF TxBecomes
<1>3. ASSUME NEW v \in PeopleWriters \ {w}, NEW row \in PeopleRows, NEW m \in LockModes,
             <<row, "update">> \in more, <<row, m>> \in pTx[v].locks
      PROVE  FALSE
  <2>1. IsFree(w, row, "update")
    BY <1>3 DEF MayLock
  <2>2. Conflict("update", m)
    BY DEF Conflict
  <2> QED  BY <1>3, <2>1, <2>2 DEF IsFree
<1>4. ASSUME NEW v \in PeopleWriters \ {w}, NEW row \in PeopleRows, NEW m \in LockModes,
             <<row, m>> \in more, <<row, "update">> \in pTx[v].locks
      PROVE  FALSE
  <2>1. IsFree(w, row, m)
    BY <1>4 DEF MayLock
  <2>2. Conflict(m, "update") /\ "update" \in LockModes
    BY DEF Conflict, LockModes
  <2> QED  BY <1>4, <2>1, <2>2 DEF IsFree
<1> SUFFICES ASSUME NEW v \in PeopleWriters, NEW x \in PeopleWriters \ {v},
                    NEW row \in PeopleRows, NEW m \in LockModes,
                    <<row, "update">> \in pTx'[v].locks, <<row, m>> \in pTx'[x].locks
             PROVE  FALSE
  BY DEF UpdatesExclude
<1>5. CASE v = w
  BY <1>2, <1>3, <1>5 DEF UpdatesExclude
<1>6. CASE x = w
  BY <1>2, <1>4, <1>6 DEF UpdatesExclude
<1>7. CASE v # w /\ x # w
  BY <1>2, <1>7 DEF UpdatesExclude
<1> QED  BY <1>5, <1>6, <1>7

LEMMA RequestStep ==
  ASSUME PeopleInvariant, NEW w \in PeopleWriters, NEW u \in PeopleTx, NEW more,
         MayLock(w, more), u.locks \subseteq pTx[w].locks \cup more,
         TxSound(u, pLive, aip, pp, pNames, pBeside),
         TxBecomes(w, u), NothingCommitted, pCount' \in 0..PeopleTxBound
  PROVE  PeopleInvariant'
<1>1. pTx \in [PeopleWriters -> PeopleTx]
  BY DEF PeopleInvariant, PeopleTypeOK
<1>2. /\ pTx' \in [PeopleWriters -> PeopleTx] /\ pTx'[w] = u
      /\ \A v \in PeopleWriters \ {w} : pTx'[v] = pTx[v]
  BY <1>1 DEF TxBecomes
<1>3. UpdatesExclude'
  BY LocksStayApart DEF PeopleInvariant
<1>4. /\ aip' = aip /\ pp' = pp /\ pNames' = pNames /\ pBeside' = pBeside
      /\ pLive' = pLive /\ pIndex' = pIndex
  BY DEF NothingCommitted
<1>5. \A v \in PeopleWriters : TxSound(pTx'[v], pLive', aip', pp', pNames', pBeside')
  BY <1>2, <1>4 DEF PeopleInvariant
<1>6. PeopleTypeOK'
  BY <1>2, <1>4 DEF PeopleInvariant, PeopleTypeOK
<1>7. (DOMAIN pIndex = PeopleItems)' /\ PhotoPeopleAreLinked' /\ IndexNamesPeople'
  BY <1>4 DEF PeopleInvariant, PhotoPeopleAreLinked, IndexNamesPeople, PeopleOf
<1> QED  BY <1>3, <1>5, <1>6, <1>7 DEF PeopleInvariant

LEMMA OpensKeeps ==
  ASSUME PeopleInvariant, NEW w \in PeopleWriters, NEW u \in PeopleTx,
         Opens(w, u), TxSound(u, pLive, aip, pp, pNames, pBeside)
  PROVE  PeopleInvariant'
<1>1. pCount' \in 0..PeopleTxBound
  BY PeopleAssumption DEF PeopleInvariant, PeopleTypeOK, Opens, MayOpen
<1> QED  BY <1>1, RequestStep DEF Opens

LEMMA TakesKeeps ==
  ASSUME PeopleInvariant, NEW w \in PeopleWriters, NEW u, NEW more, NEW u0,
         Takes(w, more, u0), u = [u0 EXCEPT !.locks = pTx[w].locks \cup more], 
         u \in PeopleTx, u.locks = pTx[w].locks \cup more,
         TxSound(u, pLive, aip, pp, pNames, pBeside)
  PROVE  PeopleInvariant'
<1>1. pCount' \in 0..PeopleTxBound
  BY DEF PeopleInvariant, PeopleTypeOK, Takes
<1>2. MayLock(w, more) /\ TxBecomes(w, u) /\ NothingCommitted
  BY DEF Takes
<1> QED  BY <1>1, <1>2, RequestStep

(* A request that has written nothing yet. *)
LEMMA NoTxIsSound ==
  /\ NoTx \in PeopleTx /\ NoTx.locks = {}
  /\ \A live, links, seen, names, beside : TxSound(NoTx, live, links, seen, names, beside)
<1>1. NoTx \in PeopleTx /\ NoTx.locks = {}
  BY DEF NoTx, PeopleTx
<1>2. ASSUME NEW live, NEW links, NEW seen, NEW names, NEW beside
      PROVE  TxSound(NoTx, live, links, seen, names, beside)
  BY RequiredNothing DEF NoTx, TxSound, TxIsPlaced, WritesAreHeld, BuiltIsSound, NamesAreSound, LinksAreSound
<1> QED  BY <1>1, <1>2

LEMMA AbortPeopleKeeps ==
  ASSUME PeopleInvariant, NEW w \in PeopleWriters, AbortPeople(w)
  PROVE  PeopleInvariant'
<1>1. MayLock(w, {})
  BY DEF MayLock
<1>2. pCount' \in 0..PeopleTxBound
  BY DEF PeopleInvariant, PeopleTypeOK, AbortPeople
<1> QED  BY <1>1, <1>2, NoTxIsSound, RequestStep DEF AbortPeople

------------------------------------------------------------------------------
(* The first steps. *)
LEMMA PeopleTypes ==
  ASSUME PeopleInvariant
  PROVE  /\ pLive \subseteq Persons /\ pNames \in [Persons -> Nat]
         /\ aip \subseteq Links /\ pp \subseteq Appearances
         /\ \A w \in PeopleWriters :
              pTx[w] \in PeopleTx /\ TxSound(pTx[w], pLive, aip, pp, pNames, pBeside)
         /\ PhotoPeopleAreLinked
  BY DEF PeopleInvariant, PeopleTypeOK

LEMMA StartReplaceKeeps ==
  ASSUME PeopleInvariant, NEW w \in PeopleWriters, NEW i \in PeopleItems,
         NEW P \in SUBSET pLive, StartReplace(w, i, P)
  PROVE  PeopleInvariant'
<1>1. PICK u : u = [NoTx EXCEPT !.at = "required", !.locks = Exclusive("item", {i}),
                                !.want = P, !.todo = {i}]
  OBVIOUS
<1>2. Opens(w, u)
  BY <1>1 DEF StartReplace
<1>3. /\ u.at = "required" /\ u.locks = Exclusive("item", {i}) /\ u.want = P /\ u.todo = {i}
      /\ u.addLinks = {} /\ u.dropLinks = {} /\ u.addSeen = {} /\ u.dropSeen = {}
      /\ u.renamed = {} /\ u.gone = {} /\ u.built = {}
  BY <1>1 DEF NoTx
<1>4. u \in PeopleTx
  <2>1. P \in SUBSET Persons
    BY PeopleTypes
  <2>2. Exclusive("item", {i}) \in SUBSET LockRecords
    BY LocksAreRecords
  <2> QED  BY <1>1, <2>1, <2>2 DEF NoTx, PeopleTx
<1>5. Holds(u, "item", i)
  BY <1>3, LocksOfKind DEF Holds
<1>6. P \subseteq Persons
  BY PeopleTypes
<1>7. TxSound(u, pLive, aip, pp, pNames, pBeside)
  BY <1>3, <1>5, <1>6 DEF TxSound, TxIsPlaced, WritesAreHeld, BuiltIsSound, NamesAreSound, LinksAreSound
<1> QED  BY <1>2, <1>4, <1>7, OpensKeeps

LEMMA ApproveAddKeeps ==
  ASSUME PeopleInvariant, NEW w \in PeopleWriters, NEW i \in PeopleItems, NEW p \in Persons,
         ApproveAdd(w, i, p)
  PROVE  PeopleInvariant'
<1>1. PICK u : u = [NoTx EXCEPT
       !.at = "sync", !.addLinks = {<<i, p>>}, !.todo = {i},
       !.locks = Exclusive("item", {i}) \cup Exclusive("person", {p})]
  OBVIOUS
<1>2. Opens(w, u)
  BY <1>1 DEF ApproveAdd
<1>3. /\ u.at = "sync" /\ u.locks = Exclusive("item", {i}) \cup Exclusive("person", {p})
      /\ u.todo = {i} /\ u.addLinks = {<<i, p>>}
      /\ u.dropLinks = {} /\ u.addSeen = {} /\ u.dropSeen = {}
      /\ u.renamed = {} /\ u.gone = {} /\ u.built = {}
  BY <1>1 DEF NoTx
<1>4. u \in PeopleTx
  <2>1. {<<i, p>>} \in SUBSET Links
    BY PeopleLinks
  <2>2. Exclusive("item", {i}) \cup Exclusive("person", {p}) \in SUBSET LockRecords
    BY LocksAreRecords
  <2> QED  BY <1>1, <2>1, <2>2 DEF NoTx, PeopleTx
<1>6. i \in Rebuilt(u)
  BY <1>3 DEF Rebuilt
<1>7. LinksWith(u, aip) = aip \cup {<<i, p>>} /\ SeenWith(u, pp) = pp
  BY <1>3 DEF LinksWith, SeenWith
<1>8. TxIsPlaced(u, pBeside) /\ WritesAreHeld(u, pp) /\ BuiltIsSound(u, aip, pp) /\ NamesAreSound(u, aip, pp, pNames)
  BY <1>3, <1>6 DEF TxIsPlaced, WritesAreHeld, BuiltIsSound, NamesAreSound
<1>9. pBeside # "imports" => LinksAreSound(u, pLive, aip, pp)
  BY <1>3, <1>7, RequiredNothing, PeopleTypes DEF LinksAreSound, PhotoPeopleAreLinked
<1> QED  BY <1>2, <1>4, <1>8, <1>9, OpensKeeps DEF TxSound

LEMMA ApproveRemoveKeeps ==
  ASSUME PeopleInvariant, NEW w \in PeopleWriters, NEW i \in PeopleItems, NEW p \in Persons,
         ApproveRemove(w, i, p)
  PROVE  PeopleInvariant'
<1>1. PICK u : u = [NoTx EXCEPT
       !.at = "sync", !.dropLinks = {<<i, p>>}, !.todo = {i},
       !.locks = Exclusive("item", {i}) \cup Exclusive("person", {p})
                   \cup Exclusive("link", {<<i, p>>})]
  OBVIOUS
<1>2. Opens(w, u) /\ <<i, p>> \notin Required(pp)
  BY <1>1 DEF ApproveRemove, IsRequired
<1>3. /\ u.at = "sync" /\ u.locks = Exclusive("item", {i}) \cup Exclusive("person", {p})
                                      \cup Exclusive("link", {<<i, p>>})
      /\ u.todo = {i} /\ u.dropLinks = {<<i, p>>}
      /\ u.addLinks = {} /\ u.addSeen = {} /\ u.dropSeen = {}
      /\ u.renamed = {} /\ u.gone = {} /\ u.built = {}
  BY <1>1 DEF NoTx
<1>4. u \in PeopleTx
  <2>1. {<<i, p>>} \in SUBSET Links
    BY PeopleLinks
  <2>2. Exclusive("item", {i}) \cup Exclusive("person", {p})
          \cup Exclusive("link", {<<i, p>>}) \in SUBSET LockRecords
    BY <2>1, LocksAreRecords
  <2> QED  BY <1>1, <2>1, <2>2 DEF NoTx, PeopleTx
<1>5. Holds(u, "person", p) /\ Holds(u, "item", i)
  BY <1>3, LocksOfKind DEF Holds
<1>6. i \in Rebuilt(u)
  BY <1>3 DEF Rebuilt
<1>7. LinksWith(u, aip) = aip \ {<<i, p>>} /\ SeenWith(u, pp) = pp
  BY <1>3 DEF LinksWith, SeenWith
<1>8. TxIsPlaced(u, pBeside) /\ WritesAreHeld(u, pp) /\ BuiltIsSound(u, aip, pp) /\ NamesAreSound(u, aip, pp, pNames)
  BY <1>3, <1>6 DEF TxIsPlaced, WritesAreHeld, BuiltIsSound, NamesAreSound
<1>9. pBeside # "imports" => LinksAreSound(u, pLive, aip, pp)
  BY <1>2, <1>3, <1>5, <1>7, RequiredNothing, PeopleTypes DEF LinksAreSound, PhotoPeopleAreLinked
<1> QED  BY <1>2, <1>4, <1>8, <1>9, OpensKeeps DEF TxSound

LEMMA StartPhotoKeeps ==
  ASSUME PeopleInvariant, NEW w \in PeopleWriters, NEW ph \in Photos,
         NEW P \in SUBSET pLive, StartPhoto(w, ph, P)
  PROVE  PeopleInvariant'
<1> DEFINE i == ItemOf(ph)
           locks == Exclusive("item", {i}) \cup Exclusive("photo", {i} \X PhotoSlots)
<1>1. PICK u : u = [NoTx EXCEPT !.at = "appearances", !.want = {ph} \X P, !.todo = {i},
                                !.locks = locks]
  OBVIOUS
<1>2. Opens(w, u)
  BY <1>1 DEF StartPhoto
<1>3. /\ u.at = "appearances" /\ u.locks = locks /\ u.todo = {i}
      /\ u.addLinks = {} /\ u.dropLinks = {} /\ u.addSeen = {} /\ u.dropSeen = {}
      /\ u.renamed = {} /\ u.gone = {} /\ u.built = {}
  BY <1>1 DEF NoTx
<1>4. u \in PeopleTx
  <2>1. i \in PeopleItems
    BY DEF Photos, ItemOf
  <2>2. {ph} \X P \in SUBSET Appearances
    BY PeopleTypes DEF Appearances
  <2>3. {i} \X PhotoSlots \in SUBSET Photos
    BY <2>1 DEF Photos
  <2>4. locks \in SUBSET LockRecords
    BY <2>1, <2>3, LocksAreRecords
  <2>5. {ph} \X P \in (SUBSET Persons) \cup (SUBSET Appearances) /\ {i} \in SUBSET PeopleItems
    BY <2>1, <2>2
  <2> DEFINE want == {ph} \X P
             todo == {i}
  <2> HIDE DEF i, locks, want, todo
  <2>6. u = [NoTx EXCEPT !.at = "appearances", !.want = want, !.todo = todo, !.locks = locks]
    BY <1>1 DEF want, todo
  <2>7. want \in (SUBSET Persons) \cup (SUBSET Appearances) /\ todo \in SUBSET PeopleItems
    BY <2>5 DEF want, todo
  <2> QED  BY <2>4, <2>6, <2>7 DEF NoTx, PeopleTx
<1>5. Holds(u, "item", i)
  BY <1>3, LocksOfKind DEF Holds
<1>6. TxSound(u, pLive, aip, pp, pNames, pBeside)
  BY <1>3, <1>5 DEF TxSound, TxIsPlaced, WritesAreHeld, BuiltIsSound, NamesAreSound, LinksAreSound
<1> QED  BY <1>2, <1>4, <1>6, OpensKeeps

LEMMA ImportAppearanceKeeps ==
  ASSUME PeopleInvariant, NEW w \in PeopleWriters, NEW ph \in Photos, NEW p \in Persons,
         ImportAppearance(w, ph, p)
  PROVE  PeopleInvariant'
<1> DEFINE i == ItemOf(ph)
<1>1. PICK u : u = [NoTx EXCEPT
       !.at = "ensure", !.want = {<<ph, p>>}, !.addSeen = {<<ph, p>>}, !.todo = {i}]
  OBVIOUS
<1>2. Opens(w, u) /\ pBeside = "imports"
  BY <1>1 DEF ImportAppearance
<1>3. /\ u.at = "ensure" /\ u.todo = {i}
      /\ u.want = {<<ph, p>>} /\ u.addSeen = {<<ph, p>>}
      /\ u.addLinks = {} /\ u.dropLinks = {} /\ u.dropSeen = {}
      /\ u.renamed = {} /\ u.gone = {} /\ u.built = {}
  BY <1>1 DEF NoTx
<1>4. {<<ph, p>>} \in SUBSET Appearances
  BY PeopleAppearances
<1>5. u \in PeopleTx
  <2>1. i \in PeopleItems
    BY DEF Photos, ItemOf
  <2> DEFINE want == {<<ph, p>>}
             todo == {i}
  <2>3. want \in (SUBSET Persons) \cup (SUBSET Appearances) /\ todo \in SUBSET PeopleItems
    BY <1>4, <2>1
  <2> HIDE DEF i, want, todo
  <2>4. u = [NoTx EXCEPT !.at = "ensure", !.want = want, !.addSeen = want, !.todo = todo]
    BY <1>1 DEF want, todo
  <2>5. want \in SUBSET Appearances
    BY <1>4 DEF want
  <2> QED  BY <2>3, <2>4, <2>5 DEF NoTx, PeopleTx
<1>7. ItemOf(ph) \in Rebuilt(u)
  BY <1>3 DEF Rebuilt
<1>8. TxSound(u, pLive, aip, pp, pNames, pBeside)
  BY <1>2, <1>3, <1>4, <1>7 DEF TxSound, TxIsPlaced, WritesAreHeld, BuiltIsSound, NamesAreSound
<1> QED  BY <1>2, <1>5, <1>8, OpensKeeps

LEMMA StartMergeKeeps ==
  ASSUME PeopleInvariant, NEW w \in PeopleWriters, NEW k \in Persons, NEW d \in Persons,
         StartMerge(w, k, d)
  PROVE  PeopleInvariant'
<1>1. PICK u : u = [NoTx EXCEPT !.at = "merge", !.locks = Exclusive("person", {k, d}),
                                !.renamed = {k}, !.gone = {d}]
  OBVIOUS
<1>2. Opens(w, u) /\ k # d
  BY <1>1 DEF StartMerge
<1>3. /\ u.at = "merge" /\ u.locks = Exclusive("person", {k, d})
      /\ u.addLinks = {} /\ u.dropLinks = {} /\ u.addSeen = {} /\ u.dropSeen = {}
      /\ u.renamed = {k} /\ u.gone = {d} /\ u.built = {}
  BY <1>1 DEF NoTx
<1>4. u \in PeopleTx
  <2>1. Exclusive("person", {k, d}) \in SUBSET LockRecords
    BY LocksAreRecords
  <2> QED  BY <1>1, <2>1 DEF NoTx, PeopleTx
<1>5. Holds(u, "person", k) /\ Holds(u, "person", d)
  BY <1>3, LocksOfKind DEF Holds
<1>6. TxSound(u, pLive, aip, pp, pNames, pBeside)
  BY <1>2, <1>3, <1>5 DEF TxSound, TxIsPlaced, WritesAreHeld, BuiltIsSound, NamesAreSound, LinksAreSound
<1> QED  BY <1>2, <1>4, <1>6, OpensKeeps

LEMMA StartEditKeeps ==
  ASSUME PeopleInvariant, NEW w \in PeopleWriters, NEW p \in Persons,
         NEW locks \in SUBSET {<<<<"person", p>>, "no key">>}, StartEdit(w, p, locks)
  PROVE  PeopleInvariant'
<1>1. PICK u : u = [NoTx EXCEPT !.at = "list", !.renamed = {p}, !.locks = locks]
  OBVIOUS
<1>2. Opens(w, u) /\ pBeside = "edits"
  BY <1>1 DEF StartEdit
<1>3. /\ u.at = "list" /\ u.built = {}
      /\ u.gone = {} /\ u.addLinks = {} /\ u.dropLinks = {} /\ u.addSeen = {} /\ u.dropSeen = {}
  BY <1>1 DEF NoTx
<1>4. u \in PeopleTx
  <2>1. locks \in SUBSET LockRecords
    <3>1. <<"person", p>> \in PeopleRows /\ "no key" \in LockModes
      BY DEF PeopleRows, LockModes
    <3>2. <<<<"person", p>>, "no key">> \in PeopleRows \X LockModes
      BY <3>1
    <3> QED  BY <3>2 DEF LockRecords
  <2> QED  BY <1>1, <2>1 DEF NoTx, PeopleTx
<1>5. TxSound(u, pLive, aip, pp, pNames, pBeside)
  BY <1>2, <1>3 DEF TxSound, TxIsPlaced, WritesAreHeld, BuiltIsSound, LinksAreSound
<1> QED  BY <1>2, <1>4, <1>5, OpensKeeps

------------------------------------------------------------------------------
(* The later steps take more locks. *)
LEMMA MoreLocks ==
  ASSUME NEW t, NEW u, t.locks \subseteq u.locks
  PROVE  /\ \A kind, r : Holds(t, kind, r) => Holds(u, kind, r)
         /\ \A i, seen : HoldsItem(t, i, seen) => HoldsItem(u, i, seen)
<1>1. \A kind, r : Holds(t, kind, r) => Holds(u, kind, r)
  BY DEF Holds
<1>2. ASSUME NEW i, NEW seen, HoldsItem(t, i, seen)
      PROVE  HoldsItem(u, i, seen)
  BY <1>1, <1>2 DEF HoldsItem
<1> QED  BY <1>1, <1>2

LEMMA ReadRequiredKeeps ==
  ASSUME PeopleInvariant, NEW w \in PeopleWriters, ReadRequired(w)
  PROVE  PeopleInvariant'
<1> DEFINE rows(t) == {a \in pp : ItemOf(a[1]) \in t.todo}
           more(t) == Exclusive("appearance", rows(t)) \cup Exclusive("photo", {a[1] : a \in rows(t)})
           step(t) == [t EXCEPT !.at = "replace", !.want = @ \cup RequiredPeople(rows(t))]
<1>1. PICK t \in PeopleTx : /\ t = pTx[w] /\ t.at = "required"
                            /\ TxSound(t, pLive, aip, pp, pNames, pBeside)
                            /\ Takes(w, more(t), step(t))
  BY PeopleTypes DEF ReadRequired
<1>2. PICK u : u = [step(t) EXCEPT !.locks = t.locks \cup more(t)]
  OBVIOUS
<1>3. /\ u.at = "replace" /\ u.locks = t.locks \cup more(t)
      /\ u.want = t.want \cup RequiredPeople(rows(t)) /\ u.todo = t.todo
      /\ u.addLinks = t.addLinks /\ u.dropLinks = t.dropLinks
      /\ u.addSeen = t.addSeen /\ u.dropSeen = t.dropSeen
      /\ u.renamed = t.renamed /\ u.gone = t.gone /\ u.built = t.built
  BY <1>1, <1>2 DEF PeopleTx
<1>4. t.want \subseteq Persons /\ RequiredPeople(rows(t)) \subseteq Persons
  BY <1>1, PeopleTypes, PeopleAppearances DEF TxSound, TxIsPlaced, RequiredPeople
<1>5. more(t) \subseteq LockRecords
  <2>1. rows(t) \in SUBSET Appearances /\ {a[1] : a \in rows(t)} \in SUBSET Photos
    BY PeopleTypes, PeopleAppearances
  <2> QED  BY <2>1, LocksAreRecords
<1>6. /\ t.addLinks = {} /\ t.dropLinks = {} /\ t.addSeen = {} /\ t.dropSeen = {}
      /\ t.built = {} /\ t.renamed = {}
      /\ pBeside # "imports" => \A i \in t.todo : Holds(t, "item", i)
  BY <1>1 DEF TxSound, TxIsPlaced, LinksAreSound
<1>7. /\ \A i \in t.todo : Holds(t, "item", i) => Holds(u, "item", i)
      /\ \A a \in rows(t) : Holds(u, "appearance", a) /\ a[2] \in u.want
  <2>1. \A a \in rows(t) : a[2] \in RequiredPeople(rows(t))
    BY DEF RequiredPeople
  <2> QED  BY <1>3, <2>1, LocksOfKind DEF Holds
<1>8. \A a \in pp : ItemOf(a[1]) \in t.todo => a \in rows(t)
  OBVIOUS
<1>9. \A p \in t.gone : Holds(u, "person", p)
  BY <1>1, <1>3, MoreLocks DEF TxSound, TxIsPlaced
<1> HIDE DEF rows
<1>10. u \in PeopleTx
  <2>1. t.want \cup RequiredPeople(rows(t)) \in (SUBSET Persons) \cup (SUBSET Appearances)
    BY <1>4
  <2>2. t.locks \cup more(t) \in SUBSET LockRecords
    BY <1>1, <1>5 DEF PeopleTx
  <2>3. "replace" \in {"idle", "required", "replace", "appearances", "ensure", "merge", "list", "sync"}
    OBVIOUS
  <2> DEFINE want == t.want \cup RequiredPeople(rows(t))
             locks == t.locks \cup more(t)
  <2> HIDE DEF want, locks
  <2>4. u = [[t EXCEPT !.at = "replace", !.want = want] EXCEPT !.locks = locks]
    BY <1>1, <1>2 DEF PeopleTx, want, locks
  <2>5. want \in (SUBSET Persons) \cup (SUBSET Appearances) /\ locks \in SUBSET LockRecords
    BY <2>1, <2>2 DEF want, locks
  <2> QED  BY <1>1, <2>3, <2>4, <2>5 DEF PeopleTx
<1>11. TxSound(u, pLive, aip, pp, pNames, pBeside)
  BY <1>3, <1>4, <1>6, <1>7, <1>8, <1>9
  DEF TxSound, TxIsPlaced, WritesAreHeld, BuiltIsSound, NamesAreSound, LinksAreSound, HoldsItem
<1> HIDE DEF more, step
<1> QED  BY <1>1, <1>2, <1>3, <1>10, <1>11, TakesKeeps

LEMMA ReplaceLinksKeeps ==
  ASSUME PeopleInvariant, NEW w \in PeopleWriters, ReplaceLinks(w)
  PROVE  PeopleInvariant'
<1> DEFINE rows(t) == {l \in aip : l[1] \in t.todo}
           desired(t) == t.todo \X t.want
           more(t) == Exclusive("link", rows(t))
           step(t) == [t EXCEPT !.at = "sync", !.dropLinks = rows(t) \ desired(t),
                                !.addLinks = desired(t) \ rows(t)]
<1>1. PICK t \in PeopleTx : /\ t = pTx[w] /\ t.at = "replace"
                            /\ TxSound(t, pLive, aip, pp, pNames, pBeside)
                            /\ Takes(w, more(t), step(t))
  BY PeopleTypes DEF ReplaceLinks
<1>2. PICK u : u = [step(t) EXCEPT !.locks = t.locks \cup more(t)]
  OBVIOUS
<1>3. /\ u.at = "sync" /\ u.locks = t.locks \cup more(t)
      /\ u.todo = t.todo
      /\ u.addLinks = desired(t) \ rows(t) /\ u.dropLinks = rows(t) \ desired(t)
      /\ u.addSeen = t.addSeen /\ u.dropSeen = t.dropSeen
      /\ u.renamed = t.renamed /\ u.gone = t.gone /\ u.built = t.built
  BY <1>1, <1>2 DEF PeopleTx
<1>4. /\ t.addSeen = {} /\ t.dropSeen = {} /\ t.built = {} /\ t.renamed = {}
      /\ t.want \subseteq Persons /\ t.todo \subseteq PeopleItems
      /\ pBeside # "imports" =>
           \A i \in t.todo : /\ HoldsItem(t, i, pp)
                             /\ \A a \in pp : ItemOf(a[1]) = i => a[2] \in t.want
  BY <1>1 DEF TxSound, TxIsPlaced, LinksAreSound, PeopleTx
<1>5. rows(t) \in SUBSET Links /\ desired(t) \in SUBSET Links
  BY <1>4, PeopleTypes DEF Links
<1>6. u \in PeopleTx
  <2>1. more(t) \in SUBSET LockRecords
    BY <1>5, LocksAreRecords
  <2>2. t.locks \cup more(t) \in SUBSET LockRecords
    BY <1>1, <2>1 DEF PeopleTx
  <2>3. rows(t) \ desired(t) \in SUBSET Links /\ desired(t) \ rows(t) \in SUBSET Links
    BY <1>5
  <2>4. "sync" \in {"idle", "required", "replace", "appearances", "ensure", "merge", "list", "sync"}
    OBVIOUS
  <2> DEFINE add == desired(t) \ rows(t)
             drop == rows(t) \ desired(t)
             locks == t.locks \cup more(t)
  <2>5. u = [[t EXCEPT !.at = "sync", !.dropLinks = drop, !.addLinks = add] EXCEPT !.locks = locks]
    BY <1>2
  <2>6. add \in SUBSET Links /\ drop \in SUBSET Links /\ locks \in SUBSET LockRecords
    BY <2>2, <2>3
  <2> HIDE DEF more, rows, desired, add, drop, locks
  <2> QED  BY <1>1, <2>4, <2>5, <2>6 DEF PeopleTx
<1>7. \A p \in u.gone : Holds(u, "person", p)
  BY <1>1, <1>3, MoreLocks DEF TxSound, TxIsPlaced
<1>8. \A l \in u.addLinks \cup u.dropLinks : l[1] \in t.todo
  BY <1>3
<1>9. LinksWith(u, aip) = (aip \ u.dropLinks) \cup u.addLinks /\ SeenWith(u, pp) = pp
  BY <1>3, <1>4 DEF LinksWith, SeenWith
<1>10. pBeside # "imports" => Required(pp) \subseteq LinksWith(u, aip)
  <2> SUFFICES ASSUME pBeside # "imports", NEW a \in pp
               PROVE  <<ItemOf(a[1]), a[2]>> \in LinksWith(u, aip)
    BY DEF Required
  <2>1. <<ItemOf(a[1]), a[2]>> \in aip
    BY PeopleTypes DEF PhotoPeopleAreLinked, Required
  <2>2. ItemOf(a[1]) \in t.todo => <<ItemOf(a[1]), a[2]>> \in desired(t)
    BY <1>4
  <2> QED  BY <1>3, <1>9, <2>1, <2>2
<1>11. TxIsPlaced(u, pBeside) /\ BuiltIsSound(u, aip, pp) /\ NamesAreSound(u, aip, pp, pNames)
  BY <1>3, <1>4, <1>7 DEF TxIsPlaced, BuiltIsSound, NamesAreSound
<1>12. WritesAreHeld(u, pp)
  BY <1>3, <1>4, <1>8 DEF WritesAreHeld, Rebuilt
<1>13. pBeside # "imports" => LinksAreSound(u, pLive, aip, pp)
  <2> SUFFICES ASSUME pBeside # "imports" PROVE LinksAreSound(u, pLive, aip, pp)
    OBVIOUS
  <2>1. \A i \in t.todo : HoldsItem(u, i, pp)
    BY <1>3, <1>4, MoreLocks
  <2> QED  BY <1>3, <1>4, <1>8, <1>9, <1>10, <2>1, RequiredNothing DEF LinksAreSound
<1> HIDE DEF more, step, rows, desired
<1> QED  BY <1>1, <1>2, <1>3, <1>6, <1>11, <1>12, <1>13, TakesKeeps DEF TxSound

LEMMA SetAppearancesKeeps ==
  ASSUME PeopleInvariant, NEW w \in PeopleWriters, NEW ph \in Photos, SetAppearances(w, ph)
  PROVE  PeopleInvariant'
<1> DEFINE rows == {a \in pp : a[1] = ph}
           dropped(t) == rows \ t.want
           added(t) == t.want \ rows
           more(t) == Exclusive("appearance", dropped(t))
           step(t) == [t EXCEPT !.at = "ensure", !.dropSeen = dropped(t), !.addSeen = added(t)]
<1>1. PICK t \in PeopleTx : /\ t = pTx[w] /\ t.at = "appearances"
                            /\ TxSound(t, pLive, aip, pp, pNames, pBeside)
                            /\ Takes(w, more(t), step(t))
                            /\ t.want \subseteq {ph} \X pLive /\ ItemOf(ph) \in t.todo
  BY PeopleTypes DEF SetAppearances
<1>2. PICK u : u = [step(t) EXCEPT !.locks = t.locks \cup more(t)]
  OBVIOUS
<1>3. /\ u.at = "ensure" /\ u.locks = t.locks \cup more(t)
      /\ u.todo = t.todo /\ u.want = t.want
      /\ u.addLinks = t.addLinks /\ u.dropLinks = t.dropLinks
      /\ u.addSeen = added(t) /\ u.dropSeen = dropped(t)
      /\ u.renamed = t.renamed /\ u.gone = t.gone /\ u.built = t.built
  BY <1>1, <1>2 DEF PeopleTx
<1>4. /\ t.addLinks = {} /\ t.dropLinks = {} /\ t.built = {} /\ t.renamed = {}
      /\ pBeside # "imports" => \A i \in t.todo : Holds(t, "item", i)
  BY <1>1 DEF TxSound, TxIsPlaced, LinksAreSound
<1>5. /\ t.want \subseteq Appearances /\ \A a \in t.want : a[1] = ph
      /\ dropped(t) \in SUBSET Appearances /\ added(t) \in SUBSET Appearances
  BY <1>1, PeopleTypes, PeopleAppearances
<1>6. u \in PeopleTx
  <2>1. more(t) \in SUBSET LockRecords
    BY <1>5, LocksAreRecords
  <2>2. t.locks \cup more(t) \in SUBSET LockRecords
    BY <1>1, <2>1 DEF PeopleTx
  <2>3. "ensure" \in {"idle", "required", "replace", "appearances", "ensure", "merge", "list", "sync"}
    OBVIOUS
  <2> DEFINE add == added(t)
             drop == dropped(t)
             locks == t.locks \cup more(t)
  <2>4. u = [[t EXCEPT !.at = "ensure", !.dropSeen = drop, !.addSeen = add] EXCEPT !.locks = locks]
    BY <1>2
  <2>5. add \in SUBSET Appearances /\ drop \in SUBSET Appearances /\ locks \in SUBSET LockRecords
    BY <1>5, <2>2
  <2> HIDE DEF more, dropped, added, add, drop, locks
  <2> QED  BY <1>1, <2>3, <2>4, <2>5 DEF PeopleTx
<1>7. \A p \in u.gone : Holds(u, "person", p)
  BY <1>1, <1>3, MoreLocks DEF TxSound, TxIsPlaced
<1>8. \A a \in u.dropSeen : a \in pp /\ Holds(u, "appearance", a)
  BY <1>3, LocksOfKind DEF Holds
<1>9. \A a \in u.addSeen \cup u.dropSeen \cup u.want : ItemOf(a[1]) \in u.todo
  BY <1>1, <1>3, <1>5
<1>10. TxIsPlaced(u, pBeside) /\ BuiltIsSound(u, aip, pp) /\ NamesAreSound(u, aip, pp, pNames)
  BY <1>3, <1>4, <1>5, <1>7, <1>9 DEF TxIsPlaced, BuiltIsSound, NamesAreSound
<1>11. WritesAreHeld(u, pp)
  BY <1>3, <1>4, <1>8, <1>9 DEF WritesAreHeld, Rebuilt
<1>12. pBeside # "imports" => LinksAreSound(u, pLive, aip, pp)
  <2>1. pBeside # "imports" => \A i \in u.todo : Holds(u, "item", i)
    BY <1>3, <1>4, MoreLocks
  <2> QED  BY <1>3, <1>4, <1>9, <2>1 DEF LinksAreSound
<1> HIDE DEF more, step, dropped, added, rows
<1> QED  BY <1>1, <1>2, <1>3, <1>6, <1>10, <1>11, <1>12, TakesKeeps DEF TxSound

LEMMA EnsureLinksKeeps ==
  ASSUME PeopleInvariant, NEW w \in PeopleWriters, EnsureLinks(w)
  PROVE  PeopleInvariant'
<1> DEFINE missing(t) == Required(t.want) \ ((aip \ t.dropLinks) \cup t.addLinks)
           step(t) == [t EXCEPT !.at = "sync", !.addLinks = missing(t)]
<1>1. PICK t \in PeopleTx : /\ t = pTx[w] /\ t.at = "ensure"
                            /\ TxSound(t, pLive, aip, pp, pNames, pBeside)
                            /\ Takes(w, {}, step(t))
  BY PeopleTypes DEF EnsureLinks, LinksOf
<1>2. PICK u : u = [step(t) EXCEPT !.locks = t.locks \cup {}]
  OBVIOUS
<1>3. /\ u.at = "sync" /\ u.locks = t.locks \cup {} /\ u.todo = t.todo
      /\ u.addLinks = missing(t) /\ u.dropLinks = t.dropLinks
      /\ u.addSeen = t.addSeen /\ u.dropSeen = t.dropSeen
      /\ u.renamed = t.renamed /\ u.gone = t.gone /\ u.built = t.built
  BY <1>1, <1>2 DEF PeopleTx
<1>4. /\ t.addLinks = {} /\ t.dropLinks = {} /\ t.built = {} /\ t.renamed = {}
      /\ t.want \subseteq Appearances /\ t.addSeen \subseteq t.want
      /\ \A a \in t.want : ItemOf(a[1]) \in t.todo
      /\ WritesAreHeld(t, pp)
      /\ pBeside # "imports" => \A i \in t.todo : Holds(t, "item", i)
  BY <1>1 DEF TxSound, TxIsPlaced, LinksAreSound
<1>5. missing(t) \in SUBSET Links /\ \A l \in missing(t) : l[1] \in t.todo
  <2>1. missing(t) \subseteq Required(t.want)
    OBVIOUS
  <2>2. \A l \in Required(t.want) : l[1] \in t.todo
    BY <1>4 DEF Required
  <2> QED  BY <1>4, <2>1, <2>2, RequiredLinks
<1>6. u \in PeopleTx
  <2>1. t.locks \cup {} \in SUBSET LockRecords
    BY <1>1 DEF PeopleTx
  <2>2. "sync" \in {"idle", "required", "replace", "appearances", "ensure", "merge", "list", "sync"}
    OBVIOUS
  <2> HIDE DEF missing
  <2> QED  BY <1>1, <1>2, <1>5, <2>1, <2>2 DEF PeopleTx
<1>7. \A p \in u.gone : Holds(u, "person", p)
  BY <1>1, <1>3, MoreLocks DEF TxSound, TxIsPlaced
<1>8. WritesAreHeld(u, pp)
  <2>1. \A a \in u.dropSeen : a \in pp /\ Holds(u, "appearance", a)
    BY <1>3, <1>4, MoreLocks DEF WritesAreHeld
  <2>2. Rebuilt(u) = Rebuilt(t) /\ t.todo \subseteq Rebuilt(t)
    BY <1>3 DEF Rebuilt
  <2>3. \A l \in u.addLinks \cup u.dropLinks : l[1] \in Rebuilt(u)
    BY <1>3, <1>4, <1>5, <2>2
  <2>4. \A a \in u.addSeen \cup u.dropSeen : ItemOf(a[1]) \in Rebuilt(u)
    BY <1>3, <1>4, <2>2 DEF WritesAreHeld
  <2> QED  BY <2>1, <2>3, <2>4 DEF WritesAreHeld
<1>9. TxIsPlaced(u, pBeside) /\ BuiltIsSound(u, aip, pp) /\ NamesAreSound(u, aip, pp, pNames)
  BY <1>3, <1>4, <1>7 DEF TxIsPlaced, BuiltIsSound, NamesAreSound
<1>10. pBeside # "imports" => LinksAreSound(u, pLive, aip, pp)
  <2> SUFFICES ASSUME pBeside # "imports" PROVE LinksAreSound(u, pLive, aip, pp)
    OBVIOUS
  <2>1. \A a \in u.addSeen : Holds(u, "item", ItemOf(a[1]))
    BY <1>3, <1>4, MoreLocks
  <2>2. /\ Required(pp \ u.dropSeen) \subseteq LinksWith(u, aip)
        /\ Required({a \in u.addSeen : a[2] \in pLive}) \subseteq LinksWith(u, aip)
    <3> SUFFICES ASSUME NEW a \in pp \cup u.addSeen
                 PROVE  <<ItemOf(a[1]), a[2]>> \in LinksWith(u, aip)
      BY DEF Required
    <3>1. LinksWith(u, aip) = aip \cup Required(t.want)
      BY <1>3, <1>4 DEF LinksWith
    <3>2. a \in pp \/ a \in t.want
      BY <1>3, <1>4
    <3>3. a \in pp => <<ItemOf(a[1]), a[2]>> \in aip
      BY PeopleTypes DEF PhotoPeopleAreLinked, Required
    <3>4. a \in t.want => <<ItemOf(a[1]), a[2]>> \in Required(t.want)
      BY DEF Required
    <3> QED  BY <3>1, <3>2, <3>3, <3>4
  <2> QED  BY <1>3, <1>4, <2>1, <2>2 DEF LinksAreSound
<1> HIDE DEF step, missing
<1> QED  BY <1>1, <1>2, <1>3, <1>6, <1>8, <1>9, <1>10, TakesKeeps DEF TxSound

(* The rows of a merge of d into k. *)
PairLinks(k, d) == {l \in aip : l[2] \in {k, d}}
PairSeen(k, d) == {a \in pp : a[2] \in {k, d}}
KeepersLinks(k, d) == {l \in PairLinks(k, d) : l[2] = k}
MovedSeen(k, d) == Moved(PairSeen(k, d), k, d)
SeenAfter(k, d) == {a \in PairSeen(k, d) : a[2] = k} \cup MovedSeen(k, d)
LinksAdded(k, d) ==
  (Moved(PairLinks(k, d), k, d) \cup Required(SeenAfter(k, d))) \ KeepersLinks(k, d)
LinksDropped(k, d) == PairLinks(k, d) \ KeepersLinks(k, d)
SeenAdded(k, d) == MovedSeen(k, d) \ PairSeen(k, d)
SeenDropped(k, d) == {a \in PairSeen(k, d) : a[2] = d}

(* What a merge leaves of the photos is linked, if what it found was. *)
LEMMA MergedRows ==
  ASSUME PeopleInvariant, NEW k \in Persons, NEW d \in Persons, k # d
  PROVE  /\ LinksAdded(k, d) \in SUBSET Links /\ SeenAdded(k, d) \in SUBSET Appearances
         /\ \A l \in LinksAdded(k, d) : l[2] = k /\ l[1] \in Affected(k, d)
         /\ \A l \in LinksDropped(k, d) : l \in aip /\ l[2] = d /\ l[1] \in Affected(k, d)
         /\ \A a \in SeenAdded(k, d) : /\ a[2] = k /\ ItemOf(a[1]) \in Affected(k, d)
                                       /\ \E b \in SeenDropped(k, d) : b[1] = a[1]
         /\ \A a \in SeenDropped(k, d) : a \in pp /\ ItemOf(a[1]) \in Affected(k, d)
         /\ Required(pp) \subseteq aip =>
              Required((pp \ SeenDropped(k, d)) \cup SeenAdded(k, d))
                \subseteq (aip \ LinksDropped(k, d)) \cup LinksAdded(k, d)
<1> DEFINE moved == Moved(PairLinks(k, d), k, d)
           items == Affected(k, d)
<1> USE DEF PairLinks, PairSeen
<1>0. /\ aip \subseteq Links /\ pp \subseteq Appearances
      /\ items = {i \in PeopleItems : <<i, k>> \in aip \cup Required(pp)}
                   \cup {i \in PeopleItems : <<i, d>> \in aip \cup Required(pp)}
  BY PeopleTypes DEF Affected, ItemsOf
<1> HIDE DEF items
<1>1. ASSUME NEW l \in aip, l[2] \in {k, d} PROVE l[1] \in items
  BY <1>0, <1>1, PeopleLinks
<1>2. ASSUME NEW a \in pp, a[2] \in {k, d} PROVE ItemOf(a[1]) \in items
  <2>1. <<ItemOf(a[1]), a[2]>> \in Required(pp)
    BY DEF Required
  <2> QED  BY <1>0, <1>2, <2>1, PeopleAppearances
<1>3. ASSUME NEW l \in moved PROVE l \in Links /\ l[2] = k /\ l[1] \in items
  <2>1. PICK m \in PairLinks(k, d) : m[2] = d /\ l = <<m[1], k>>
    BY DEF Moved
  <2>2. m[1] \in PeopleItems /\ m[1] \in items
    BY <1>0, <1>1, <2>1, PeopleLinks
  <2> QED  BY <2>1, <2>2, PeopleLinks
<1>4. ASSUME NEW a \in MovedSeen(k, d)
      PROVE  /\ a \in Appearances /\ a[2] = k /\ ItemOf(a[1]) \in items
             /\ \E b \in SeenDropped(k, d) : b[1] = a[1]
  <2>1. PICK b \in PairSeen(k, d) : b[2] = d /\ a = <<b[1], k>>
    BY DEF MovedSeen, Moved
  <2>2. b \in Appearances /\ ItemOf(b[1]) \in items
    BY <1>0, <1>2, <2>1
  <2>3. b[1] \in Photos
    BY <2>2, PeopleAppearances
  <2>4. a \in Appearances /\ a[1] = b[1] /\ a[2] = k
    BY <2>1, <2>3, PeopleAppearances
  <2> QED  BY <2>1, <2>2, <2>4 DEF SeenDropped
<1>5. ASSUME NEW a \in SeenAfter(k, d)
      PROVE  a \in Appearances /\ a[2] = k /\ ItemOf(a[1]) \in items
  BY <1>0, <1>2, <1>4 DEF SeenAfter
<1>6. ASSUME NEW l \in Required(SeenAfter(k, d))
      PROVE  l \in Links /\ l[2] = k /\ l[1] \in items
  <2>1. PICK a \in SeenAfter(k, d) : l = <<ItemOf(a[1]), a[2]>>
    BY DEF Required
  <2> QED  BY <1>5, <2>1, PeopleAppearances, PeopleLinks
<1>7. ASSUME Required(pp) \subseteq aip, NEW a \in (pp \ SeenDropped(k, d)) \cup SeenAdded(k, d)
      PROVE  <<ItemOf(a[1]), a[2]>> \in (aip \ LinksDropped(k, d)) \cup LinksAdded(k, d)
  <2>1. CASE a \in SeenAdded(k, d)
    <3>1. <<ItemOf(a[1]), a[2]>> \in Required(SeenAfter(k, d))
      BY <2>1 DEF SeenAdded, SeenAfter, Required
    <3>2. <<ItemOf(a[1]), a[2]>> \in KeepersLinks(k, d) \cup LinksAdded(k, d)
      BY <3>1 DEF LinksAdded
    <3> QED  BY <3>2 DEF KeepersLinks, LinksDropped
  <2>2. CASE a \in pp \ SeenDropped(k, d)
    <3>1. <<ItemOf(a[1]), a[2]>> \in aip
      BY <1>7, <2>2 DEF Required
    <3>2. a[2] # d
      BY <2>2 DEF SeenDropped
    <3> QED  BY <3>1, <3>2 DEF KeepersLinks, LinksDropped
  <2> QED  BY <1>7, <2>1, <2>2
<1>8. Required(pp) \subseteq aip =>
        Required((pp \ SeenDropped(k, d)) \cup SeenAdded(k, d))
          \subseteq (aip \ LinksDropped(k, d)) \cup LinksAdded(k, d)
  BY <1>7 DEF Required
<1>9. /\ LinksAdded(k, d) \in SUBSET Links
      /\ \A l \in LinksAdded(k, d) : l[2] = k /\ l[1] \in items
  BY <1>3, <1>6 DEF LinksAdded
<1>10. \A l \in LinksDropped(k, d) : l \in aip /\ l[2] = d /\ l[1] \in items
  BY <1>1 DEF LinksDropped, KeepersLinks
<1>11. /\ SeenAdded(k, d) \in SUBSET Appearances
       /\ \A a \in SeenAdded(k, d) : /\ a[2] = k /\ ItemOf(a[1]) \in items
                                      /\ \E b \in SeenDropped(k, d) : b[1] = a[1]
  BY <1>4 DEF SeenAdded
<1>12. \A a \in SeenDropped(k, d) : a \in pp /\ ItemOf(a[1]) \in items
  BY <1>2 DEF SeenDropped
<1> QED  BY <1>8, <1>9, <1>10, <1>11, <1>12 DEF items

LEMMA MoveLinksKeeps ==
  ASSUME PeopleInvariant, NEW w \in PeopleWriters, NEW k \in Persons, NEW d \in Persons,
         MoveLinks(w, k, d)
  PROVE  PeopleInvariant'
<1> DEFINE l0 == PairLinks(k, d)
           s0 == PairSeen(k, d)
           items == Affected(k, d)
           addLinks == LinksAdded(k, d)
           dropLinks == LinksDropped(k, d)
           addSeen == SeenAdded(k, d)
           dropSeen == SeenDropped(k, d)
           more == Exclusive("link", l0) \cup Exclusive("appearance", s0)
           step(t) == [t EXCEPT !.at = "sync", !.todo = items,
                                !.dropLinks = dropLinks, !.addLinks = addLinks,
                                !.dropSeen = dropSeen, !.addSeen = addSeen]
<1>1. PICK t \in PeopleTx : /\ t = pTx[w] /\ t.at = "merge"
                            /\ TxSound(t, pLive, aip, pp, pNames, pBeside)
                            /\ t.renamed = {k} /\ t.gone = {d}
                            /\ Takes(w, more, step(t))
  BY PeopleTypes DEF MoveLinks, PairLinks, PairSeen, KeepersLinks, MovedSeen, SeenAfter,
                     LinksAdded, LinksDropped, SeenAdded, SeenDropped
<1>2. PICK u : u = [step(t) EXCEPT !.locks = t.locks \cup more]
  OBVIOUS
<1>3. /\ u.at = "sync" /\ u.locks = t.locks \cup more /\ u.todo = items
      /\ u.addLinks = addLinks /\ u.dropLinks = dropLinks
      /\ u.addSeen = addSeen /\ u.dropSeen = dropSeen
      /\ u.renamed = t.renamed /\ u.gone = t.gone /\ u.built = t.built
  BY <1>1, <1>2 DEF PeopleTx
<1>4. t.built = {} /\ Holds(t, "person", k) /\ Holds(t, "person", d) /\ k # d
  BY <1>1 DEF TxSound, TxIsPlaced
<1>5. /\ addLinks \in SUBSET Links /\ addSeen \in SUBSET Appearances
      /\ \A l \in addLinks : l[2] = k /\ l[1] \in items
      /\ \A l \in dropLinks : l \in aip /\ l[2] = d /\ l[1] \in items
      /\ \A a \in addSeen : /\ a[2] = k /\ ItemOf(a[1]) \in items
                            /\ \E b \in dropSeen : b[1] = a[1]
      /\ \A a \in dropSeen : a \in pp /\ ItemOf(a[1]) \in items
      /\ Required(pp) \subseteq aip =>
           Required((pp \ dropSeen) \cup addSeen) \subseteq (aip \ dropLinks) \cup addLinks
  BY <1>4, MergedRows
<1>6. u \in PeopleTx
  <2>1. l0 \in SUBSET Links /\ s0 \in SUBSET Appearances
    BY PeopleTypes DEF PairLinks, PairSeen
  <2>2. more \in SUBSET LockRecords
    BY <2>1, LocksAreRecords
  <2>3. t.locks \cup more \in SUBSET LockRecords
    BY <1>1, <2>2 DEF PeopleTx
  <2>4. "sync" \in {"idle", "required", "replace", "appearances", "ensure", "merge", "list", "sync"}
    OBVIOUS
  <2>5. items \in SUBSET PeopleItems
    BY DEF Affected, ItemsOf
  <2>6. dropLinks \in SUBSET Links /\ dropSeen \in SUBSET Appearances
    BY <2>1 DEF LinksDropped, SeenDropped
  <2> HIDE DEF more, items, addLinks, dropLinks, addSeen, dropSeen
  <2> QED  BY <1>1, <1>2, <1>5, <2>3, <2>4, <2>5, <2>6 DEF PeopleTx
<1>7. Holds(u, "person", k) /\ Holds(u, "person", d)
  BY <1>3, <1>4, MoreLocks
<1>8. \A a \in dropSeen : Holds(u, "appearance", a)
  <2>1. \A a \in s0 : <<<<"appearance", a>>, "update">> \in u.locks
    BY <1>3, LocksOfKind
  <2> QED  BY <2>1 DEF Holds, SeenDropped
<1>9. Rebuilt(u) = items
  BY <1>3, <1>4 DEF Rebuilt
<1>10. \A i \in PeopleItems : k \in PeopleAt(i, aip, pp) => i \in items
  BY DEF Affected, ItemsOf, PeopleAt
<1> HIDE DEF more, items, addLinks, dropLinks, addSeen, dropSeen
<1>11. TxIsPlaced(u, pBeside)
  BY <1>1, <1>3, <1>7 DEF TxIsPlaced
<1>12. WritesAreHeld(u, pp)
  BY <1>3, <1>5, <1>8, <1>9 DEF WritesAreHeld
<1>13. BuiltIsSound(u, aip, pp) /\ NamesAreSound(u, aip, pp, pNames)
  BY <1>1, <1>3, <1>4, <1>7, <1>9, <1>10 DEF BuiltIsSound, NamesAreSound
<1>14. pBeside # "imports" => LinksAreSound(u, pLive, aip, pp)
  <2> SUFFICES ASSUME pBeside # "imports" PROVE LinksAreSound(u, pLive, aip, pp)
    OBVIOUS
  <2>1. Required((pp \ dropSeen) \cup addSeen) \subseteq LinksWith(u, aip)
    BY <1>3, <1>5, PeopleTypes DEF LinksWith, PhotoPeopleAreLinked
  <2>2. /\ Required(pp \ dropSeen) \subseteq LinksWith(u, aip)
        /\ Required({a \in addSeen : a[2] \in pLive}) \subseteq LinksWith(u, aip)
    BY <2>1 DEF Required
  <2>3. \A a \in addSeen : Holds(u, "person", a[2])
    BY <1>5, <1>7
  <2> QED  BY <1>1, <1>3, <1>5, <2>2, <2>3 DEF LinksAreSound
<1> HIDE DEF step
<1> QED  BY <1>1, <1>2, <1>3, <1>6, <1>11, <1>12, <1>13, <1>14, TakesKeeps DEF TxSound

LEMMA ListItemsKeeps ==
  ASSUME PeopleInvariant, NEW w \in PeopleWriters, ListItems(w)
  PROVE  PeopleInvariant'
<1> DEFINE step(t) == [t EXCEPT !.at = "sync", !.todo = UNION {ItemsOf(p) : p \in t.renamed}]
<1>1. PICK t \in PeopleTx : /\ t = pTx[w] /\ t.at = "list"
                            /\ TxSound(t, pLive, aip, pp, pNames, pBeside)
                            /\ Takes(w, {}, step(t))
  BY PeopleTypes DEF ListItems
<1>2. PICK u : u = [step(t) EXCEPT !.locks = t.locks \cup {}]
  OBVIOUS
<1>3. /\ u.at = "sync" /\ u.locks = t.locks \cup {}
      /\ u.addLinks = t.addLinks /\ u.dropLinks = t.dropLinks
      /\ u.addSeen = t.addSeen /\ u.dropSeen = t.dropSeen
      /\ u.gone = t.gone /\ u.built = t.built
  BY <1>1, <1>2 DEF PeopleTx
<1>4. /\ t.addLinks = {} /\ t.dropLinks = {} /\ t.addSeen = {} /\ t.dropSeen = {}
      /\ t.built = {} /\ pBeside = "edits"
      /\ \A p \in t.gone : Holds(t, "person", p)
  BY <1>1 DEF TxSound, TxIsPlaced
<1>5. u \in PeopleTx
  <2>1. UNION {ItemsOf(p) : p \in t.renamed} \in SUBSET PeopleItems
    BY DEF ItemsOf
  <2>2. "sync" \in {"idle", "required", "replace", "appearances", "ensure", "merge", "list", "sync"}
    OBVIOUS
  <2>3. t.locks \cup {} \in SUBSET LockRecords
    BY <1>1 DEF PeopleTx
  <2> QED  BY <1>1, <1>2, <2>1, <2>2, <2>3 DEF PeopleTx
<1>6. TxIsPlaced(u, pBeside) /\ WritesAreHeld(u, pp) /\ BuiltIsSound(u, aip, pp)
  BY <1>3, <1>4, MoreLocks DEF TxIsPlaced, WritesAreHeld, BuiltIsSound
<1>7. LinksAreSound(u, pLive, aip, pp)
  <2>1. Required(pp \ u.dropSeen) \subseteq LinksWith(u, aip)
    BY <1>3, <1>4, PeopleTypes DEF LinksWith, PhotoPeopleAreLinked
  <2> QED  BY <1>3, <1>4, <2>1, RequiredNothing DEF LinksAreSound
<1> HIDE DEF step
<1> QED  BY <1>1, <1>2, <1>3, <1>4, <1>5, <1>6, <1>7, TakesKeeps DEF TxSound

LEMMA SyncItemKeeps ==
  ASSUME PeopleInvariant, NEW w \in PeopleWriters, SyncItem(w)
  PROVE  PeopleInvariant'
<1> DEFINE shown(t, i) == Shown(i, LinksWith(t, aip), SeenWith(t, pp), NamesWith(t, pNames))
           step(t, i) == [t EXCEPT !.todo = @ \ {i}, !.built = @ \cup {<<i, shown(t, i)>>}]
           more(i) == Exclusive("item", {i})
<1>1. PICK t \in PeopleTx : /\ t = pTx[w] /\ t.at = "sync"
                            /\ TxSound(t, pLive, aip, pp, pNames, pBeside)
                            /\ \E i \in t.todo : Takes(w, more(i), step(t, i))
  BY PeopleTypes DEF SyncItem, LinksOf, SeenOf, NamesOf, LinksWith, SeenWith, NamesWith
<1>2. PICK i \in t.todo : Takes(w, more(i), step(t, i))
  BY <1>1
<1>3. PICK u : u = [step(t, i) EXCEPT !.locks = t.locks \cup more(i)]
  OBVIOUS
<1>4. /\ u.at = "sync" /\ u.locks = t.locks \cup more(i)
      /\ u.todo = t.todo \ {i} /\ u.built = t.built \cup {<<i, shown(t, i)>>}
      /\ u.addLinks = t.addLinks /\ u.dropLinks = t.dropLinks
      /\ u.addSeen = t.addSeen /\ u.dropSeen = t.dropSeen
      /\ u.renamed = t.renamed /\ u.gone = t.gone
  BY <1>1, <1>3 DEF PeopleTx
<1>5. i \in PeopleItems
  BY <1>1 DEF PeopleTx
<1>6. u \in PeopleTx
  <2>1. shown(t, i) \in SUBSET (Persons \X Nat)
    <3>1. NamesWith(t, pNames) \in [Persons -> Nat]
      BY PeopleTypes DEF NamesWith
    <3> QED  BY <3>1, ShownTyped
  <2>2. t.built \cup {<<i, shown(t, i)>>} \in SUBSET (PeopleItems \X SUBSET (Persons \X Nat))
    BY <1>1, <1>5, <2>1 DEF PeopleTx
  <2>3. more(i) \in SUBSET LockRecords
    BY <1>5, LocksAreRecords
  <2>4. t.locks \cup more(i) \in SUBSET LockRecords /\ t.todo \ {i} \in SUBSET PeopleItems
    BY <1>1, <2>3 DEF PeopleTx
  <2> DEFINE built == t.built \cup {<<i, shown(t, i)>>}
             todo == t.todo \ {i}
             locks == t.locks \cup more(i)
  <2>5. u = [[t EXCEPT !.todo = todo, !.built = built] EXCEPT !.locks = locks]
    BY <1>1, <1>3 DEF PeopleTx
  <2>6. /\ built \in SUBSET (PeopleItems \X SUBSET (Persons \X Nat))
        /\ todo \in SUBSET PeopleItems /\ locks \in SUBSET LockRecords
    BY <2>2, <2>4
  <2> HIDE DEF built, todo, locks
  <2> QED  BY <1>1, <2>5, <2>6 DEF PeopleTx
<1>7. Holds(u, "item", i)
  BY <1>4, LocksOfKind DEF Holds
<1>8. /\ LinksWith(u, aip) = LinksWith(t, aip) /\ SeenWith(u, pp) = SeenWith(t, pp)
      /\ NamesWith(u, pNames) = NamesWith(t, pNames)
  BY <1>4 DEF LinksWith, SeenWith, NamesWith
<1>9. Rebuilt(u) = Rebuilt(t)
  <2> DEFINE pair == <<i, shown(t, i)>>
  <2>1. pair[1] = i
    OBVIOUS
  <2> HIDE DEF pair
  <2>2. u.built = t.built \cup {pair}
    BY <1>4 DEF pair
  <2>3. \A j : j \in {b[1] : b \in u.built} <=> j \in {b[1] : b \in t.built} \/ j = i
    BY <2>1, <2>2
  <2> QED  BY <1>2, <1>4, <2>3 DEF Rebuilt
<1>10. /\ \A kind, r : Holds(t, kind, r) => Holds(u, kind, r)
       /\ \A j, seen : HoldsItem(t, j, seen) => HoldsItem(u, j, seen)
  BY <1>4, MoreLocks
<1> HIDE DEF more
<1>11. TxIsPlaced(u, pBeside)
  BY <1>1, <1>4, <1>10 DEF TxSound, TxIsPlaced
<1>12. WritesAreHeld(u, pp)
  BY <1>1, <1>4, <1>9, <1>10 DEF TxSound, WritesAreHeld
<1>13. BuiltIsSound(u, aip, pp)
  <2>1. {s[1] : s \in shown(t, i)} = PeopleWith(u, i, aip, pp)
    BY <1>8, ShownIsWhoIsThere DEF PeopleWith
  <2>2. \A b \in t.built : /\ Holds(u, "item", b[1])
                           /\ {s[1] : s \in b[2]} = PeopleWith(u, b[1], aip, pp)
    BY <1>1, <1>8, <1>10 DEF TxSound, BuiltIsSound, PeopleWith
  <2> HIDE DEF shown
  <2> QED  BY <1>4, <1>7, <2>1, <2>2 DEF BuiltIsSound
<1>14. pBeside # "edits" => NamesAreSound(u, aip, pp, pNames)
  <2> SUFFICES ASSUME pBeside # "edits" PROVE NamesAreSound(u, aip, pp, pNames)
    OBVIOUS
  <2>1. NamesAreSound(t, aip, pp, pNames)
    BY <1>1 DEF TxSound
  <2>2. \A p \in PeopleWith(u, i, aip, pp) : <<p, NamesWith(u, pNames)[p]>> \in shown(t, i)
    BY <1>8, ShownIsWhoIsThere DEF PeopleWith
  <2>3. \A b \in t.built :
          \A p \in PeopleAt(b[1], aip, pp) \cap PeopleWith(u, b[1], aip, pp) :
            <<p, NamesWith(u, pNames)[p]>> \in b[2]
    BY <1>8, <2>1 DEF NamesAreSound, PeopleWith
  <2> HIDE DEF shown
  <2>4. \A b \in u.built :
          \A p \in PeopleAt(b[1], aip, pp) \cap PeopleWith(u, b[1], aip, pp) :
            <<p, NamesWith(u, pNames)[p]>> \in b[2]
    BY <1>4, <2>2, <2>3
  <2> QED  BY <1>1, <1>4, <1>9, <1>10, <2>1, <2>4 DEF NamesAreSound
<1>15. pBeside # "imports" => LinksAreSound(u, pLive, aip, pp)
  <2> SUFFICES ASSUME pBeside # "imports" PROVE LinksAreSound(u, pLive, aip, pp)
    OBVIOUS
  <2>1. LinksAreSound(t, pLive, aip, pp)
    BY <1>1 DEF TxSound
  <2>2. /\ Required(pp \ u.dropSeen) \subseteq LinksWith(u, aip)
        /\ Required({a \in u.addSeen : a[2] \in pLive}) \subseteq LinksWith(u, aip)
    BY <1>1, <1>4, <1>8, <2>1 DEF LinksAreSound
  <2>3. /\ \A l \in u.dropLinks :
             \/ l[2] \in u.gone
             \/ Holds(u, "item", l[1]) /\ Holds(u, "person", l[2])
             \/ HoldsItem(u, l[1], pp)
        /\ \A a \in u.addSeen :
             \/ Holds(u, "item", ItemOf(a[1]))
             \/ Holds(u, "person", a[2]) /\ \E b \in u.dropSeen : b[1] = a[1]
    BY <1>4, <1>10, <2>1 DEF LinksAreSound
  <2> QED  BY <1>4, <2>2, <2>3 DEF LinksAreSound
<1> HIDE DEF step, shown
<1> QED  BY <1>1, <1>2, <1>3, <1>4, <1>6, <1>11, <1>12, <1>13, <1>14, <1>15, TakesKeeps DEF TxSound

------------------------------------------------------------------------------
(* A commit is seen by the other requests. *)
CommittedWrites(v) ==
  /\ pTx[v].at = "sync" /\ pTx[v].todo = {} /\ KeysHold(v)
  /\ aip' = LinksWith(pTx[v], aip) /\ pp' = SeenWith(pTx[v], pp)
  /\ pNames' = NamesWith(pTx[v], pNames)
  /\ pLive' = pLive \ pTx[v].gone /\ pBeside' = pBeside

(* Whom the new rows of a commit name, nobody else holds for update. *)
LEMMA KeysAreFree ==
  ASSUME NEW v \in PeopleWriters, NEW w \in PeopleWriters, v # w, KeysHold(v),
         NEW p \in NamedByNewRows(v)
  PROVE  p \in pLive /\ ~ Holds(pTx[w], "person", p)
<1>1. <<<<"person", p>>, "share">> \in Shared("person", NamedByNewRows(v))
  BY LocksOfKind
<1>2. IsFree(v, <<"person", p>>, "share")
  BY <1>1 DEF KeysHold, MayLock
<1>3. "update" \in LockModes /\ Conflict("share", "update")
  BY DEF LockModes, Conflict
<1>4. ~ Holds(pTx[w], "person", p)
  BY <1>2, <1>3 DEF IsFree, Holds
<1> QED  BY <1>4 DEF KeysHold

(* What one request drops another may put back only of a person that goes. *)
LEMMA WritesAreApart ==
  ASSUME PeopleInvariant, pBeside # "imports",
         NEW v \in PeopleWriters, NEW w \in PeopleWriters, v # w
  PROVE  \A l \in pTx[v].dropLinks, a \in pTx[w].addSeen :
           l = <<ItemOf(a[1]), a[2]>> => a[2] \in pTx[v].gone
<1> SUFFICES ASSUME NEW l \in pTx[v].dropLinks, NEW a \in pTx[w].addSeen,
                    l = <<ItemOf(a[1]), a[2]>>, a[2] \notin pTx[v].gone
             PROVE  FALSE
  OBVIOUS
<1>1. l[1] = ItemOf(a[1]) /\ l[2] = a[2] /\ a \in Appearances
      /\ a[2] \in Persons /\ ItemOf(a[1]) \in PeopleItems
  BY PeopleTypes, PeopleAppearances DEF PeopleTx
<1>2. /\ \/ Holds(pTx[v], "item", l[1]) /\ Holds(pTx[v], "person", l[2])
         \/ HoldsItem(pTx[v], l[1], pp)
      /\ \/ Holds(pTx[w], "item", ItemOf(a[1]))
         \/ /\ Holds(pTx[w], "person", a[2])
            /\ \E b \in pTx[w].dropSeen :
                 b[1] = a[1] /\ b \in pp /\ Holds(pTx[w], "appearance", b)
  BY <1>1, PeopleTypes DEF TxSound, LinksAreSound, WritesAreHeld
<1>3. UpdatesExclude
  BY DEF PeopleInvariant
<1>4. HoldsItem(pTx[v], l[1], pp) /\ ~ Holds(pTx[w], "item", ItemOf(a[1]))
  BY <1>1, <1>2, <1>3, HoldersDiffer DEF HoldsItem
<1>5. PICK b \in pTx[w].dropSeen : b[1] = a[1] /\ b \in pp /\ Holds(pTx[w], "appearance", b)
  BY <1>2, <1>4
<1>6. Holds(pTx[v], "appearance", b) /\ b \in Appearances
  BY <1>1, <1>4, <1>5, PeopleTypes DEF HoldsItem
<1> QED  BY <1>3, <1>5, <1>6, HoldersDiffer

(* The rows of an item that a request holds stay as they are. *)
LEMMA HeldItemsStay ==
  ASSUME PeopleInvariant, pBeside # "imports",
         NEW v \in PeopleWriters, NEW w \in PeopleWriters, v # w,
         NEW i \in PeopleItems, HoldsItem(pTx[w], i, pp)
  PROVE  \A a \in SeenWith(pTx[v], pp) : ItemOf(a[1]) = i => a \in pp
<1> SUFFICES ASSUME NEW a \in pTx[v].addSeen, ItemOf(a[1]) = i
             PROVE  FALSE
  BY DEF SeenWith
<1>1. \/ Holds(pTx[v], "item", i)
      \/ \E b \in pTx[v].dropSeen :
           b[1] = a[1] /\ b \in pp /\ Holds(pTx[v], "appearance", b)
  BY PeopleTypes DEF TxSound, LinksAreSound, WritesAreHeld
<1>2. UpdatesExclude
  BY DEF PeopleInvariant
<1>3. PICK b \in pTx[v].dropSeen : b[1] = a[1] /\ b \in pp /\ Holds(pTx[v], "appearance", b)
  BY <1>1, <1>2, HoldersDiffer DEF HoldsItem
<1>4. Holds(pTx[w], "appearance", b) /\ b \in Appearances
  BY <1>3, PeopleTypes DEF HoldsItem
<1> QED  BY <1>2, <1>3, <1>4, HoldersDiffer

(* What a request has built no other one has still to commit. *)
LEMMA BuiltIsAside ==
  ASSUME PeopleInvariant, NEW v \in PeopleWriters, pTx[v].todo = {},
         NEW w \in PeopleWriters, v # w, NEW b \in pTx[w].built
  PROVE  b[1] \in PeopleItems /\ b[1] \notin Rebuilt(pTx[v])
<1>1. /\ pTx[v] \in PeopleTx /\ BuiltIsSound(pTx[v], aip, pp)
      /\ pTx[w] \in PeopleTx /\ BuiltIsSound(pTx[w], aip, pp)
      /\ UpdatesExclude
  BY PeopleTypes DEF TxSound, PeopleInvariant
<1>2. Holds(pTx[w], "item", b[1]) /\ b[1] \in PeopleItems
  BY <1>1 DEF BuiltIsSound, PeopleTx
<1>3. ASSUME NEW c \in pTx[v].built PROVE c[1] # b[1]
  <2>1. Holds(pTx[v], "item", c[1])
    BY <1>1 DEF BuiltIsSound
  <2> QED  BY <1>1, <1>2, <2>1, HoldersDiffer
<1> QED  BY <1>2, <1>3 DEF Rebuilt

(* Items that a commit has not rebuilt keep their people, also as another  *)
(* request will leave them.                                                *)
LEMMA PeopleStayThere ==
  ASSUME PeopleInvariant, NEW v \in PeopleWriters, CommittedWrites(v),
         NEW i \in PeopleItems, i \notin Rebuilt(pTx[v])
  PROVE  /\ PeopleAt(i, aip', pp') = PeopleAt(i, aip, pp)
         /\ \A t \in PeopleTx : PeopleWith(t, i, aip', pp') = PeopleWith(t, i, aip, pp)
<1> DEFINE x == pTx[v]
<1>1. /\ x \in PeopleTx /\ WritesAreHeld(x, pp)
      /\ aip' = LinksWith(x, aip) /\ pp' = SeenWith(x, pp)
      /\ pp \subseteq Appearances
  BY PeopleTypes DEF TxSound, CommittedWrites
<1>2. \A p \in Persons : <<i, p>> \in aip' <=> <<i, p>> \in aip
  BY <1>1 DEF LinksWith, WritesAreHeld
<1>3. \A a \in Appearances : ItemOf(a[1]) = i => (a \in pp' <=> a \in pp)
  BY <1>1 DEF SeenWith, WritesAreHeld
<1>4. pp' \subseteq Appearances
  BY <1>1 DEF SeenWith, PeopleTx
<1>5. \A p \in Persons : <<i, p>> \in Required(pp') <=> <<i, p>> \in Required(pp)
  BY <1>1, <1>3, <1>4, RequiredLinks
<1>6. ASSUME NEW t \in PeopleTx
      PROVE  PeopleWith(t, i, aip', pp') = PeopleWith(t, i, aip, pp)
  <2>1. \A p \in Persons : <<i, p>> \in LinksWith(t, aip') <=> <<i, p>> \in LinksWith(t, aip)
    BY <1>2 DEF LinksWith
  <2>2. SeenWith(t, pp') \subseteq Appearances /\ SeenWith(t, pp) \subseteq Appearances
    BY <1>1, <1>4 DEF SeenWith, PeopleTx
  <2>3. \A a \in Appearances : ItemOf(a[1]) = i => (a \in SeenWith(t, pp') <=> a \in SeenWith(t, pp))
    BY <1>3 DEF SeenWith
  <2>4. \A p \in Persons :
          <<i, p>> \in Required(SeenWith(t, pp')) <=> <<i, p>> \in Required(SeenWith(t, pp))
    BY <2>2, <2>3, RequiredLinks
  <2> QED  BY <2>1, <2>4 DEF PeopleWith, PeopleAt
<1> QED  BY <1>2, <1>5, <1>6 DEF PeopleAt

(* Nor does a commit rename anybody there. *)
LEMMA NamesStayThere ==
  ASSUME PeopleInvariant, pBeside # "edits",
         NEW v \in PeopleWriters, CommittedWrites(v),
         NEW i \in PeopleItems, i \notin Rebuilt(pTx[v]), NEW p \in PeopleAt(i, aip, pp)
  PROVE  /\ pNames'[p] = pNames[p]
         /\ \A t \in PeopleTx : NamesWith(t, pNames')[p] = NamesWith(t, pNames)[p]
<1>1. NamesAreSound(pTx[v], aip, pp, pNames) /\ pTx[v].at = "sync"
      /\ pNames' = NamesWith(pTx[v], pNames) /\ pNames \in [Persons -> Nat]
  BY PeopleTypes DEF TxSound, CommittedWrites
<1>2. p \in Persons /\ p \notin pTx[v].renamed
  BY <1>1 DEF NamesAreSound, PeopleAt
<1>3. pNames'[p] = pNames[p]
  BY <1>1, <1>2 DEF NamesWith
<1> QED  BY <1>2, <1>3 DEF NamesWith

(* Whom a request renames, nobody else adds to an item by a commit. *)
LEMMA HeldPeopleStay ==
  ASSUME PeopleInvariant, NEW v \in PeopleWriters, CommittedWrites(v),
         NEW w \in PeopleWriters, v # w,
         NEW p \in Persons, Holds(pTx[w], "person", p), NEW i \in PeopleItems
  PROVE  p \in PeopleAt(i, aip', pp') => p \in PeopleAt(i, aip, pp)
<1> DEFINE x == pTx[v]
<1>1. KeysHold(v) /\ aip' = LinksWith(x, aip) /\ pp' = SeenWith(x, pp)
  BY DEF CommittedWrites
<1>2. p \notin NamedByNewRows(v)
  BY <1>1, KeysAreFree
<1>3. \A r \in x.addLinks \cup x.addSeen : r[2] # p
  BY <1>2 DEF NamedByNewRows
<1>4. <<i, p>> \in aip' => <<i, p>> \in aip
  BY <1>1, <1>3 DEF LinksWith
<1>5. <<i, p>> \in Required(pp') => <<i, p>> \in Required(pp)
  BY <1>1, <1>3, RequiredLinks DEF SeenWith
<1> QED  BY <1>4, <1>5 DEF PeopleAt

LEMMA CommitKeepsIndexing ==
  ASSUME PeopleInvariant, NEW v \in PeopleWriters, CommittedWrites(v),
         NEW w \in PeopleWriters, v # w
  PROVE  /\ BuiltIsSound(pTx[w], aip', pp')
         /\ pBeside # "edits" => NamesAreSound(pTx[w], aip', pp', pNames')
<1> DEFINE t == pTx[w]
<1>1. /\ t \in PeopleTx /\ BuiltIsSound(t, aip, pp)
      /\ pBeside # "edits" => NamesAreSound(t, aip, pp, pNames)
      /\ pTx[v].todo = {}
  BY PeopleTypes DEF TxSound, CommittedWrites
<1>2. \A b \in t.built : b[1] \in PeopleItems /\ b[1] \notin Rebuilt(pTx[v])
  BY <1>1, BuiltIsAside
<1>3. \A b \in t.built : /\ PeopleAt(b[1], aip', pp') = PeopleAt(b[1], aip, pp)
                         /\ PeopleWith(t, b[1], aip', pp') = PeopleWith(t, b[1], aip, pp)
  BY <1>1, <1>2, PeopleStayThere
<1>4. BuiltIsSound(t, aip', pp')
  BY <1>1, <1>3 DEF BuiltIsSound
<1>5. ASSUME pBeside # "edits" PROVE NamesAreSound(t, aip', pp', pNames')
  <2>1. NamesAreSound(t, aip, pp, pNames)
    BY <1>1, <1>5
  <2>2. ASSUME NEW p \in t.renamed, NEW i \in PeopleItems, t.at = "sync",
               p \in PeopleAt(i, aip', pp')
        PROVE  i \in Rebuilt(t)
    <3>1. Holds(t, "person", p) /\ p \in Persons
      BY <1>1, <2>1 DEF NamesAreSound, PeopleTx
    <3>2. p \in PeopleAt(i, aip, pp)
      BY <2>2, <3>1, HeldPeopleStay
    <3> QED  BY <2>1, <2>2, <3>2 DEF NamesAreSound
  <2>3. ASSUME NEW b \in t.built,
               NEW p \in PeopleAt(b[1], aip', pp') \cap PeopleWith(t, b[1], aip', pp')
        PROVE  <<p, NamesWith(t, pNames')[p]>> \in b[2]
    <3>1. p \in PeopleAt(b[1], aip, pp) \cap PeopleWith(t, b[1], aip, pp)
      BY <1>3
    <3>2. <<p, NamesWith(t, pNames)[p]>> \in b[2]
      BY <2>1, <3>1 DEF NamesAreSound
    <3>3. NamesWith(t, pNames')[p] = NamesWith(t, pNames)[p]
      BY <1>1, <1>2, <1>5, <3>1, NamesStayThere
    <3> QED  BY <3>2, <3>3
  <2> QED  BY <2>1, <2>2, <2>3 DEF NamesAreSound
<1> QED  BY <1>4, <1>5

(* What a commit leaves is linked: its new rows name persons that live. *)
LEMMA CommitLeavesLinked ==
  ASSUME PeopleInvariant, pBeside # "imports", NEW v \in PeopleWriters, CommittedWrites(v)
  PROVE  Required(pp') \subseteq aip'
<1> DEFINE x == pTx[v]
<1>1. /\ LinksAreSound(x, pLive, aip, pp) /\ x.at = "sync" /\ KeysHold(v)
      /\ aip' = LinksWith(x, aip) /\ pp' = SeenWith(x, pp)
  BY PeopleTypes DEF TxSound, CommittedWrites
<1> SUFFICES ASSUME NEW a \in pp' PROVE <<ItemOf(a[1]), a[2]>> \in aip'
  BY DEF Required
<1>2. CASE a \in pp \ x.dropSeen
  BY <1>1, <1>2 DEF LinksAreSound, Required
<1>3. CASE a \in x.addSeen
  <2>1. a[2] \in pLive
    BY <1>1, <1>3 DEF KeysHold, NamedByNewRows
  <2> QED  BY <1>1, <1>3, <2>1 DEF LinksAreSound, Required
<1> QED  BY <1>1, <1>2, <1>3 DEF SeenWith

LEMMA CommitKeepsLinking ==
  ASSUME PeopleInvariant, pBeside # "imports", NEW v \in PeopleWriters, CommittedWrites(v),
         NEW w \in PeopleWriters, v # w
  PROVE  LinksAreSound(pTx[w], pLive', aip', pp')
<1> DEFINE t == pTx[w]
           x == pTx[v]
           link(a) == <<ItemOf(a[1]), a[2]>>
<1>1. /\ t \in PeopleTx /\ TxIsPlaced(t, pBeside)
      /\ LinksAreSound(t, pLive, aip, pp) /\ LinksAreSound(x, pLive, aip, pp)
  BY PeopleTypes DEF TxSound
<1>2. /\ aip' = LinksWith(x, aip) /\ pp' = SeenWith(x, pp) /\ pLive' = pLive \ x.gone
      /\ x.at = "sync" /\ KeysHold(v)
  BY DEF CommittedWrites
<1>3. ASSUME NEW i \in PeopleItems, HoldsItem(t, i, pp)
      PROVE  /\ HoldsItem(t, i, pp')
             /\ \A a \in pp' : ItemOf(a[1]) = i => a \in pp
  <2>1. \A a \in pp' : ItemOf(a[1]) = i => a \in pp
    BY <1>2, <1>3, HeldItemsStay
  <2> QED  BY <1>3, <2>1 DEF HoldsItem
<1>4. ASSUME NEW l \in t.dropLinks
      PROVE  \/ l[2] \in t.gone
             \/ Holds(t, "item", l[1]) /\ Holds(t, "person", l[2])
             \/ HoldsItem(t, l[1], pp')
  BY <1>1, <1>3, PeopleLinks DEF LinksAreSound, PeopleTx
<1>5. t.at = "replace" =>
        \A i \in t.todo : HoldsItem(t, i, pp') /\ \A a \in pp' : ItemOf(a[1]) = i => a[2] \in t.want
  BY <1>1, <1>3 DEF LinksAreSound, PeopleTx
<1>6. ASSUME t.at = "sync", NEW a \in pp' \ t.dropSeen
      PROVE  link(a) \in LinksWith(t, aip')
  <2>1. link(a) \in aip'
    BY CommitLeavesLinked DEF Required
  <2>2. CASE a \in pp
    <3>1. link(a) \in LinksWith(t, aip)
      BY <1>1, <1>6, <2>2 DEF LinksAreSound, Required
    <3> HIDE DEF link
    <3> QED  BY <2>1, <3>1 DEF LinksWith
  <2>3. CASE a \in x.addSeen
    <3>1. a[2] \notin t.gone
      <4>1. a[2] \in NamedByNewRows(v)
        BY <2>3 DEF NamedByNewRows
      <4> QED  BY <1>1, <1>2, <4>1, KeysAreFree DEF TxIsPlaced
    <3>2. link(a) \notin t.dropLinks
      BY <2>3, <3>1, WritesAreApart
    <3> HIDE DEF link
    <3> QED  BY <2>1, <3>2 DEF LinksWith
  <2> QED  BY <1>2, <2>2, <2>3 DEF SeenWith
<1>7. ASSUME t.at = "sync", NEW a \in t.addSeen, a[2] \in pLive'
      PROVE  link(a) \in LinksWith(t, aip')
  <2>1. link(a) \in LinksWith(t, aip)
    BY <1>1, <1>2, <1>7 DEF LinksAreSound, Required
  <2>2. link(a) \notin x.dropLinks
    BY <1>2, <1>7, WritesAreApart
  <2> HIDE DEF link
  <2> QED  BY <1>2, <2>1, <2>2 DEF LinksWith
<1>8. t.at = "sync" =>
        /\ Required(pp' \ t.dropSeen) \subseteq LinksWith(t, aip')
        /\ Required({a \in t.addSeen : a[2] \in pLive'}) \subseteq LinksWith(t, aip')
  BY <1>6, <1>7 DEF Required
<1> QED  BY <1>1, <1>4, <1>5, <1>8 DEF LinksAreSound

LEMMA CommitKeepsOthers ==
  ASSUME PeopleInvariant, NEW v \in PeopleWriters, CommittedWrites(v),
         NEW w \in PeopleWriters, v # w
  PROVE  TxSound(pTx[w], pLive', aip', pp', pNames', pBeside')
<1> DEFINE t == pTx[w]
           x == pTx[v]
<1>1. /\ TxIsPlaced(t, pBeside) /\ WritesAreHeld(t, pp) /\ WritesAreHeld(x, pp)
      /\ UpdatesExclude /\ pp \subseteq Appearances
  BY PeopleTypes DEF TxSound, PeopleInvariant
<1>2. pp' = SeenWith(x, pp) /\ pBeside' = pBeside
  BY DEF CommittedWrites
<1>3. WritesAreHeld(t, pp')
  <2>1. ASSUME NEW a \in t.dropSeen PROVE a \in pp'
    <3>1. a \in pp /\ Holds(t, "appearance", a)
      BY <1>1 DEF WritesAreHeld
    <3>2. a \notin x.dropSeen
      BY <1>1, <3>1, HoldersDiffer DEF WritesAreHeld
    <3> QED  BY <1>2, <3>1, <3>2 DEF SeenWith
  <2> QED  BY <1>1, <2>1 DEF WritesAreHeld
<1> QED  BY <1>1, <1>2, <1>3, CommitKeepsIndexing, CommitKeepsLinking DEF TxSound

(* The index after a commit: rebuilt where the commit wrote. *)
LEMMA CommittedIndex ==
  ASSUME PeopleInvariant, NEW v \in PeopleWriters, CommitPeople(v)
  PROVE  /\ CommittedWrites(v) /\ DOMAIN pIndex' = PeopleItems
         /\ \A i \in PeopleItems :
              \/ \E b \in pTx[v].built : b[1] = i /\ pIndex'[i] = b[2]
              \/ i \notin Rebuilt(pTx[v]) /\ pIndex'[i] = pIndex[i]
<1> DEFINE x == pTx[v]
           built(i) == \E b \in x.built : b[1] = i
           item(i) == (CHOOSE b \in x.built : b[1] = i)[2]
<1>1. CommittedWrites(v)
  BY DEF CommitPeople, CommittedWrites, LinksOf, SeenOf, NamesOf, LinksWith, SeenWith, NamesWith
<1>2. pIndex' = [i \in PeopleItems |-> IF built(i) THEN item(i) ELSE pIndex[i]]
  BY DEF CommitPeople
<1>3. \A i \in PeopleItems : built(i) => \E b \in x.built : b[1] = i /\ item(i) = b[2]
  OBVIOUS
<1>4. x.todo = {}
  BY DEF CommitPeople
<1>5. \A i \in PeopleItems : ~ built(i) => i \notin Rebuilt(x)
  BY <1>4 DEF Rebuilt
<1> HIDE DEF item, built
<1> QED  BY <1>1, <1>2, <1>3, <1>5

LEMMA CommitPeopleKeeps ==
  ASSUME PeopleInvariant, NEW v \in PeopleWriters, CommitPeople(v)
  PROVE  PeopleInvariant'
<1> DEFINE x == pTx[v]
<1>1. x \in PeopleTx /\ TxSound(x, pLive, aip, pp, pNames, pBeside) /\ PeopleTypeOK
  BY PeopleTypes DEF PeopleInvariant
<1>2. /\ CommittedWrites(v) /\ DOMAIN pIndex' = PeopleItems
      /\ \A i \in PeopleItems :
           \/ \E b \in x.built : b[1] = i /\ pIndex'[i] = b[2]
           \/ i \notin Rebuilt(x) /\ pIndex'[i] = pIndex[i]
  BY CommittedIndex
<1>3. /\ aip' = LinksWith(x, aip) /\ pp' = SeenWith(x, pp)
      /\ pNames' = NamesWith(x, pNames) /\ pBeside' = pBeside /\ pLive' = pLive \ x.gone
  BY <1>2 DEF CommittedWrites
<1>4. pTx' = [pTx EXCEPT ![v] = NoTx] /\ pCount' = pCount
  BY DEF CommitPeople, TxBecomes
<1>5. PeopleTypeOK'
  <2>1. pTx' \in [PeopleWriters -> PeopleTx]
    BY <1>1, <1>4, NoTxIsSound DEF PeopleTypeOK
  <2>2. pNames' \in [Persons -> Nat]
    BY <1>1, <1>3 DEF NamesWith, PeopleTypeOK
  <2>3. aip' \subseteq Links /\ pp' \subseteq Appearances
    BY <1>1, <1>3 DEF LinksWith, SeenWith, PeopleTypeOK, PeopleTx
  <2>4. \A b \in x.built : b[2] \in SUBSET (Persons \X Nat)
    BY <1>1 DEF PeopleTx
  <2>5. \A i \in PeopleItems : pIndex'[i] \in SUBSET (Persons \X Nat)
    BY <1>1, <1>2, <2>4 DEF PeopleTypeOK
  <2>6. pLive' \subseteq Persons /\ pCount' \in 0..PeopleTxBound /\ pBeside' \in PeopleBeside
    BY <1>1, <1>3, <1>4 DEF PeopleTypeOK
  <2> QED  BY <2>1, <2>2, <2>3, <2>5, <2>6 DEF PeopleTypeOK
<1>6. UpdatesExclude'
  <2>1. MayLock(v, {}) /\ NoTx \in PeopleTx /\ NoTx.locks \subseteq x.locks \cup {}
    BY NoTxIsSound DEF MayLock
  <2> QED  BY <1>1, <1>4, <2>1, LocksStayApart DEF PeopleInvariant, TxBecomes
<1>7. PhotoPeopleAreLinked'
  BY <1>2, <1>3, CommitLeavesLinked DEF PhotoPeopleAreLinked
<1>8. IndexNamesPeople'
  <2> SUFFICES ASSUME NEW i \in PeopleItems
               PROVE  {s[1] : s \in pIndex'[i]} = PeopleAt(i, aip', pp')
    BY <1>2 DEF IndexNamesPeople, PeopleOf, PeopleAt
  <2>1. ASSUME NEW b \in x.built, b[1] = i, pIndex'[i] = b[2]
        PROVE  {s[1] : s \in pIndex'[i]} = PeopleAt(i, aip', pp')
    BY <1>1, <1>3, <2>1 DEF TxSound, BuiltIsSound, PeopleWith
  <2>2. CASE i \notin Rebuilt(x) /\ pIndex'[i] = pIndex[i]
    <3>1. {s[1] : s \in pIndex[i]} = PeopleAt(i, aip, pp)
      BY DEF PeopleInvariant, IndexNamesPeople, PeopleOf, PeopleAt
    <3> QED  BY <1>2, <2>2, <3>1, PeopleStayThere
  <2> QED  BY <1>2, <2>1, <2>2
<1>9. \A w \in PeopleWriters : TxSound(pTx'[w], pLive', aip', pp', pNames', pBeside')
  <2> SUFFICES ASSUME NEW w \in PeopleWriters
               PROVE  TxSound(pTx'[w], pLive', aip', pp', pNames', pBeside')
    OBVIOUS
  <2>1. pTx \in [PeopleWriters -> PeopleTx]
    BY <1>1 DEF PeopleTypeOK
  <2>2. CASE w = v
    BY <1>4, <2>1, <2>2, NoTxIsSound
  <2>3. CASE w # v
    <3>1. pTx'[w] = pTx[w]
      BY <1>4, <2>1, <2>3
    <3>2. TxSound(pTx[w], pLive', aip', pp', pNames', pBeside')
      BY <1>2, <2>3, CommitKeepsOthers
    <3> QED  BY <3>1, <3>2
  <2> QED  BY <2>2, <2>3
<1> QED  BY <1>2, <1>5, <1>6, <1>7, <1>8, <1>9 DEF PeopleInvariant

(* Whoever is there before and after a commit, and was shown by the        *)
(* current names, is shown by the names it leaves.                         *)
LEMMA CommitKeepsNames ==
  ASSUME PeopleInvariant, pBeside # "edits", NEW v \in PeopleWriters, CommitPeople(v),
         NEW i \in PeopleItems
  PROVE  UpToDate(i) \cap PeopleOf(i)' \subseteq UpToDate(i)'
<1> DEFINE x == pTx[v]
<1>1. /\ CommittedWrites(v)
      /\ \/ \E b \in x.built : b[1] = i /\ pIndex'[i] = b[2]
         \/ i \notin Rebuilt(x) /\ pIndex'[i] = pIndex[i]
  BY CommittedIndex
<1>2. /\ NamesAreSound(x, aip, pp, pNames)
      /\ aip' = LinksWith(x, aip) /\ pp' = SeenWith(x, pp) /\ pNames' = NamesWith(x, pNames)
  BY <1>1, PeopleTypes DEF TxSound, CommittedWrites
<1> SUFFICES ASSUME NEW p \in PeopleAt(i, aip, pp), <<p, pNames[p]>> \in pIndex[i],
                    p \in PeopleAt(i, aip', pp')
             PROVE  <<p, pNames'[p]>> \in pIndex'[i]
  BY DEF UpToDate, PeopleOf, PeopleAt
<1>3. ASSUME NEW b \in x.built, b[1] = i, pIndex'[i] = b[2]
      PROVE  <<p, pNames'[p]>> \in pIndex'[i]
  <2>1. p \in PeopleAt(b[1], aip, pp) \cap PeopleWith(x, b[1], aip, pp)
    BY <1>2, <1>3 DEF PeopleWith
  <2> QED  BY <1>2, <1>3, <2>1 DEF NamesAreSound
<1>4. CASE i \notin Rebuilt(x) /\ pIndex'[i] = pIndex[i]
  BY <1>1, <1>4, NamesStayThere
<1> QED  BY <1>1, <1>3, <1>4

------------------------------------------------------------------------------
LEMMA PeopleStart == Init_People => PeopleInvariant
<1> SUFFICES ASSUME Init_People PROVE PeopleInvariant
  OBVIOUS
<1>1. /\ pLive = Persons /\ pNames = [p \in Persons |-> 0]
      /\ pp \in SUBSET Appearances /\ aip \in SUBSET Links /\ Required(pp) \subseteq aip
      /\ pIndex = [i \in PeopleItems |-> Shown(i, aip, pp, pNames)]
      /\ pTx = [w \in PeopleWriters |-> NoTx] /\ pCount = 0 /\ pBeside \in PeopleBeside
  BY DEF Init_People
<1>2. pNames \in [Persons -> Nat]
  BY <1>1
<1>3. \A i \in PeopleItems : pIndex[i] = Shown(i, aip, pp, pNames)
  BY <1>1
<1>4. ASSUME NEW i \in PeopleItems PROVE pIndex[i] \in SUBSET (Persons \X Nat)
  <2>1. Shown(i, aip, pp, pNames) \in SUBSET (Persons \X Nat)
    BY <1>2, ShownTyped
  <2> QED  BY <1>3, <2>1
<1>5. PeopleTypeOK
  BY <1>1, <1>2, <1>4, NoTxIsSound, PeopleAssumption DEF PeopleTypeOK
<1>6. UpdatesExclude
  BY <1>1, NoTxIsSound DEF UpdatesExclude
<1>7. PhotoPeopleAreLinked /\ DOMAIN pIndex = PeopleItems
  BY <1>1 DEF PhotoPeopleAreLinked
<1>8. IndexNamesPeople
  BY <1>3, <1>7, ShownIsWhoIsThere DEF IndexNamesPeople, PeopleOf, PeopleAt
<1>9. \A w \in PeopleWriters : TxSound(pTx[w], pLive, aip, pp, pNames, pBeside)
  BY <1>1, NoTxIsSound
<1> QED  BY <1>5, <1>6, <1>7, <1>8, <1>9 DEF PeopleInvariant

LEMMA PeopleStepKeeps ==
  ASSUME PeopleInvariant, NEW w \in PeopleWriters, PeopleStep(w)
  PROVE  PeopleInvariant'
<1>1. CASE PeopleRequest(w)
  <2>1. CASE \E i \in PeopleItems, P \in SUBSET pLive : StartReplace(w, i, P)
    BY <2>1, StartReplaceKeeps
  <2>2. CASE \E i \in PeopleItems, p \in Persons : ApproveAdd(w, i, p) \/ ApproveRemove(w, i, p)
    BY <2>2, ApproveAddKeeps, ApproveRemoveKeeps
  <2>3. CASE \E ph \in Photos, P \in SUBSET pLive : StartPhoto(w, ph, P) \/ AddPhoto(w, ph, P)
    BY <2>3, StartPhotoKeeps DEF AddPhoto
  <2>4. CASE \E ph \in Photos, p \in Persons : ImportAppearance(w, ph, p)
    BY <2>4, ImportAppearanceKeeps
  <2>5. CASE \E k, d \in Persons : StartMerge(w, k, d)
    BY <2>5, StartMergeKeeps
  <2>6. CASE \E p \in Persons : StartEdit(w, p, {<<<<"person", p>>, "no key">>}) \/ StartEdit(w, p, {})
    BY <2>6, StartEditKeeps
  <2> QED  BY <1>1, <2>1, <2>2, <2>3, <2>4, <2>5, <2>6 DEF PeopleRequest
<1>2. CASE ReadRequired(w) \/ ReplaceLinks(w)
  BY <1>2, ReadRequiredKeeps, ReplaceLinksKeeps
<1>3. CASE \E ph \in Photos : SetAppearances(w, ph)
  BY <1>3, SetAppearancesKeeps
<1>4. CASE EnsureLinks(w)
  BY <1>4, EnsureLinksKeeps
<1>5. CASE \E k, d \in Persons : MoveLinks(w, k, d)
  BY <1>5, MoveLinksKeeps
<1>6. CASE ListItems(w) \/ SyncItem(w)
  BY <1>6, ListItemsKeeps, SyncItemKeeps
<1>7. CASE CommitPeople(w) \/ AbortPeople(w)
  BY <1>7, CommitPeopleKeeps, AbortPeopleKeeps
<1> QED  BY <1>1, <1>2, <1>3, <1>4, <1>5, <1>6, <1>7 DEF PeopleStep

(* Every reachable state of the people and their requests. *)
THEOREM PeopleInvariantHolds == Spec_People => []PeopleInvariant
<1>1. PeopleInvariant /\ [Next_People]_pVars => PeopleInvariant'
  <2> SUFFICES ASSUME PeopleInvariant, [Next_People]_pVars PROVE PeopleInvariant'
    OBVIOUS
  <2>1. CASE Next_People
    BY <2>1, PeopleStepKeeps DEF Next_People
  <2>2. CASE UNCHANGED pVars
    BY <2>2 DEF pVars, PeopleInvariant, PeopleTypeOK, PhotoPeopleAreLinked, IndexNamesPeople,
                PeopleOf, UpdatesExclude
  <2> QED  BY <2>1, <2>2
<1> QED  BY <1>1, PeopleStart, PTL DEF Spec_People

(* Types of the catalogue of people and of every open request. *)
THEOREM PeopleTyped == Spec_People => []PeopleTypeOK
  BY PeopleInvariantHolds, PTL DEF PeopleInvariant

(* Beside no reviewed import, whoever appears on a photo is linked to its  *)
(* item (archive_item_people.py:4), for any number of requests.            *)
THEOREM PhotoPeopleStayLinked == Spec_People => []PhotoPeopleAreLinked
  BY PeopleInvariantHolds, PTL DEF PeopleInvariant

(* Only a commit changes what others see. *)
LEMMA PeopleStepCommits ==
  ASSUME NEW w \in PeopleWriters, PeopleStep(w)
  PROVE  CommitPeople(w) \/ NothingCommitted
<1>1. CASE PeopleRequest(w)
  BY <1>1 DEF PeopleRequest, StartReplace, ApproveAdd, ApproveRemove, AddPhoto, StartPhoto,
              ImportAppearance, StartMerge, StartEdit, Opens
<1>2. CASE \/ ReadRequired(w) \/ ReplaceLinks(w) \/ (\E ph \in Photos : SetAppearances(w, ph))
           \/ EnsureLinks(w) \/ (\E k, d \in Persons : MoveLinks(w, k, d))
  BY <1>2 DEF ReadRequired, ReplaceLinks, SetAppearances, EnsureLinks, MoveLinks, Takes
<1>3. CASE ListItems(w) \/ SyncItem(w) \/ AbortPeople(w)
  BY <1>3 DEF ListItems, SyncItem, AbortPeople, Takes
<1> QED  BY <1>1, <1>2, <1>3 DEF PeopleStep

(* The index of every item names exactly its people; beside no edit, a     *)
(* commit leaves whoever it showed by the current names under those it     *)
(* leaves: a merge reaches every item whose link is committed              *)
(* (merge_persons, sync_archive_item_search_index).                        *)
THEOREM IndexAlwaysKeepsUp == Spec_People => IndexKeepsUp
<1>1. PeopleInvariant /\ PeopleInvariant' /\ [Next_People]_pVars => [KeepsIndex]_pVars
  <2> SUFFICES ASSUME PeopleInvariant, PeopleInvariant', NEW w \in PeopleWriters, PeopleStep(w)
               PROVE  KeepsIndex
    BY DEF Next_People
  <2>1. IndexNamesPeople' /\ DOMAIN pIndex = PeopleItems
    BY DEF PeopleInvariant
  <2>2. CASE CommitPeople(w)
    BY <2>1, <2>2, CommitKeepsNames DEF KeepsIndex
  <2>3. CASE NothingCommitted
    <3>1. aip' = aip /\ pp' = pp /\ pNames' = pNames /\ pIndex' = pIndex
      BY <2>3 DEF NothingCommitted
    <3> QED  BY <2>1, <3>1 DEF KeepsIndex, UpToDate, PeopleOf
  <2> QED  BY <2>2, <2>3, PeopleStepCommits
<1> QED  BY <1>1, PeopleInvariantHolds, PTL DEF Spec_People, IndexKeepsUp
=============================================================================
