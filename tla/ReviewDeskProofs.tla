--------------------------- MODULE ReviewDeskProofs ---------------------------
(***************************************************************************)
(* Theorems about the review desk, for every set of items, people, texts   *)
(* and platforms and every bound on the versions.                          *)
(*                                                                         *)
(* The argument is one equation of five numbers: the version a gate names, *)
(* the item's current version and the number of its versions agree at all  *)
(* times, a client that loaded a gate shows the version it will send, and  *)
(* an approved gate was approved for the version it names.                 *)
(***************************************************************************)
EXTENDS Departments, TLAPS

Version == [text : Texts, base : 0 .. MaxVersions]

(* Everything a step relies on about the desk's rows.                      *)
DeskRows ==
  /\ item \in [Items -> [versions : Seq(Version), current : 0 .. MaxVersions]]
  /\ gate \in [Items -> [status : GateStatus, version : 0 .. MaxVersions]]
  /\ drawer \in [People -> Drawer]
  /\ timeout \subseteq Items
  /\ approvedAs \in [Items -> 0 .. MaxVersions]

(* The version a gate names is the newest one, and the current one.        *)
GateNamesNewest ==
  \A i \in Items : /\ item[i].current = Len(item[i].versions)
                   /\ gate[i].version = item[i].current

(* What a client shows is what it will send as the version it is for.      *)
DrawerShowsItsVersion == \A p \in People : drawer[p].version = drawer[p].shown

(* An approved gate was approved by someone who saw its version.           *)
ApprovedAsShown ==
  \A i \in Items : gate[i].status = "approved" => approvedAs[i] = gate[i].version

DeskInv ==
  /\ DeskRows
  /\ GateNamesNewest
  /\ DrawerShowsItsVersion
  /\ ApprovedAsShown
  /\ NoEditLost

-----------------------------------------------------------------------------
(* The base of every version of an item that gets one more version.        *)
\* Appending a version whose base is the length of the list keeps every
\* version's base one below its number, which is what NoEditLost asks.
LEMMA AppendedBase ==
  ASSUME NEW s \in Seq(Version), NEW v \in Version, v.base = Len(s),
         \A n \in DOMAIN s : s[n].base = n - 1
  PROVE  \A n \in DOMAIN Append(s, v) : Append(s, v)[n].base = n - 1
  <1> TAKE n \in DOMAIN Append(s, v)
  <1>1. CASE n = Len(s) + 1
    BY <1>1
  <1>2. CASE n \in DOMAIN s
    BY <1>2
  <1> QED BY <1>1, <1>2

\* The desk starts with no version, no gate and empty clients.
LEMMA DeskInitInv == DeskInit => DeskInv
  BY DeskAssumption DEF DeskInit, DeskInv, DeskRows, GateNamesNewest, GateStatus, Drawer,
     DrawerShowsItsVersion, ApprovedAsShown, NoEditLost

\* A new version: what it does to the rows of its item, and that it leaves the
\* others alone (create_content_item, edit_review_gate_content).
LEMMA NewVersionRows ==
  ASSUME DeskInv, NEW i \in Items, NEW text \in Texts, NEW base \in 0 .. MaxVersions,
         Len(item[i].versions) < MaxVersions, base = Len(item[i].versions),
         item' = NewVersion(i, text, base),
         NEW row, row.status \in GateStatus \ {"approved"}, row.version = item'[i].current,
         row = [status |-> row.status, version |-> row.version],
         gate' = [gate EXCEPT ![i] = row]
  PROVE  /\ item' \in [Items -> [versions : Seq(Version), current : 0 .. MaxVersions]]
         /\ gate' \in [Items -> [status : GateStatus, version : 0 .. MaxVersions]]
         /\ GateNamesNewest'
         /\ NoEditLost'
         /\ \A j \in Items : gate'[j].status = "approved" => gate'[j] = gate[j]
  <1> DEFINE v == [text |-> text, base |-> base]
  <1>1. v \in Version /\ v.base = Len(item[i].versions)
    BY DEF Version
  <1>2. /\ item[i].versions \in Seq(Version)
        /\ item'[i].versions = Append(item[i].versions, v)
        /\ item'[i].current = Len(item[i].versions) + 1
        /\ \A j \in Items \ {i} : item'[j] = item[j]
        /\ item' \in [Items -> [versions : Seq(Version), current : 0 .. MaxVersions]]
    <2>1. /\ item[i].versions \in Seq(Version)
          /\ item[i] \in [versions : Seq(Version), current : 0 .. MaxVersions]
      BY DEF DeskInv, DeskRows
    <2>2. /\ Append(item[i].versions, v) \in Seq(Version)
          /\ Len(item[i].versions) + 1 \in 0 .. MaxVersions
      BY <1>1, <2>1, DeskAssumption
    <2>3. item' = [item EXCEPT ![i] = [[item[i] EXCEPT !.versions = Append(item[i].versions, v)]
                                         EXCEPT !.current = Len(item[i].versions) + 1]]
      BY Zenon DEF NewVersion
    <2> HIDE DEF v
    <2>4. item'[i] = [versions |-> Append(item[i].versions, v),
                      current |-> Len(item[i].versions) + 1]
      BY <2>1, <2>3 DEF DeskInv, DeskRows
    <2>5. /\ \A j \in Items \ {i} : item'[j] = item[j]
          /\ item' \in [Items -> [versions : Seq(Version), current : 0 .. MaxVersions]]
      <3> DEFINE new == [[item[i] EXCEPT !.versions = Append(item[i].versions, v)]
                           EXCEPT !.current = Len(item[i].versions) + 1]
      <3>1. item' = [item EXCEPT ![i] = new] /\ item'[i] = new
        BY <2>3 DEF DeskInv, DeskRows
      <3>2. new \in [versions : Seq(Version), current : 0 .. MaxVersions]
        BY <2>1, <2>2
      <3> HIDE DEF new
      <3> QED BY <3>1, <3>2 DEF DeskInv, DeskRows
    <2> QED BY <2>1, <2>4, <2>5
  <1>3. NoEditLost'
    <2>1. \A n \in DOMAIN item'[i].versions : item'[i].versions[n].base = n - 1
      BY <1>1, <1>2, AppendedBase DEF DeskInv, NoEditLost
    <2>2. \A j \in Items \ {i} :
            \A n \in DOMAIN item'[j].versions : item'[j].versions[n].base = n - 1
      <3> TAKE j \in Items \ {i}
      <3>1. item'[j] = item[j] /\ j \in Items
        BY <1>2
      <3> QED BY <3>1 DEF DeskInv, NoEditLost
    <2> QED BY <2>1, <2>2 DEF NoEditLost
  <1>4. GateNamesNewest'
    BY <1>1, <1>2 DEF DeskInv, DeskRows, GateNamesNewest
  <1>5. gate' \in [Items -> [status : GateStatus, version : 0 .. MaxVersions]]
    BY <1>2 DEF DeskInv, DeskRows
  <1> QED BY <1>2, <1>3, <1>4, <1>5 DEF DeskInv, DeskRows

\* Every request at the desk keeps the invariant.
LEMMA DeskStep == DeskInv /\ DeskNext => DeskInv'
  <1> SUFFICES ASSUME DeskInv, DeskNext PROVE DeskInv'
    OBVIOUS
  <1> USE DeskAssumption DEF DeskInv, DeskRows
  <1>1. ASSUME NEW i \in Items, NEW text \in Texts, CreateItem(i, text) PROVE DeskInv'
    <2>1. Len(item[i].versions) < MaxVersions /\ 0 = Len(item[i].versions)
      BY <1>1 DEF CreateItem
    <2> DEFINE row == [status |-> "awaiting", version |-> item'[i].current]
    <2>2. /\ row.status \in GateStatus \ {"approved"} /\ row.version = item'[i].current
          /\ row = [status |-> row.status, version |-> row.version]
          /\ 0 \in 0 .. MaxVersions
      BY DEF GateStatus
    <2>3. /\ item' = NewVersion(i, text, 0)
          /\ gate' = [gate EXCEPT ![i] = row]
          /\ UNCHANGED <<drawer, publication, timeout, approvedAs>>
      BY <1>1 DEF CreateItem
    <2>4. /\ item' \in [Items -> [versions : Seq(Version), current : 0 .. MaxVersions]]
          /\ gate' \in [Items -> [status : GateStatus, version : 0 .. MaxVersions]]
          /\ GateNamesNewest' /\ NoEditLost'
          /\ \A j \in Items : gate'[j].status = "approved" => gate'[j] = gate[j]
      BY <2>1, <2>2, <2>3, NewVersionRows
    <2> QED BY <2>3, <2>4 DEF ApprovedAsShown, DrawerShowsItsVersion
  <1>2. ASSUME NEW i \in Items, ReadTimeout(i) \/ WriteTimeout(i) PROVE DeskInv'
    <2>1. CASE ReadTimeout(i)
      BY <2>1 DEF ReadTimeout, GateNamesNewest, NoEditLost, ApprovedAsShown,
         DrawerShowsItsVersion
    <2>2. CASE WriteTimeout(i)
      <3>1. /\ gate' = [gate EXCEPT ![i].status = "escalated"]
            /\ timeout' = timeout \ {i}
            /\ UNCHANGED <<item, drawer, approvedAs>>
        BY <2>2 DEF WriteTimeout
      <3>2. DeskRows' /\ GateNamesNewest' /\ ApprovedAsShown'
        BY <3>1 DEF GateStatus, GateNamesNewest, ApprovedAsShown
      <3> QED BY <3>1, <3>2 DEF NoEditLost, DrawerShowsItsVersion
    <2> QED BY <1>2, <2>1, <2>2
  <1>3. ASSUME NEW i \in Items, NEW p \in People, GetReviewGate(p, i) PROVE DeskInv'
    BY <1>3 DEF GetReviewGate, GateRow, Drawer, GateNamesNewest, NoEditLost,
       ApprovedAsShown, DrawerShowsItsVersion
  <1>4. ASSUME NEW i \in Items, NEW q \in SupportedPlatforms, NEW g \in Items \cup {NoItem},
               NEW complete \in BOOLEAN, Attest(i, q, g, complete)
        PROVE  DeskInv'
    BY <1>4 DEF Attest, GateNamesNewest, NoEditLost, ApprovedAsShown, DrawerShowsItsVersion
  <1>5. ASSUME NEW p \in People, NEW text \in Texts, EditReviewGate(p, text) PROVE DeskInv'
    <2> DEFINE i == drawer[p].on
               row == [gate[i] EXCEPT !.version = item'[i].current]
    <2>1. i \in Items
      BY <1>5 DEF EditReviewGate, Drawer
    <2>2. /\ gate[i].status = "awaiting"
          /\ Len(item[i].versions) < MaxVersions
          /\ drawer[p].shown = Len(item[i].versions)
          /\ drawer[p].shown \in 0 .. MaxVersions
      BY <1>5, <2>1 DEF EditReviewGate, GateNamesNewest, DrawerShowsItsVersion, Drawer
    <2>3. /\ item' = NewVersion(i, text, drawer[p].shown)
          /\ gate' = [gate EXCEPT ![i] = row]
      BY <1>5, Zenon DEF EditReviewGate
    <2>4. /\ row.status \in GateStatus \ {"approved"} /\ row.version = item'[i].current
          /\ row = [status |-> row.status, version |-> row.version]
      BY <2>1, <2>2 DEF GateStatus
    <2>5. /\ item' \in [Items -> [versions : Seq(Version), current : 0 .. MaxVersions]]
          /\ gate' \in [Items -> [status : GateStatus, version : 0 .. MaxVersions]]
          /\ GateNamesNewest' /\ NoEditLost'
          /\ \A j \in Items : gate'[j].status = "approved" => gate'[j] = gate[j]
      BY <2>1, <2>2, <2>3, <2>4, NewVersionRows
    <2>6. /\ drawer' = [drawer EXCEPT ![p].version = gate'[i].version,
                                      ![p].shown = item'[i].current]
          /\ UNCHANGED <<publication, timeout, approvedAs>>
      BY <1>5 DEF EditReviewGate
    <2>7. drawer' \in [People -> Drawer] /\ DrawerShowsItsVersion'
      <3> DEFINE new == [[drawer[p] EXCEPT !.version = gate'[i].version]
                           EXCEPT !.shown = item'[i].current]
      <3>1. drawer' = [drawer EXCEPT ![p] = new]
        <4> HIDE DEF i
        <4> QED BY <2>6, Zenon
      <3>2. new \in Drawer /\ new.version = new.shown
        <4>1. gate'[i].version = item'[i].current /\ item'[i].current \in 0 .. MaxVersions
          BY <2>1, <2>5 DEF GateNamesNewest
        <4>2. drawer[p] \in Drawer
          OBVIOUS
        <4> HIDE DEF i, DeskInv, DeskRows
        <4> QED BY <4>1, <4>2 DEF Drawer
      <3> HIDE DEF new
      <3> QED BY <3>1, <3>2 DEF DrawerShowsItsVersion
    <2> QED BY <2>5, <2>6, <2>7 DEF ApprovedAsShown
  <1>6. ASSUME NEW p \in People, NEW approved \in BOOLEAN, NEW pinned \in BOOLEAN,
               DecideReviewGate(p, approved, pinned)
        PROVE  DeskInv'
    <2> DEFINE i == drawer[p].on
    <2>1. i \in Items /\ drawer[p].shown \in 0 .. MaxVersions
      BY <1>6 DEF DecideReviewGate, Drawer
    <2>2. approved => drawer[p].shown = gate[i].version
      BY <1>6, <2>1 DEF DecideReviewGate, DrawerShowsItsVersion
    <2>3. /\ gate' = [gate EXCEPT ![i].status = IF approved THEN "approved" ELSE "rejected"]
          /\ approvedAs' = [approvedAs EXCEPT ![i] = IF approved THEN drawer[p].shown ELSE @]
          /\ UNCHANGED <<item, drawer, publication, timeout>>
      BY <1>6 DEF DecideReviewGate
    <2>4. DeskRows'
      BY <2>1, <2>3 DEF GateStatus
    <2>5. GateNamesNewest' /\ DrawerShowsItsVersion' /\ NoEditLost'
      BY <2>1, <2>3 DEF GateNamesNewest, DrawerShowsItsVersion, NoEditLost
    <2>6. ApprovedAsShown'
      BY <2>1, <2>2, <2>3 DEF ApprovedAsShown
    <2> QED BY <2>4, <2>5, <2>6
  <1> HIDE DEF DeskInv, DeskRows
  <1> QED BY <1>1, <1>2, <1>3, <1>4, <1>5, <1>6 DEF DeskNext

\* A step that leaves the desk alone keeps its invariant.
LEMMA DeskFrame == DeskInv /\ UNCHANGED deskVars => DeskInv'
  BY DEF DeskInv, DeskRows, deskVars, GateNamesNewest, DrawerShowsItsVersion,
     ApprovedAsShown, NoEditLost

\* The desk's invariant holds in every reachable state of the composition: of
\* edits, loads, decisions, attestations and late timeouts in any order.
THEOREM DeskInvariant == Spec => []DeskInv
  <1>1. Init => DeskInv
    BY DeskInitInv DEF Init
  <1>2. DeskInv /\ [Next]_vars => DeskInv'
    BY DeskStep, DeskFrame DEF Next, vars
  <1> QED BY <1>1, <1>2, PTL DEF Spec

\* Every edit was made on the version it replaced (edit_review_gate_content):
\* of two editors who loaded the same gate the second one's save is refused.
THEOREM EditsAreNotLost == Spec => []NoEditLost
  <1>1. DeskInv => NoEditLost
    BY DEF DeskInv
  <1> QED BY <1>1, DeskInvariant, PTL

\* Whatever assert_publishable lets through is the very version its approver
\* had on the screen (decide_review_gate, assert_publishable).
THEOREM WhatIsPublishedWasReviewed == Spec => []PublishableIsReviewed
  <1>1. DeskInv => PublishableIsReviewed
    BY DEF DeskInv, ApprovedAsShown, GateNamesNewest, PublishableIsReviewed, Publishable
  <1> QED BY <1>1, DeskInvariant, PTL
==============================================================================
