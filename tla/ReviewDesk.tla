----------------------------- MODULE ReviewDesk ------------------------------
(***************************************************************************)
(* People at the review desk: content items with their immutable versions, *)
(* the gate of each item, editors and reviewers who work from what their   *)
(* client loaded earlier, and the policy that decides what may be          *)
(* published (app/services/content_desk.py, publication_policy.py).        *)
(*                                                                         *)
(* A content job makes an item with a run and a gate of its own, so all    *)
(* three are named by the item.  The script of a version is its            *)
(* fingerprint.  An edit, a decision and a load are one transaction each,  *)
(* the first two under the gate's lock; the review timeout reads the gate  *)
(* without one and writes its status later.                                *)
(***************************************************************************)
EXTENDS Naturals, Sequences

CONSTANTS Items, People,
          Texts,            \* fingerprints of scripts
          SupportedPlatforms,
          MaxVersions,      \* bound: versions of an item
          NoItem, NoRow, NoText

ASSUME DeskAssumption == MaxVersions \in Nat \ {0}

VARIABLES item,             \* content_items with their content_versions
          gate,             \* review_gates
          drawer,           \* what each person's client has loaded
          publication,      \* publication_eligibility, by item and platform
          timeout,          \* items whose review timeout has read the gate
          approvedAs        \* the version the approver had before them

deskVars == <<item, gate, drawer, publication, timeout, approvedAs>>

GateStatus == {"none", "awaiting", "approved", "rejected", "escalated"}

(* content_version_id is the gate's, the script is the item's current one. *)
Drawer == [on : Items \cup {NoItem}, version : 0 .. MaxVersions, shown : 0 .. MaxVersions]

EligibilityRow == [gate : Items \cup {NoItem},
                   attested : BOOLEAN,       \* disclosure and rights
                   fingerprint : Texts \cup {NoText}]

DeskInit ==
  /\ item = [i \in Items |-> [versions |-> <<>>, current |-> 0]]
  /\ gate = [i \in Items |-> [status |-> "none", version |-> 0]]
  /\ drawer = [p \in People |-> [on |-> NoItem, version |-> 0, shown |-> 0]]
  /\ publication = [i \in Items |-> [q \in SupportedPlatforms |-> NoRow]]
  /\ timeout = {}
  /\ approvedAs = [i \in Items |-> 0]

(* A new row of content_versions, which becomes the current one.           *)
NewVersion(i, text, base) ==
  [item EXCEPT ![i].versions = Append(@, [text |-> text, base |-> base]),
               ![i].current = Len(item[i].versions) + 1]

(* The gate is opened with the version that is current.                    *)
CreateItem(i, text) ==
  /\ item[i].versions = <<>>
  /\ item' = NewVersion(i, text, 0)
  /\ gate' = [gate EXCEPT ![i] = [status |-> "awaiting", version |-> item'[i].current]]
  /\ UNCHANGED <<drawer, publication, timeout, approvedAs>>

GateRow(i) == [on |-> i, version |-> gate[i].version, shown |-> item[i].current]

GetReviewGate(p, i) ==
  /\ gate[i].status # "none"
  /\ drawer' = [drawer EXCEPT ![p] = GateRow(i)]
  /\ UNCHANGED <<item, gate, publication, timeout, approvedAs>>

(* Mutant: the version the editor started from is not compared.            *)
EditReviewGateUnchecked(p, text) ==
  LET i == drawer[p].on
  IN /\ i # NoItem
     /\ gate[i].status = "awaiting"
     /\ Len(item[i].versions) < MaxVersions
     /\ item' = NewVersion(i, text, drawer[p].shown)
     /\ gate' = [gate EXCEPT ![i].version = item'[i].current]
     /\ drawer' = [drawer EXCEPT ![p].version = gate'[i].version, ![p].shown = item'[i].current]
     /\ UNCHANGED <<publication, timeout, approvedAs>>

(* The fields left out keep the current version's value: the new text may  *)
(* be any.  The answer is the gate as it is now.                           *)
EditReviewGate(p, text) ==
  LET i == drawer[p].on
  IN /\ i # NoItem
     /\ gate[i].status = "awaiting"
     /\ drawer[p].version = gate[i].version
     /\ Len(item[i].versions) < MaxVersions
     /\ item' = NewVersion(i, text, drawer[p].shown)
     /\ gate' = [gate EXCEPT ![i].version = item'[i].current]
     /\ drawer' = [drawer EXCEPT ![p].version = gate'[i].version, ![p].shown = item'[i].current]
     /\ UNCHANGED <<publication, timeout, approvedAs>>

(* Mutant: an approval is not pinned to the version that was loaded.       *)
DecideReviewGateUnpinned(p, approved, pinned) ==
  LET i == drawer[p].on
  IN /\ i # NoItem
     /\ gate[i].status = "awaiting"
     /\ gate' = [gate EXCEPT ![i].status = IF approved THEN "approved" ELSE "rejected"]
     /\ approvedAs' = [approvedAs EXCEPT ![i] = IF approved THEN drawer[p].shown ELSE @]
     /\ UNCHANGED <<item, drawer, publication, timeout>>

(* An approval names the version it is for, a rejection may.  One that     *)
(* cannot be delivered is rolled back.                                     *)
DecideReviewGate(p, approved, pinned) ==
  LET i == drawer[p].on
  IN /\ i # NoItem
     /\ gate[i].status = "awaiting"
     /\ approved => pinned
     /\ pinned => drawer[p].version = gate[i].version
     /\ gate' = [gate EXCEPT ![i].status = IF approved THEN "approved" ELSE "rejected"]
     /\ approvedAs' = [approvedAs EXCEPT ![i] = IF approved THEN drawer[p].shown ELSE @]
     /\ UNCHANGED <<item, drawer, publication, timeout>>

(* handle_review_timeout; for a gate that is not awaiting it does nothing. *)
ReadTimeout(i) ==
  /\ gate[i].status = "awaiting" /\ i \notin timeout
  /\ timeout' = timeout \cup {i}
  /\ UNCHANGED <<item, gate, drawer, publication, approvedAs>>

WriteTimeout(i) ==
  /\ i \in timeout
  /\ gate' = [gate EXCEPT ![i].status = "escalated"]
  /\ timeout' = timeout \ {i}
  /\ UNCHANGED <<item, drawer, publication, approvedAs>>

(* An attestation: a row is opened, naming any gate or none, and completed *)
(* by someone who takes the fingerprint of the script as it is then.       *)
Attest(i, q, g, complete) ==
  /\ item[i].versions # <<>>
  /\ publication' = [publication EXCEPT ![i][q] =
       [gate |-> g, attested |-> complete,
        fingerprint |-> IF complete THEN item[i].versions[item[i].current].text ELSE NoText]]
  /\ UNCHANGED <<item, gate, drawer, timeout, approvedAs>>

(* assert_publishable raises nothing.  The run of a gate is the item's.    *)
Publishable(i, q) ==
  LET row == publication[i][q]
  IN /\ q \in SupportedPlatforms
     /\ row # NoRow
     /\ row.gate # NoItem
     /\ gate[row.gate].status = "approved"
     /\ row.gate = i
     /\ gate[i].version # 0 /\ gate[i].version = item[i].current
     /\ row.attested
     /\ row.fingerprint # NoText
     /\ \A j \in Items \ {i} : publication[j][q] # NoRow
                                 => publication[j][q].fingerprint # row.fingerprint

DeskNext ==
  \/ \E i \in Items :
       \/ \E text \in Texts : CreateItem(i, text)
       \/ ReadTimeout(i) \/ WriteTimeout(i)
       \/ \E p \in People : GetReviewGate(p, i)
       \/ \E q \in SupportedPlatforms, g \in Items \cup {NoItem}, complete \in BOOLEAN :
            Attest(i, q, g, complete)
  \/ \E p \in People :
       \/ \E text \in Texts : EditReviewGate(p, text)
       \/ \E approved, pinned \in BOOLEAN : DecideReviewGate(p, approved, pinned)

DeskTypeOK ==
  /\ \A i \in Items : Len(item[i].versions) <= MaxVersions /\ item[i].current \in 0 .. MaxVersions
  /\ gate \in [Items -> [status : GateStatus, version : 0 .. MaxVersions]]
  /\ drawer \in [People -> Drawer]
  /\ publication \in [Items -> [SupportedPlatforms -> EligibilityRow \cup {NoRow}]]
  /\ timeout \subseteq Items
  /\ approvedAs \in [Items -> 0 .. MaxVersions]

(***************************************************************************)
(* Properties                                                              *)
(***************************************************************************)
(* What may be published is the very version its approver had on the       *)
(* screen: no edit between the load and the approval or after it, no late  *)
(* timeout and no gate of another item lets another script through         *)
(* (decide_review_gate, edit_review_gate_content, assert_publishable).     *)
PublishableIsReviewed ==
  \A i \in Items, q \in SupportedPlatforms :
    Publishable(i, q) => approvedAs[i] = item[i].current

(* Every edit was made on the version it replaced: of two editors who      *)
(* loaded the same gate, the second one's save never drops the first one's *)
(* (edit_review_gate_content).                                             *)
NoEditLost ==
  \A i \in Items : \A n \in DOMAIN item[i].versions : item[i].versions[n].base = n - 1
==============================================================================
