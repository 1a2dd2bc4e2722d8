------------------------------- MODULE Leads -------------------------------
(***************************************************************************)
(* Who may still buy: carts that were left, one for each person however    *)
(* many forms that person filled in, and pre-orders of one product, one    *)
(* for each address.  A capture reads what matches its e-mail or its       *)
(* phone, writes the oldest and deletes the rest, each on its own; an      *)
(* order of the same person flips what is active in one command.           *)
(***************************************************************************)
EXTENDS Naturals, Sequences, FiniteSets, FiniteSetsExt

CONSTANTS
  Tab,           \* captures in flight
  Desk,          \* requests of the dashboard
  Email, Phone,
  DeskRegions,   \* the regions of each request's admin; empty: all
  Region,
  Unknown,       \* an identifier that is not known
  MaxCarts,      \* a bound: carts ever inserted
  MaxForms       \* a bound: captures, orders and pre-orders

ASSUME LeadsAssumption ==
  /\ MaxCarts \in Nat /\ MaxForms \in Nat
  /\ Unknown \notin Email \cup Phone
  /\ DeskRegions \in [Desk -> SUBSET Region]

VARIABLES
  carts,      \* as inserted, oldest first; a deleted one stays as Deleted
  tab,
  preorders,  \* by e-mail
  desk,
  forms,      \* what was sent so far
  overtaken   \* a capture wrote or deleted a cart that was not what it had read

leadsVars == <<carts, tab, preorders, desk, forms, overtaken>>

Deleted == [email |-> Unknown, phone |-> Unknown, full |-> FALSE, status |-> "deleted"]
Fresh == [at |-> "idle", email |-> Unknown, phone |-> Unknown, full |-> FALSE, saw |-> <<>>]
NoPreorder == [region |-> "none", status |-> "none"]
DeskAtRest == [at |-> "idle", email |-> Unknown, status |-> "none"]
Ids == DOMAIN carts
Stored(i) == carts[i].status # "deleted"

LeadsInit ==
  /\ carts = <<>>
  /\ tab = [t \in Tab |-> Fresh]
  /\ preorders = [e \in Email |-> NoPreorder]
  /\ desk = [d \in Desk |-> DeskAtRest]
  /\ forms = 0 /\ overtaken = FALSE

Sends == forms < MaxForms /\ forms' = forms + 1

(* The $or of the identifiers a form or an order has.                      *)
Matching(email, phone) ==
  {i \in Ids : /\ Stored(i)
               /\ \/ email # Unknown /\ carts[i].email = email
                  \/ phone # Unknown /\ carts[i].phone = phone}

Known(id, otherwise) == IF id # Unknown THEN id ELSE otherwise
-----------------------------------------------------------------------------
(* A capture *)

BeginCapture(t, email, phone, full) ==
  /\ tab[t].at = "idle" /\ Sends
  /\ email # Unknown \/ phone # Unknown
  /\ tab' = [tab EXCEPT ![t] = [at |-> "read", email |-> email, phone |-> phone, full |-> full,
                                saw |-> [i \in Matching(email, phone) |-> carts[i]]]]
  /\ UNCHANGED <<carts, preorders, desk, overtaken>>

InsertCart(t) ==
  /\ tab[t].at = "read" /\ tab[t].saw = <<>> /\ Len(carts) < MaxCarts
  /\ carts' = Append(carts, [email |-> tab[t].email, phone |-> tab[t].phone,
                             full |-> tab[t].full, status |-> "active"])
  /\ overtaken' = (overtaken \/ Matching(tab[t].email, tab[t].phone) # {})
  /\ tab' = [tab EXCEPT ![t] = Fresh]
  /\ UNCHANGED <<preorders, desk, forms>>

Survivor(t) == Min(DOMAIN tab[t].saw)
Duplicates(t) == DOMAIN tab[t].saw \ {Survivor(t)}
StillAsSeen(t) ==
  /\ Matching(tab[t].email, tab[t].phone) = DOMAIN tab[t].saw
  /\ \A i \in DOMAIN tab[t].saw : carts[i] = tab[t].saw[i]

(* The oldest duplicate that knows what neither the form nor the survivor  *)
(* does.                                                                   *)
Carried(t, field) ==
  LET knowing == {i \in Duplicates(t) : tab[t].saw[i][field] # Unknown}
  IN IF knowing = {} THEN Unknown ELSE tab[t].saw[Min(knowing)][field]

(* What is not sent is left as it is.  (MergedAnew: a mutant that takes a  *)
(* captured cart for one that was left again.)                             *)
MergedAnew(t) == [email |-> tab[t].email, phone |-> tab[t].phone, full |-> tab[t].full, status |-> "active"]

Merged(t) ==
  LET s == tab[t].saw[Survivor(t)]
      now == carts[Survivor(t)]
  IN [email  |-> Known(tab[t].email, IF s.email = Unknown THEN Known(Carried(t, "email"), now.email) ELSE now.email),
      phone  |-> Known(tab[t].phone, IF s.phone = Unknown THEN Known(Carried(t, "phone"), now.phone) ELSE now.phone),
      full   |-> tab[t].full \/ now.full,
      status |-> s.status]

Update(t) ==
  /\ tab[t].at = "read" /\ tab[t].saw # <<>>
  /\ carts' = IF Stored(Survivor(t)) THEN [carts EXCEPT ![Survivor(t)] = Merged(t)] ELSE carts
  /\ overtaken' = (overtaken \/ ~StillAsSeen(t))
  /\ tab' = [tab EXCEPT ![t] = IF Duplicates(t) = {} THEN Fresh ELSE [@ EXCEPT !.at = "folding"]]
  /\ UNCHANGED <<preorders, desk, forms>>

Fold(t) ==
  /\ tab[t].at = "folding"
  /\ carts' = [i \in Ids |-> IF i \in Duplicates(t) THEN Deleted ELSE carts[i]]
  /\ overtaken' = (overtaken \/ \E i \in Duplicates(t) : carts[i] # tab[t].saw[i])
  /\ tab' = [tab EXCEPT ![t] = Fresh]
  /\ UNCHANGED <<preorders, desk, forms>>

(* mark_converted, when an order of that person is saved.                  *)
Order(email, phone) ==
  /\ Sends
  /\ email # Unknown \/ phone # Unknown
  /\ carts' = [i \in Ids |-> IF i \in Matching(email, phone) /\ carts[i].status = "active"
                             THEN [carts[i] EXCEPT !.status = "converted"] ELSE carts[i]]
  /\ UNCHANGED <<tab, preorders, desk, overtaken>>
-----------------------------------------------------------------------------
(* Pre-orders: one row for an address, however often it is sent; what a    *)
(* desk made of it stays.                                                  *)

Preorder(email, region) ==
  /\ Sends
  /\ preorders' = [preorders EXCEPT ![email].region = region,
                                    ![email].status = IF @ = "none" THEN "new" ELSE @]
  /\ UNCHANGED <<carts, tab, desk, overtaken>>

Allows(d, region) == DeskRegions[d] = {} \/ region \in DeskRegions[d]

OpenPreorder(d, email, status) ==
  /\ desk[d].at = "idle" /\ Sends
  /\ preorders[email] # NoPreorder /\ Allows(d, preorders[email].region)
  /\ desk' = [desk EXCEPT ![d] = [at |-> "open", email |-> email, status |-> status]]
  /\ UNCHANGED <<carts, tab, preorders, overtaken>>

SetStatus(d) ==
  /\ desk[d].at = "open"
  /\ preorders' = [preorders EXCEPT ![desk[d].email].status = desk[d].status]
  /\ desk' = [desk EXCEPT ![d] = DeskAtRest]
  /\ UNCHANGED <<carts, tab, forms, overtaken>>

LeadsNext ==
  \/ \E t \in Tab :
       \/ \E email \in Email \cup {Unknown}, phone \in Phone \cup {Unknown}, full \in BOOLEAN :
            BeginCapture(t, email, phone, full)
       \/ InsertCart(t) \/ Update(t) \/ Fold(t)
  \/ \E email \in Email \cup {Unknown}, phone \in Phone \cup {Unknown} : Order(email, phone)
  \/ \E email \in Email, region \in Region : Preorder(email, region)
  \/ \E d \in Desk :
       \/ \E email \in Email, status \in {"notified", "converted"} : OpenPreorder(d, email, status)
       \/ SetStatus(d)

LeadsSpec == LeadsInit /\ [][LeadsNext]_leadsVars
-----------------------------------------------------------------------------
(* Properties *)

(* Carts, tabs and pre-orders are in their types; a stored cart is known by *)
(* an e-mail or a phone.                                                   *)
LeadsTypeOK ==
  /\ \A i \in Ids : /\ carts[i].email \in Email \cup {Unknown} /\ carts[i].phone \in Phone \cup {Unknown}
                    /\ Stored(i) => carts[i].email # Unknown \/ carts[i].phone # Unknown
  /\ \A t \in Tab : tab[t].at \in {"idle", "read", "folding"} /\ DOMAIN tab[t].saw \subseteq Ids
  /\ \A e \in Email : preorders[e].region \in Region \cup {"none"}

Folding(i) == \E t \in Tab : tab[t].at = "folding" /\ i \in Duplicates(t)

(* One document per person: no two carts share an e-mail or a phone, but   *)
(* for those about to be folded, or once a capture wrote on what was no    *)
(* longer so.                                                              *)
OneCartPerPerson ==
  ~overtaken =>
    \A i, j \in Ids : i # j /\ Stored(i) /\ Stored(j) /\ ~Folding(i) /\ ~Folding(j) =>
      /\ carts[i].email = carts[j].email => carts[i].email = Unknown
      /\ carts[i].phone = carts[j].phone => carts[i].phone = Unknown

(* What an order closed stays closed, whatever is captured later, but for  *)
(* a capture that had read the cart as active.                             *)
ConvertedStays ==
  [][\A i \in Ids : carts[i].status = "converted" => carts'[i].status # "active" \/ overtaken']_leadsVars

(* An admin of a region sets the status of pre-orders of that region.      *)
DeskStaysInItsRegions ==
  [][\A e \in Email : \A d \in Desk :
       desk[d].at = "open" /\ desk[d].email = e /\ desk'[d].at = "idle" => Allows(d, preorders[e].region)]_leadsVars
=============================================================================
