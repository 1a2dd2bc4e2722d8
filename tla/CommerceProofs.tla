--------------------------- MODULE CommerceProofs ---------------------------
(* Proofs about the components of MCCommerce.  A behaviour runs one of     *)
(* them; each has an invariant of its own that its steps keep, and that    *)
(* the steps of the others keep by leaving its variables alone.            *)
EXTENDS MCCommerce, FiniteSetTheorems, WellFoundedInduction, TLAPS
-----------------------------------------------------------------------------
(* Abandoned carts and pre-orders: while no step wrote on what it had read *)
(* as something else, no two carts that stand share an identifier.         *)

(* A set of naturals has a least element: the smallest of the intervals    *)
(* from 0 to one of its elements.                                          *)
LEMMA LeastExists ==
  ASSUME NEW S \in SUBSET Nat, S # {}
  PROVE  Min(S) \in S /\ \A y \in S : Min(S) <= y
<1> DEFINE Below == {0 .. n : n \in S}
<1>1. IsWellFoundedOn(StrictSubsetOrdering(Nat), FiniteSubsetsOf(Nat))
  BY FS_StrictSubsetOrderingWellFounded
<1>2. \A n \in Nat : 0 .. n \in FiniteSubsetsOf(Nat)
  BY FS_Interval DEF FiniteSubsetsOf
<1>3. Below \subseteq FiniteSubsetsOf(Nat) /\ Below # {}
  BY <1>2
<1>4. PICK X \in Below : \A Y \in Below : ~(<<Y, X>> \in StrictSubsetOrdering(Nat))
  BY <1>1, <1>3, WFMin, Zenon
<1>5. PICK m \in S : X = 0 .. m
  OBVIOUS
<1>6. ASSUME NEW y \in S PROVE m <= y
  <2>1. ~(<<0 .. y, 0 .. m>> \in StrictSubsetOrdering(Nat))
    BY <1>4, <1>5
  <2>2. 0 .. y \in SUBSET Nat /\ 0 .. m \in SUBSET Nat
    OBVIOUS
  <2>3. ~(0 .. y \subseteq 0 .. m /\ 0 .. y # 0 .. m)
    BY <2>1, <2>2 DEF StrictSubsetOrdering
  <2>4. QED
    BY <2>3
<1>7. QED
  BY <1>6 DEF Min

LEMMA FromNothing == ASSUME NEW f, NEW T, f \in [{} -> T] PROVE f = <<>>
OBVIOUS

AnEmail == Email \cup {Unknown}
APhone == Phone \cup {Unknown}
ACart == [email : AnEmail, phone : APhone, full : BOOLEAN, status : {"active", "converted", "deleted"}]
Glimpses == UNION {[S -> ACart] : S \in SUBSET Nat}
ACapture == [at : {"idle", "read", "folding"}, email : AnEmail, phone : APhone, full : BOOLEAN, saw : Glimpses]

Rows ==
  /\ preorders \in [Email -> [region : Region \cup {"none"}, status : {"none", "new", "notified", "converted"}]]
  /\ desk \in [Desk -> [at : {"idle", "open"}, email : AnEmail, status : {"none", "notified", "converted"}]]
  /\ \A d \in Desk : desk[d].at = "open" => desk[d].email \in Email /\ desk[d].status # "none"

Captures ==
  /\ carts \in Seq(ACart) /\ tab \in [Tab -> ACapture] /\ overtaken \in BOOLEAN
  /\ \A i \in Ids : Stored(i) => carts[i].email # Unknown \/ carts[i].phone # Unknown
  /\ \A t \in Tab :
       /\ DOMAIN tab[t].saw \subseteq Ids
       /\ \A i \in DOMAIN tab[t].saw : tab[t].saw[i].status # "deleted"
       /\ tab[t].at # "idle" => tab[t].email # Unknown \/ tab[t].phone # Unknown
       /\ tab[t].at = "folding" => tab[t].saw # <<>>

LEMMA IdsAre == ASSUME carts \in Seq(ACart) PROVE Ids = 1 .. Len(carts) /\ Ids \subseteq Nat
BY DEF Ids

LEMMA GlimpseFits ==
  ASSUME NEW saw \in Glimpses
  PROVE  /\ DOMAIN saw \in SUBSET Nat /\ saw \in [DOMAIN saw -> ACart]
         /\ saw # <<>> => DOMAIN saw # {}
<1>1. PICK S \in SUBSET Nat : saw \in [S -> ACart]
  BY DEF Glimpses
<1>2. DOMAIN saw = S
  BY <1>1
<1>3. S = {} => saw = <<>>
  BY <1>1, FromNothing
<1>4. QED
  BY <1>1, <1>2, <1>3

LEMMA TheSurvivor ==
  ASSUME Captures, NEW t \in Tab, tab[t].saw # <<>>
  PROVE  /\ Survivor(t) \in DOMAIN tab[t].saw
         /\ DOMAIN tab[t].saw \in SUBSET Nat /\ tab[t].saw \in [DOMAIN tab[t].saw -> ACart]
         /\ Duplicates(t) \subseteq DOMAIN tab[t].saw /\ Survivor(t) \notin Duplicates(t)
<1>1. tab[t].saw \in Glimpses
  BY DEF Captures, ACapture
<1>2. DOMAIN tab[t].saw \in SUBSET Nat /\ tab[t].saw \in [DOMAIN tab[t].saw -> ACart] /\ DOMAIN tab[t].saw # {}
  BY <1>1, GlimpseFits
<1>3. Survivor(t) \in DOMAIN tab[t].saw
  BY <1>2, LeastExists DEF Survivor
<1>4. QED
  BY <1>2, <1>3 DEF Duplicates

(* What a form carries over from its duplicates is an identifier one of    *)
(* them had, and none only when none had one.                              *)
LEMMA CarriedFrom ==
  ASSUME Captures, NEW t \in Tab, tab[t].saw # <<>>, NEW field \in {"email", "phone"}
  PROVE  \/ /\ Carried(t, field) = Unknown
            /\ \A i \in Duplicates(t) : tab[t].saw[i][field] = Unknown
         \/ \E i \in Duplicates(t) : tab[t].saw[i][field] # Unknown /\ Carried(t, field) = tab[t].saw[i][field]
<1> DEFINE knowing == {i \in Duplicates(t) : tab[t].saw[i][field] # Unknown}
<1>1. knowing \in SUBSET Nat
  BY TheSurvivor
<1>2. CASE knowing = {}
  BY <1>2 DEF Carried
<1>3. CASE knowing # {}
  <2>1. Min(knowing) \in knowing
    BY <1>1, <1>3, LeastExists
  <2> HIDE DEF knowing
  <2>2. Carried(t, field) = tab[t].saw[Min(knowing)][field]
    BY <1>3 DEF Carried, knowing
  <2>3. QED
    BY <2>1, <2>2 DEF knowing
<1>4. QED
  BY <1>2, <1>3

LEMMA MergedFits ==
  ASSUME Captures, NEW t \in Tab, tab[t].saw # <<>>
  PROVE  /\ Merged(t) \in ACart
         /\ Merged(t).status = tab[t].saw[Survivor(t)].status
         /\ Stored(Survivor(t)) => Merged(t).email # Unknown \/ Merged(t).phone # Unknown
<1> DEFINE s == tab[t].saw[Survivor(t)]
           now == carts[Survivor(t)]
<1>1. s \in ACart /\ Survivor(t) \in Ids /\ tab[t] \in ACapture
  BY TheSurvivor DEF Captures
<1>2. now \in ACart
  BY <1>1, IdsAre DEF Captures
<1>3. Carried(t, "email") \in AnEmail /\ Carried(t, "phone") \in APhone
  <2>1. \A i \in Duplicates(t) : tab[t].saw[i] \in ACart
    BY TheSurvivor
  <2>2. QED
    BY <2>1, CarriedFrom DEF ACart, AnEmail, APhone
<1>4. Merged(t).status = s.status /\ s.status \in {"active", "converted", "deleted"}
  BY <1>1 DEF Merged, ACart
<1>5. Merged(t).email \in AnEmail /\ Merged(t).phone \in APhone
  <2> HIDE DEF s, now
  <2>1. /\ Merged(t).email = Known(tab[t].email, IF s.email = Unknown THEN Known(Carried(t, "email"), now.email) ELSE now.email)
        /\ Merged(t).phone = Known(tab[t].phone, IF s.phone = Unknown THEN Known(Carried(t, "phone"), now.phone) ELSE now.phone)
    BY DEF Merged, s, now
  <2>2. tab[t].email \in AnEmail /\ tab[t].phone \in APhone /\ now.email \in AnEmail /\ now.phone \in APhone
    BY <1>1, <1>2 DEF ACapture, ACart
  <2>3. QED
    BY <1>3, <2>1, <2>2 DEF Known
<1>6. Merged(t).full \in BOOLEAN
  <2>1. tab[t].full \in BOOLEAN /\ now.full \in BOOLEAN
    BY <1>1, <1>2 DEF ACapture, ACart
  <2>2. Merged(t).full = (tab[t].full \/ now.full)
    BY DEF Merged
  <2>3. QED
    BY <2>1, <2>2, Zenon
<1>7. Merged(t) \in ACart
  BY <1>4, <1>5, <1>6 DEF ACart, Merged
<1>8. Stored(Survivor(t)) => Merged(t).email # Unknown \/ Merged(t).phone # Unknown
  <2>1. SUFFICES ASSUME Stored(Survivor(t)) PROVE Merged(t).email # Unknown \/ Merged(t).phone # Unknown
    OBVIOUS
  <2>2. now.email # Unknown \/ now.phone # Unknown
    BY <1>1, <2>1 DEF Captures
  <2> HIDE DEF s, now
  <2>3. /\ Merged(t).email = Known(tab[t].email, IF s.email = Unknown THEN Known(Carried(t, "email"), now.email) ELSE now.email)
        /\ Merged(t).phone = Known(tab[t].phone, IF s.phone = Unknown THEN Known(Carried(t, "phone"), now.phone) ELSE now.phone)
    BY DEF Merged, s, now
  <2>4. QED
    BY <2>2, <2>3 DEF Known
<1>9. QED
  BY <1>4, <1>7, <1>8

LeadsTyped == Rows /\ Captures

LEMMA TypedCorrectly == LeadsTyped => LeadsTypeOK
<1> SUFFICES ASSUME LeadsTyped PROVE LeadsTypeOK
  OBVIOUS
<1>1. ASSUME NEW i \in Ids
      PROVE  /\ carts[i].email \in Email \cup {Unknown} /\ carts[i].phone \in Phone \cup {Unknown}
             /\ Stored(i) => carts[i].email # Unknown \/ carts[i].phone # Unknown
  <2>1. carts[i] \in ACart
    BY <1>1, IdsAre DEF LeadsTyped, Captures
  <2>2. QED
    BY <1>1, <2>1 DEF LeadsTyped, Captures, ACart, AnEmail, APhone
<1>2. \A t \in Tab : tab[t].at \in {"idle", "read", "folding"} /\ DOMAIN tab[t].saw \subseteq Ids
  BY DEF LeadsTyped, Captures, ACapture
<1>3. \A e \in Email : preorders[e].region \in Region \cup {"none"}
  BY DEF LeadsTyped, Rows
<1>4. QED
  BY <1>1, <1>2, <1>3 DEF LeadsTypeOK

LEMMA FreshFits == Fresh \in ACapture /\ DOMAIN Fresh.saw = {}
<1>1. <<>> \in [{} -> ACart] /\ DOMAIN <<>> = {}
  OBVIOUS
<1>2. <<>> \in Glimpses
  BY <1>1 DEF Glimpses
<1>3. QED
  BY <1>1, <1>2 DEF Fresh, ACapture, AnEmail, APhone

CaptureStep(t) ==
  \/ \E email \in AnEmail, phone \in APhone, full \in BOOLEAN : BeginCapture(t, email, phone, full)
  \/ InsertCart(t) \/ Update(t) \/ Fold(t)

LEMMA TypedInitially == LeadsInit => LeadsTyped
<1> SUFFICES ASSUME LeadsInit PROVE LeadsTyped
  OBVIOUS
<1> USE DEF LeadsInit
<1>1. Rows
  BY DEF Rows, NoPreorder, DeskAtRest, AnEmail
<1>2. Captures
  <2>1. carts \in Seq(ACart) /\ Ids = {}
    BY DEF Ids
  <2>2. tab \in [Tab -> ACapture] /\ \A t \in Tab : tab[t] = Fresh
    BY FreshFits
  <2>3. QED
    BY <2>1, <2>2, FreshFits DEF Captures, Fresh
<1>3. QED
  BY <1>1, <1>2 DEF LeadsTyped

LEMMA RowsInductive == Rows /\ [LeadsNext]_leadsVars => Rows'
<1> SUFFICES ASSUME Rows, [LeadsNext]_leadsVars PROVE Rows'
  OBVIOUS
<1> USE DEF Rows
<1>1. ASSUME NEW email \in Email, NEW region \in Region, Preorder(email, region)
      PROVE Rows'
  <2>1. preorders' \in [Email -> [region : Region \cup {"none"}, status : {"none", "new", "notified", "converted"}]]
    <3> DEFINE s == IF preorders[email].status = "none" THEN "new" ELSE preorders[email].status
    <3>1. s \in {"none", "new", "notified", "converted"}
      OBVIOUS
    <3>2. preorders' = [preorders EXCEPT ![email].region = region, ![email].status = s]
      BY <1>1 DEF Preorder
    <3> HIDE DEF s
    <3>3. QED
      BY <3>1, <3>2, ZenonT(30)
  <2>2. QED
    BY <1>1, <2>1 DEF Preorder
<1>2. ASSUME NEW d \in Desk, NEW email \in Email, NEW status \in {"notified", "converted"}, OpenPreorder(d, email, status)
      PROVE Rows'
  BY <1>2 DEF OpenPreorder, AnEmail
<1>3. ASSUME NEW d \in Desk, SetStatus(d)
      PROVE Rows'
  BY <1>3 DEF SetStatus, DeskAtRest, AnEmail
<1>4. CASE UNCHANGED <<preorders, desk>>
  BY <1>4
<1>5. ASSUME NEW t \in Tab, CaptureStep(t)
      PROVE Rows'
  BY <1>4, <1>5 DEF CaptureStep, BeginCapture, InsertCart, Update, Fold
<1>6. ASSUME NEW email, NEW phone, Order(email, phone) PROVE Rows'
  BY <1>4, <1>6 DEF Order
<1>7. CASE UNCHANGED leadsVars
  BY <1>4, <1>7 DEF leadsVars
<1>8. CASE LeadsNext
  <2>1. CASE \E t \in Tab : CaptureStep(t)
    BY <1>5, <2>1
  <2>2. CASE \E email \in AnEmail, phone \in APhone : Order(email, phone)
    BY <1>6, <2>2
  <2>3. CASE \E email \in Email, region \in Region : Preorder(email, region)
    BY <1>1, <2>3
  <2>4. CASE \E d \in Desk : \/ \E email \in Email, status \in {"notified", "converted"} : OpenPreorder(d, email, status)
                             \/ SetStatus(d)
    BY <1>2, <1>3, <2>4
  <2>5. QED
    BY <1>8, <2>1, <2>2, <2>3, <2>4, Zenon DEF LeadsNext, CaptureStep, AnEmail, APhone
<1>9. QED
  BY <1>7, <1>8

(* The ways in which a step of a capture ends: with its tab as it was made *)
(* at first, or told to fold.                                              *)
LEMMA CapturesInductive == LeadsTyped /\ [LeadsNext]_leadsVars => Captures'
<1> SUFFICES ASSUME LeadsTyped, [LeadsNext]_leadsVars PROVE Captures'
  OBVIOUS
<1> USE DEF LeadsTyped
<1>0. Ids = 1 .. Len(carts) /\ Ids \subseteq Nat /\ \A i \in Ids : carts[i] \in ACart
  BY IdsAre DEF Captures
<1>1. ASSUME NEW t \in Tab, NEW email \in AnEmail, NEW phone \in APhone, NEW full \in BOOLEAN,
             BeginCapture(t, email, phone, full)
      PROVE  Captures'
  <2> DEFINE saw == [i \in Matching(email, phone) |-> carts[i]]
  <2>1. saw \in Glimpses /\ DOMAIN saw \subseteq Ids /\ \A i \in DOMAIN saw : saw[i].status # "deleted"
    <3>1. Matching(email, phone) \in SUBSET Nat /\ Matching(email, phone) \subseteq Ids
      BY <1>0 DEF Matching
    <3>2. saw \in [Matching(email, phone) -> ACart]
      BY <1>0, <3>1
    <3>3. saw \in Glimpses
      BY <3>1, <3>2 DEF Glimpses
    <3>4. QED
      BY <3>1, <3>3 DEF Matching, Stored
  <2> HIDE DEF saw
  <2>2. tab' = [tab EXCEPT ![t] = [at |-> "read", email |-> email, phone |-> phone, full |-> full, saw |-> saw]]
    BY <1>1 DEF BeginCapture, saw
  <2>3. tab' \in [Tab -> ACapture]
    BY <2>1, <2>2 DEF Captures, ACapture
  <2>4. \A u \in Tab : u # t => tab'[u] = tab[u]
    BY <2>2 DEF Captures
  <2>5. tab'[t].saw = saw /\ tab'[t].at = "read" /\ tab'[t].email = email /\ tab'[t].phone = phone
    BY <2>2 DEF Captures
  <2>6. QED
    BY <1>1, <2>1, <2>3, <2>4, <2>5 DEF BeginCapture, Captures, Ids, Stored
<1>2. ASSUME NEW t \in Tab, tab' = [tab EXCEPT ![t] = Fresh] \/ UNCHANGED tab,
             carts' \in Seq(ACart), Ids \subseteq Ids', overtaken' \in BOOLEAN,
             \A i \in Ids' : carts'[i].status # "deleted" => carts'[i].email # Unknown \/ carts'[i].phone # Unknown
      PROVE  Captures'
  <2>1. \A u \in Tab : tab'[u] = tab[u] \/ tab'[u] = Fresh
    BY <1>2 DEF Captures
  <2>2. tab' \in [Tab -> ACapture]
    BY <1>2, FreshFits DEF Captures
  <2>3. QED
    BY <1>2, <2>1, <2>2, FreshFits DEF Captures, Stored, Fresh
<1>3. ASSUME NEW t \in Tab, InsertCart(t)
      PROVE  Captures'
  <2> DEFINE new == [email |-> tab[t].email, phone |-> tab[t].phone, full |-> tab[t].full, status |-> "active"]
  <2>1. new \in ACart /\ (new.email # Unknown \/ new.phone # Unknown)
    BY <1>3 DEF Captures, ACapture, ACart, InsertCart
  <2> HIDE DEF new
  <2>2. carts' = Append(carts, new)
    BY <1>3 DEF InsertCart, new
  <2>3. carts' \in Seq(ACart) /\ Ids' = 1 .. (Len(carts) + 1)
    BY <2>1, <2>2 DEF Captures, Ids
  <2>4. \A i \in Ids : carts'[i] = carts[i]
    BY <1>0, <2>2 DEF Captures
  <2>5. carts'[Len(carts) + 1] = new
    BY <2>2 DEF Captures
  <2>6. \A i \in Ids' : carts'[i].status # "deleted" => carts'[i].email # Unknown \/ carts'[i].phone # Unknown
    BY <1>0, <2>1, <2>3, <2>4, <2>5, SMTT(30) DEF Captures, Stored
  <2>7. overtaken' \in BOOLEAN
    BY <1>3, Zenon DEF InsertCart
  <2>8. Ids \subseteq Ids'
    BY <1>0, <2>3 DEF Captures
  <2>9. QED
    BY <1>2, <1>3, <2>3, <2>6, <2>7, <2>8 DEF InsertCart
<1>4. ASSUME NEW t \in Tab, Update(t)
      PROVE  Captures'
  <2>0. tab[t].saw # <<>>
    BY <1>4 DEF Update
  <2>1. Survivor(t) \in Ids /\ Merged(t) \in ACart
    BY <2>0, TheSurvivor, MergedFits DEF Captures
  <2>2. carts' \in Seq(ACart) /\ Ids' = Ids
    BY <1>0, <1>4, <2>1 DEF Update, Captures, Ids
  <2>3. \A i \in Ids' : carts'[i].status # "deleted" => carts'[i].email # Unknown \/ carts'[i].phone # Unknown
    <3>1. CASE ~Stored(Survivor(t))
      BY <1>4, <2>2, <3>1 DEF Update, Captures, Stored
    <3>2. CASE Stored(Survivor(t))
      <4>1. carts' = [carts EXCEPT ![Survivor(t)] = Merged(t)]
        BY <1>4, <3>2 DEF Update
      <4>2. QED
        BY <1>0, <2>0, <2>1, <2>2, <3>2, <4>1, MergedFits DEF Captures, Stored, Ids
    <3>3. QED
      BY <3>1, <3>2
  <2>4. overtaken' \in BOOLEAN
    BY <1>4, Zenon DEF Update
  <2>5. CASE Duplicates(t) = {}
    BY <1>2, <1>4, <2>2, <2>3, <2>4, <2>5 DEF Update
  <2>6. CASE Duplicates(t) # {}
    <3>1. tab' = [tab EXCEPT ![t] = [tab[t] EXCEPT !.at = "folding"]]
      BY <1>4, <2>6 DEF Update
    <3>2. tab' \in [Tab -> ACapture]
      BY <3>1 DEF Captures, ACapture
    <3>3. tab'[t].saw = tab[t].saw /\ tab'[t].email = tab[t].email /\ tab'[t].phone = tab[t].phone
      BY <3>1 DEF Captures, ACapture
    <3>4. \A u \in Tab : u # t => tab'[u] = tab[u]
      BY <3>1 DEF Captures
    <3>5. tab[t].at # "idle"
      BY <1>4 DEF Update
    <3>6. QED
      BY <2>0, <2>2, <2>3, <2>4, <3>2, <3>3, <3>4, <3>5 DEF Captures, Stored
  <2>7. QED
    BY <2>5, <2>6
<1>5. ASSUME NEW t \in Tab, Fold(t)
      PROVE  Captures'
  <2>1. carts' = [i \in Ids |-> IF i \in Duplicates(t) THEN Deleted ELSE carts[i]]
    BY <1>5 DEF Fold
  <2>2. Deleted \in ACart
    BY DEF Deleted, ACart, AnEmail, APhone
  <2>3. carts' \in Seq(ACart) /\ Ids' = Ids
    BY <1>0, <2>1, <2>2 DEF Captures, Ids
  <2>4. \A i \in Ids' : carts'[i].status # "deleted" => carts'[i].email # Unknown \/ carts'[i].phone # Unknown
    BY <2>1, <2>3 DEF Captures, Stored, Deleted
  <2>5. overtaken' \in BOOLEAN
    BY <1>5, Zenon DEF Fold
  <2>6. QED
    BY <1>2, <1>5, <2>3, <2>4, <2>5 DEF Fold
<1>6. ASSUME NEW email \in AnEmail, NEW phone \in APhone, Order(email, phone)
      PROVE  Captures'
  <2>1. carts' = [i \in Ids |-> IF i \in Matching(email, phone) /\ carts[i].status = "active"
                                THEN [carts[i] EXCEPT !.status = "converted"] ELSE carts[i]]
    BY <1>6 DEF Order
  <2>2. \A i \in Ids : [carts[i] EXCEPT !.status = "converted"] \in ACart
    BY <1>0 DEF ACart
  <2>3. carts' \in Seq(ACart) /\ Ids' = Ids
    BY <1>0, <2>1, <2>2 DEF Captures, Ids
  <2>4. ASSUME NEW i \in Ids
        PROVE  /\ carts'[i].status # "deleted" => Stored(i)
               /\ carts'[i].email = carts[i].email /\ carts'[i].phone = carts[i].phone
    BY <1>0, <2>1 DEF ACart, Stored
  <2>5. QED
    BY <1>6, <2>3, <2>4 DEF Order, Captures, Stored
<1>7. CASE UNCHANGED <<carts, tab, overtaken>>
  BY <1>7 DEF Captures, Ids, Stored
<1>8. QED
  BY <1>1, <1>3, <1>4, <1>5, <1>6, <1>7
     DEF LeadsNext, leadsVars, Preorder, OpenPreorder, SetStatus, AnEmail, APhone

(* Carts that stand are stored, and no capture is about to fold them; no   *)
(* two of them share an identifier that is known.                          *)
Idents == {"email", "phone"}
Standing(i) == Stored(i) /\ ~Folding(i)
Shares(i, j, f) == carts[i][f] = carts[j][f] /\ carts[i][f] # Unknown

Apart == \A f \in Idents, i, j \in Ids : i # j /\ Standing(i) /\ Standing(j) => ~Shares(i, j, f)

(* What a cart about to be folded knows, the carts it shares with know too. *)
Outlived ==
  \A f, g \in Idents, i, d \in Ids :
    f # g /\ Standing(i) /\ Stored(d) /\ Folding(d) /\ Shares(i, d, f) /\ carts[i][g] = Unknown => carts[d][g] = Unknown

(* The invariant of the carts.                                             *)
CartsApart == ~overtaken => Apart /\ Outlived

LEMMA ApartIsOneCart == LeadsTyped /\ CartsApart => OneCartPerPerson
<1> SUFFICES ASSUME LeadsTyped, CartsApart, ~overtaken,
                    NEW i \in Ids, NEW j \in Ids, i # j, Stored(i), Stored(j), ~Folding(i), ~Folding(j)
             PROVE  /\ carts[i].email = carts[j].email => carts[i].email = Unknown
                    /\ carts[i].phone = carts[j].phone => carts[i].phone = Unknown
  BY DEF OneCartPerPerson
<1>1. ~Shares(i, j, "email") /\ ~Shares(i, j, "phone")
  BY DEF CartsApart, Apart, Standing, Idents
<1>2. QED
  BY <1>1 DEF Shares

(* A step that leaves the identifiers of what stays, and takes no cart     *)
(* from those about to be folded but by deleting it.                       *)
LEMMA ApartStays ==
  ASSUME Apart, Outlived, Ids' = Ids,
         \A i \in Ids : Stored(i)' => /\ Stored(i) /\ Folding(i)' = Folding(i)
                                      /\ carts'[i].email = carts[i].email /\ carts'[i].phone = carts[i].phone
  PROVE  Apart' /\ Outlived'
<1>1. \A i \in Ids, f \in Idents : Stored(i)' => carts'[i][f] = carts[i][f]
  BY DEF Idents
<1>2. \A i \in Ids : Standing(i)' => Standing(i)
  BY DEF Standing
<1>3. Apart'
  BY <1>1, <1>2 DEF Apart, Shares, Standing
<1>4. Outlived'
  BY <1>1, <1>2 DEF Outlived, Shares, Standing
<1>5. QED
  BY <1>3, <1>4

LEMMA FoldingIs ==
  ASSUME NEW t \in Tab, \A u \in Tab : u # t => tab'[u] = tab[u], tab'[t].at # "folding", NEW i
  PROVE  Folding(i)' <=> \E u \in Tab \ {t} : tab[u].at = "folding" /\ i \in Duplicates(u)
<1>1. \A u \in Tab \ {t} : Duplicates(u)' = Duplicates(u)
  BY DEF Duplicates, Survivor
<1>2. QED
  BY <1>1 DEF Folding

LEMMA FoldingStays ==
  ASSUME NEW t \in Tab, \A u \in Tab : u # t => tab'[u] = tab[u],
         tab[t].at # "folding", tab'[t].at # "folding"
  PROVE  \A i : Folding(i)' = Folding(i)
<1> SUFFICES ASSUME NEW i PROVE Folding(i)' = Folding(i)
  OBVIOUS
<1>1. Folding(i)' <=> \E u \in Tab \ {t} : tab[u].at = "folding" /\ i \in Duplicates(u)
  BY FoldingIs
<1>2. Folding(i) <=> \E u \in Tab \ {t} : tab[u].at = "folding" /\ i \in Duplicates(u)
  BY DEF Folding
<1>3. Folding(i)' <=> Folding(i)
  BY <1>1, <1>2
<1>4. Folding(i) \in BOOLEAN /\ Folding(i)' \in BOOLEAN
  BY DEF Folding
<1>5. QED
  BY <1>3, <1>4

LEMMA BeginApart ==
  ASSUME LeadsTyped, Apart, Outlived, NEW t \in Tab, NEW email \in AnEmail, NEW phone \in APhone, NEW full \in BOOLEAN,
         BeginCapture(t, email, phone, full)
  PROVE  Apart' /\ Outlived'
<1>1. \A u \in Tab : u # t => tab'[u] = tab[u]
  BY DEF BeginCapture, LeadsTyped, Captures
<1>2. tab[t].at # "folding" /\ tab'[t].at # "folding" /\ carts' = carts
  BY DEF BeginCapture, LeadsTyped, Captures
<1>3. \A i : Folding(i)' = Folding(i)
  BY <1>1, <1>2, FoldingStays
<1>4. QED
  BY <1>2, <1>3, ApartStays DEF Ids, Stored

LEMMA OrderApart ==
  ASSUME LeadsTyped, Apart, Outlived, NEW email \in AnEmail, NEW phone \in APhone, Order(email, phone)
  PROVE  Apart' /\ Outlived'
<1>1. \A i : Folding(i)' = Folding(i)
  BY DEF Order, Folding, Duplicates, Survivor
<1>2. Ids' = Ids
  BY DEF Order, Ids
<1>3. ASSUME NEW i \in Ids
      PROVE  /\ Stored(i)' => Stored(i)
             /\ carts'[i].email = carts[i].email /\ carts'[i].phone = carts[i].phone
  <2>1. carts[i] \in ACart
    BY IdsAre DEF LeadsTyped, Captures
  <2>2. QED
    BY <2>1 DEF Order, Stored, ACart
<1>4. QED
  BY <1>1, <1>2, <1>3, ApartStays

LEMMA FoldApart ==
  ASSUME LeadsTyped, Apart, Outlived, NEW t \in Tab, Fold(t)
  PROVE  Apart' /\ Outlived'
<1>1. \A u \in Tab : u # t => tab'[u] = tab[u]
  BY DEF Fold, LeadsTyped, Captures
<1>2. tab'[t].at # "folding"
  BY DEF Fold, LeadsTyped, Captures, Fresh
<1>3. Ids' = Ids /\ \A i \in Ids : carts'[i] = IF i \in Duplicates(t) THEN Deleted ELSE carts[i]
  BY DEF Fold, Ids
<1>4. ASSUME NEW i \in Ids, Stored(i)'
      PROVE  Stored(i) /\ carts'[i] = carts[i] /\ Folding(i)' = Folding(i)
  <2>1. i \notin Duplicates(t)
    BY <1>3, <1>4 DEF Stored, Deleted
  <2>2. Folding(i)' <=> \E u \in Tab \ {t} : tab[u].at = "folding" /\ i \in Duplicates(u)
    BY <1>1, <1>2, FoldingIs
  <2>3. Folding(i) <=> \E u \in Tab \ {t} : tab[u].at = "folding" /\ i \in Duplicates(u)
    BY <2>1 DEF Folding
  <2>4. Folding(i) \in BOOLEAN /\ Folding(i)' \in BOOLEAN
    BY DEF Folding
  <2>5. QED
    BY <1>3, <1>4, <2>1, <2>2, <2>3, <2>4 DEF Stored
<1>5. QED
  BY <1>3, <1>4, ApartStays

LEMMA InsertApart ==
  ASSUME LeadsTyped, Apart, Outlived, NEW t \in Tab, InsertCart(t), ~overtaken'
  PROVE  Apart' /\ Outlived'
<1> DEFINE n == Len(carts) + 1
           new == [email |-> tab[t].email, phone |-> tab[t].phone, full |-> tab[t].full, status |-> "active"]
<1>1. /\ \A u \in Tab : u # t => tab'[u] = tab[u]
      /\ tab[t].at # "folding" /\ tab'[t].at # "folding"
  BY DEF InsertCart, LeadsTyped, Captures, Fresh
<1>2. \A i : Folding(i)' = Folding(i)
  BY <1>1, FoldingStays
<1>3. new \in ACart
  BY DEF LeadsTyped, Captures, ACapture, ACart
<1>4. Ids = 1 .. Len(carts) /\ Len(carts) \in Nat
  BY IdsAre DEF LeadsTyped, Captures
<1>5. carts' = Append(carts, new)
  BY DEF InsertCart
<1> HIDE DEF new
<1>6. Ids' = Ids \cup {n} /\ n \notin Ids /\ carts'[n] = new /\ \A i \in Ids : carts'[i] = carts[i]
  BY <1>3, <1>4, <1>5 DEF LeadsTyped, Captures, Ids
<1>7. ~Folding(n)
  BY <1>6 DEF Folding, Duplicates, LeadsTyped, Captures
<1> HIDE DEF n
<1>8. ASSUME NEW i \in Ids, Stored(i), NEW f \in Idents
      PROVE  carts[i][f] # new[f] \/ new[f] = Unknown
  <2>1. i \notin Matching(tab[t].email, tab[t].phone)
    BY Zenon DEF InsertCart
  <2>2. QED
    BY <1>8, <2>1 DEF Matching, Idents, new
<1>9. Apart'
  BY <1>2, <1>6, <1>8 DEF Apart, Standing, Stored, Shares
<1>10. Outlived'
  BY <1>2, <1>6, <1>7, <1>8 DEF Outlived, Standing, Stored, Shares
<1>11. QED
  BY <1>9, <1>10

(* What a capture writes when the carts are still as it read them: of each *)
(* identifier its own, or else the survivor's, or else a duplicate's.      *)
LEMMA MergedFrom ==
  ASSUME LeadsTyped, NEW t \in Tab, tab[t].saw # <<>>, StillAsSeen(t), NEW f \in Idents
  PROVE  IF tab[t][f] # Unknown THEN Merged(t)[f] = tab[t][f]
         ELSE IF carts[Survivor(t)][f] # Unknown THEN Merged(t)[f] = carts[Survivor(t)][f]
         ELSE \/ Merged(t)[f] = Unknown /\ \A i \in Duplicates(t) : carts[i][f] = Unknown
              \/ \E i \in Duplicates(t) : carts[i][f] # Unknown /\ Merged(t)[f] = carts[i][f]
<1> DEFINE s == tab[t].saw[Survivor(t)]
           now == carts[Survivor(t)]
<1>1. s = now /\ \A i \in Duplicates(t) : carts[i] = tab[t].saw[i]
  BY TheSurvivor DEF LeadsTyped, StillAsSeen
<1>2. Merged(t)[f] = Known(tab[t][f], IF s[f] = Unknown THEN Known(Carried(t, f), now[f]) ELSE now[f])
  BY DEF Merged, Idents
<1> HIDE DEF s, now
<1>3. CASE tab[t][f] # Unknown
  BY <1>2, <1>3 DEF Known
<1>4. CASE tab[t][f] = Unknown /\ now[f] # Unknown
  BY <1>1, <1>2, <1>4 DEF Known, now
<1>5. CASE tab[t][f] = Unknown /\ now[f] = Unknown
  <2>1. Merged(t)[f] = Known(Carried(t, f), Unknown)
    BY <1>1, <1>2, <1>5 DEF Known
  <2>2. Merged(t)[f] = Carried(t, f)
    BY <2>1 DEF Known
  <2>3. \/ Carried(t, f) = Unknown /\ \A i \in Duplicates(t) : tab[t].saw[i][f] = Unknown
        \/ \E i \in Duplicates(t) : tab[t].saw[i][f] # Unknown /\ Carried(t, f) = tab[t].saw[i][f]
    BY CarriedFrom DEF LeadsTyped, Idents
  <2>4. \/ Merged(t)[f] = Unknown /\ \A i \in Duplicates(t) : carts[i][f] = Unknown
        \/ \E i \in Duplicates(t) : carts[i][f] # Unknown /\ Merged(t)[f] = carts[i][f]
    BY <1>1, <2>2, <2>3
  <2>5. QED
    BY <1>5, <2>4 DEF now
<1>6. QED
  BY <1>3, <1>4, <1>5

(* The carts a form reaches, and those it does not.                        *)
LEMMA Reached ==
  ASSUME LeadsTyped, NEW t \in Tab, tab[t].at = "read", StillAsSeen(t)
  PROVE  /\ \A i \in DOMAIN tab[t].saw :
              /\ i \in Ids /\ Stored(i)
              /\ \E f \in Idents : tab[t][f] # Unknown /\ carts[i][f] = tab[t][f]
         /\ \A j \in Ids \ DOMAIN tab[t].saw : Stored(j) =>
              \A f \in Idents : tab[t][f] # Unknown => carts[j][f] # tab[t][f]
         /\ \A f, g \in Idents : f # g /\ tab[t][f] = Unknown =>
              tab[t][g] # Unknown /\ \A i \in DOMAIN tab[t].saw : carts[i][g] = tab[t][g]
<1>1. DOMAIN tab[t].saw = Matching(tab[t].email, tab[t].phone)
  BY DEF StillAsSeen
<1>2. tab[t].email # Unknown \/ tab[t].phone # Unknown
  BY DEF LeadsTyped, Captures
<1>3. QED
  BY <1>1, <1>2 DEF Matching, Idents

LEMMA UpdateApart ==
  ASSUME LeadsTyped, Apart, Outlived, NEW t \in Tab, Update(t), ~overtaken'
  PROVE  Apart' /\ Outlived'
<1> DEFINE u == Survivor(t)
           M == Merged(t)
           seen == DOMAIN tab[t].saw
           dups == Duplicates(t)
<1>1. tab[t].at = "read" /\ tab[t].saw # <<>>
  BY DEF Update
<1>2. StillAsSeen(t)
  BY Zenon DEF Update
<1>3. u \in seen /\ dups = seen \ {u}
  BY <1>1, TheSurvivor DEF LeadsTyped, Duplicates
<1>4. /\ \A i \in seen : i \in Ids /\ Stored(i)
      /\ \A j \in Ids \ seen : Stored(j) => \A f \in Idents : tab[t][f] # Unknown => carts[j][f] # tab[t][f]
      /\ \A f, g \in Idents : f # g /\ tab[t][f] = Unknown =>
           tab[t][g] # Unknown /\ \A i \in seen : carts[i][g] = tab[t][g]
      /\ \A i \in seen : \E f \in Idents : tab[t][f] # Unknown /\ carts[i][f] = tab[t][f]
  BY <1>1, <1>2, Reached
<1>5. \A f \in Idents :
        \/ tab[t][f] # Unknown /\ M[f] = tab[t][f]
        \/ tab[t][f] = Unknown /\ carts[u][f] # Unknown /\ M[f] = carts[u][f]
        \/ /\ tab[t][f] = Unknown /\ carts[u][f] = Unknown
           /\ \/ M[f] = Unknown /\ \A i \in dups : carts[i][f] = Unknown
              \/ \E i \in dups : carts[i][f] # Unknown /\ M[f] = carts[i][f]
  BY <1>1, <1>2, MergedFrom
<1>6. Ids' = Ids /\ carts'[u] = M /\ \A i \in Ids : i # u => carts'[i] = carts[i]
  <2>1. carts' = [carts EXCEPT ![u] = M]
    BY <1>3, <1>4 DEF Update
  <2>2. u \in 1 .. Len(carts)
    BY <1>3, <1>4, IdsAre DEF LeadsTyped, Captures
  <2>3. QED
    BY <2>1, <2>2 DEF Ids, LeadsTyped, Captures
<1>7. M.status # "deleted"
  <2>1. M.status = carts[u].status
    BY <1>1, <1>2, <1>3, MergedFits DEF LeadsTyped, StillAsSeen
  <2>2. QED
    BY <1>3, <1>4, <2>1 DEF Stored
<1>8. \A i \in Ids : Stored(i)' <=> Stored(i)
  BY <1>3, <1>4, <1>6, <1>7 DEF Stored
<1>9. \A i \in Ids : Folding(i)' <=> Folding(i) \/ i \in dups
  <2>1. \A v \in Tab : v # t => tab'[v] = tab[v]
    BY DEF Update, LeadsTyped, Captures
  <2>2. \A v \in Tab \ {t} : Duplicates(v)' = Duplicates(v) /\ tab'[v].at = tab[v].at
    BY <2>1 DEF Duplicates, Survivor
  <2>3. dups # {} => tab'[t].at = "folding" /\ tab'[t].saw = tab[t].saw
    BY DEF Update, LeadsTyped, Captures, ACapture
  <2>4. dups = {} => tab'[t].at = "idle"
    BY DEF Update, LeadsTyped, Captures, Fresh
  <2>5. dups # {} => Duplicates(t)' = dups
    BY <2>3 DEF Duplicates, Survivor
  <2>6. ASSUME NEW i \in Ids
        PROVE  Folding(i)' <=> Folding(i) \/ i \in dups
    <3>1. Folding(i)' <=> \/ tab'[t].at = "folding" /\ i \in Duplicates(t)'
                          \/ \E v \in Tab \ {t} : tab'[v].at = "folding" /\ i \in Duplicates(v)'
      BY DEF Folding
    <3>2. Folding(i) <=> \E v \in Tab \ {t} : tab[v].at = "folding" /\ i \in Duplicates(v)
      BY <1>1 DEF Folding
    <3>3. (tab'[t].at = "folding" /\ i \in Duplicates(t)') <=> i \in dups
      BY <2>3, <2>4, <2>5
    <3>4. QED
      BY <2>2, <3>1, <3>2, <3>3
  <2>7. QED
    BY <2>6
<1>10. \A i \in Ids : Standing(i)' => Standing(i) /\ i \notin dups /\ (i = u \/ i \notin seen)
  BY <1>3, <1>8, <1>9 DEF Standing
<1> HIDE DEF u, M, seen, dups
(* A duplicate that carries an identifier over to a survivor that stays.   *)
<1>11. ASSUME NEW f \in Idents, NEW g \in Idents, f # g, Standing(u),
              tab[t][f] = Unknown, carts[u][f] = Unknown, NEW d \in dups, carts[d][f] # Unknown
       PROVE  FALSE
  <2>1. d \in Ids /\ u \in Ids /\ d # u /\ Stored(d) /\ carts[u][g] = carts[d][g] /\ carts[u][g] # Unknown
    BY <1>3, <1>4, <1>11
  <2>2. Shares(u, d, g)
    BY <2>1 DEF Shares
  <2>3. Folding(d)
    BY <1>11, <2>1, <2>2 DEF Apart, Standing
  <2>4. QED
    BY <1>11, <2>1, <2>2, <2>3 DEF Outlived
<1>12. ASSUME NEW f \in Idents, NEW j \in Ids \ seen, Standing(j), Standing(u),
              M[f] = carts[j][f], M[f] # Unknown
       PROVE  FALSE
  <2>1. u \in Ids /\ u # j
    BY <1>3, <1>4, <1>12
  <2>2. Stored(j)
    BY <1>12 DEF Standing
  <2>3. tab[t][f] = Unknown
    BY <1>4, <1>5, <1>12, <2>2
  <2>4. ~Shares(u, j, f)
    BY <1>12, <2>1 DEF Apart
  <2>5. carts[u][f] = Unknown /\ \E i \in dups : carts[i][f] # Unknown
    BY <1>5, <1>12, <2>3, <2>4 DEF Shares
  <2>6. PICK g \in Idents : g # f
    BY DEF Idents
  <2>7. QED
    BY <1>11, <1>12, <2>3, <2>5, <2>6
<1>13. Apart'
  <2> SUFFICES ASSUME NEW f \in Idents, NEW i \in Ids, NEW j \in Ids, i # j,
                      Standing(i)', Standing(j)', Shares(i, j, f)'
               PROVE  FALSE
    BY <1>6 DEF Apart
  <2>1. Standing(i) /\ Standing(j) /\ (i = u \/ i \notin seen) /\ (j = u \/ j \notin seen)
    BY <1>10
  <2>2. CASE i # u /\ j # u
    BY <1>6, <2>1, <2>2 DEF Apart, Shares
  <2>3. CASE i = u
    BY <1>6, <1>12, <2>1, <2>3 DEF Shares
  <2>4. CASE j = u
    BY <1>6, <1>12, <2>1, <2>4 DEF Shares
  <2>5. QED
    BY <2>2, <2>3, <2>4
<1>14. Outlived'
  <2> SUFFICES ASSUME NEW f \in Idents, NEW g \in Idents, NEW i \in Ids, NEW d \in Ids, f # g,
                      Standing(i)', Stored(d)', Folding(d)', Shares(i, d, f)', carts'[i][g] = Unknown,
                      carts'[d][g] # Unknown
               PROVE  FALSE
    BY <1>6 DEF Outlived
  <2>1. Standing(i) /\ Stored(d) /\ (Folding(d) \/ d \in dups) /\ i \notin dups /\ (i = u \/ i \notin seen) /\ i # d
    BY <1>8, <1>9, <1>10 DEF Standing
  <2>2. CASE i = u
    <3>1. M[g] = Unknown /\ tab[t][g] = Unknown /\ carts[u][g] = Unknown /\ \A k \in dups : carts[k][g] = Unknown
      BY <1>5, <1>6, <2>2
    <3>2. tab[t][f] # Unknown /\ M[f] = tab[t][f] /\ carts[u][f] = tab[t][f]
      BY <1>3, <1>4, <1>5, <3>1
    <3>3. carts'[d] = carts[d] /\ Shares(u, d, f)
      BY <1>6, <2>1, <2>2, <3>2 DEF Shares
    <3>4. QED
      BY <2>1, <2>2, <3>1, <3>3 DEF Outlived
  <2>3. CASE i # u /\ d = u
    <3>1. i \in Ids \ seen /\ Folding(u) /\ M[f] = carts[i][f] /\ M[f] # Unknown /\ carts[i][g] = Unknown /\ M[g] # Unknown
      BY <1>3, <1>6, <2>1, <2>3 DEF Shares
    <3>2. tab[t][f] = Unknown
      BY <1>4, <1>5, <2>1, <3>1 DEF Standing
    <3>3. tab[t][g] # Unknown /\ \A k \in seen : carts[k][g] = tab[t][g]
      BY <1>4, <3>2
    <3>4. ~Shares(i, u, f)
      BY <1>3, <2>1, <2>3, <3>1, <3>3 DEF Outlived
    <3>5. PICK k \in dups : carts[k][f] # Unknown /\ M[f] = carts[k][f]
      BY <1>5, <3>1, <3>2, <3>4 DEF Shares
    <3>6. k \in seen /\ k \in Ids /\ Stored(k) /\ k # i /\ Shares(i, k, f) /\ carts[k][g] # Unknown
      BY <1>3, <1>4, <3>1, <3>3, <3>5 DEF Shares
    <3>7. Folding(k)
      BY <2>1, <3>6 DEF Apart, Standing
    <3>8. QED
      BY <2>1, <3>1, <3>6, <3>7 DEF Outlived
  <2>4. CASE i # u /\ d # u
    <3>1. carts'[i] = carts[i] /\ carts'[d] = carts[d] /\ Shares(i, d, f)
      BY <1>6, <2>4 DEF Shares
    <3>2. Folding(d)
      BY <2>1, <3>1 DEF Apart, Standing
    <3>3. QED
      BY <2>1, <3>1, <3>2 DEF Outlived
  <2>5. QED
    BY <2>2, <2>3, <2>4
<1>15. QED
  BY <1>13, <1>14

LeadsInv == LeadsTyped /\ CartsApart

LEMMA LeadsInitially == LeadsInit => LeadsInv
<1> SUFFICES ASSUME LeadsInit PROVE LeadsInv
  OBVIOUS
<1>1. Ids = {}
  BY DEF LeadsInit, Ids
<1>2. CartsApart
  BY <1>1 DEF CartsApart, Apart, Outlived
<1>3. QED
  BY <1>2, TypedInitially DEF LeadsInv

LEMMA LeadsInductive == LeadsInv /\ [LeadsNext]_leadsVars => LeadsInv'
<1> SUFFICES ASSUME LeadsInv, [LeadsNext]_leadsVars PROVE LeadsInv'
  OBVIOUS
<1>1. LeadsTyped /\ LeadsTyped'
  BY RowsInductive, CapturesInductive DEF LeadsInv, LeadsTyped
<1> SUFFICES ASSUME ~overtaken' PROVE Apart' /\ Outlived'
  BY <1>1 DEF LeadsInv, CartsApart
<1>2. ASSUME NEW t \in Tab, CaptureStep(t)
      PROVE  Apart' /\ Outlived'
  <2>1. ~overtaken
    BY <1>2, Zenon DEF CaptureStep, BeginCapture, InsertCart, Update, Fold
  <2>2. Apart /\ Outlived
    BY <2>1 DEF LeadsInv, CartsApart
  <2>3. ASSUME NEW email \in AnEmail, NEW phone \in APhone, NEW full \in BOOLEAN, BeginCapture(t, email, phone, full)
        PROVE  Apart' /\ Outlived'
    BY <1>1, <2>2, <2>3, BeginApart
  <2>4. CASE InsertCart(t)
    BY <1>1, <2>2, <2>4, InsertApart
  <2>5. CASE Update(t)
    BY <1>1, <2>2, <2>5, UpdateApart
  <2>6. CASE Fold(t)
    BY <1>1, <2>2, <2>6, FoldApart
  <2>7. QED
    BY <1>2, <2>3, <2>4, <2>5, <2>6 DEF CaptureStep
<1>3. ASSUME NEW email \in AnEmail, NEW phone \in APhone, Order(email, phone)
      PROVE  Apart' /\ Outlived'
  <2>1. Apart /\ Outlived
    BY <1>3 DEF Order, LeadsInv, CartsApart
  <2>2. QED
    BY <1>1, <1>3, <2>1, OrderApart
<1>4. CASE UNCHANGED <<carts, tab, overtaken>>
  <2>1. Apart /\ Outlived
    BY <1>4 DEF LeadsInv, CartsApart
  <2>2. Ids' = Ids /\ (\A i : Folding(i)' = Folding(i)) /\ \A i : Stored(i)' = Stored(i)
    BY <1>4 DEF Ids, Stored, Folding, Duplicates, Survivor
  <2>3. QED
    BY <1>4, <2>1, <2>2, ApartStays
<1>5. CASE LeadsNext
  <2>1. CASE \E t \in Tab : CaptureStep(t)
    BY <1>2, <2>1
  <2>2. CASE \E email \in AnEmail, phone \in APhone : Order(email, phone)
    BY <1>3, <2>2
  <2>3. CASE \/ \E email \in Email, region \in Region : Preorder(email, region)
             \/ \E d \in Desk : \/ \E email \in Email, status \in {"notified", "converted"} : OpenPreorder(d, email, status)
                                \/ SetStatus(d)
    BY <1>4, <2>3 DEF Preorder, OpenPreorder, SetStatus
  <2>4. QED
    BY <1>5, <2>1, <2>2, <2>3, Zenon DEF LeadsNext, CaptureStep, AnEmail, APhone
<1>6. QED
  BY <1>4, <1>5 DEF leadsVars

(* What an order closed is not reopened by a step, but for one that wrote on what it had read as something else. *)
LEMMA ClosedStays ==
  ASSUME LeadsTyped, [LeadsNext]_leadsVars, NEW i \in Ids, carts[i].status = "converted"
  PROVE  carts'[i].status # "active" \/ overtaken'
<1>1. Ids = 1 .. Len(carts) /\ Len(carts) \in Nat /\ carts[i] \in ACart
  BY IdsAre DEF LeadsTyped, Captures
<1>2. ASSUME NEW t \in Tab, CaptureStep(t)
      PROVE  carts'[i].status # "active" \/ overtaken'
  <2>1. CASE \E email \in AnEmail, phone \in APhone, full \in BOOLEAN : BeginCapture(t, email, phone, full)
    BY <2>1 DEF BeginCapture
  <2>2. CASE InsertCart(t)
    <3>1. carts'[i] = carts[i]
      BY <1>1, <2>2 DEF InsertCart, LeadsTyped, Captures
    <3>2. QED
      BY <3>1
  <2>3. CASE Update(t)
    <3> SUFFICES ASSUME ~overtaken' PROVE carts'[i].status = "converted"
      OBVIOUS
    <3>1. StillAsSeen(t) /\ tab[t].saw # <<>>
      BY <2>3, Zenon DEF Update
    <3>2. Survivor(t) \in DOMAIN tab[t].saw /\ Survivor(t) \in Ids
      BY <3>1, TheSurvivor DEF LeadsTyped, Captures
    <3>3. Merged(t).status = carts[Survivor(t)].status
      BY <3>1, <3>2, MergedFits DEF LeadsTyped, StillAsSeen
    <3>4. CASE i = Survivor(t)
      BY <1>1, <2>3, <3>2, <3>3, <3>4 DEF Update, LeadsTyped, Captures
    <3>5. CASE i # Survivor(t)
      BY <1>1, <2>3, <3>2, <3>5 DEF Update, LeadsTyped, Captures
    <3>6. QED
      BY <3>4, <3>5
  <2>4. CASE Fold(t)
    BY <2>4 DEF Fold, Deleted
  <2>5. QED
    BY <1>2, <2>1, <2>2, <2>3, <2>4, Zenon DEF CaptureStep
<1>3. ASSUME NEW email \in AnEmail, NEW phone \in APhone, Order(email, phone)
      PROVE  carts'[i].status # "active" \/ overtaken'
  BY <1>3 DEF Order
<1>4. CASE UNCHANGED carts
  BY <1>4
<1>5. CASE LeadsNext
  <2>1. CASE \E t \in Tab : CaptureStep(t)
    BY <1>2, <2>1
  <2>2. CASE \E email \in AnEmail, phone \in APhone : Order(email, phone)
    BY <1>3, <2>2
  <2>3. CASE \/ \E email \in Email, region \in Region : Preorder(email, region)
             \/ \E d \in Desk : \/ \E email \in Email, status \in {"notified", "converted"} : OpenPreorder(d, email, status)
                                \/ SetStatus(d)
    BY <1>4, <2>3 DEF Preorder, OpenPreorder, SetStatus
  <2>4. QED
    BY <1>5, <2>1, <2>2, <2>3, Zenon DEF LeadsNext, CaptureStep, AnEmail, APhone
<1>6. QED
  BY <1>4, <1>5 DEF leadsVars

-----------------------------------------------------------------------------
(* Guarded calls: a process lets its limit of callers inside, and its      *)
(* breaker counts failures that a window follows.                          *)

(* What a caller may be at.                                                *)
Spots == {"idle", "waiting", "gate", "calling", "clearing", "counting", "pausing", "windowing", "opening",
          "forgetting", "noticing", "resetting"}
Caller == [at : Spots, tries : 0 .. Retries, tripped : BOOLEAN]

GuardTyped ==
  /\ fails \in Nat /\ lapses \in BOOLEAN /\ open \in BOOLEAN /\ notice \in BOOLEAN /\ cut \in BOOLEAN
  /\ client \in [Client -> Caller]
  /\ left \in [Process -> Nat] /\ gauge \in [Process -> BOOLEAN]
  /\ \A c \in Client : client[c].at = "pausing" => client[c].tries < Retries

(* A process lets no more than its limit inside.                           *)
Crowd == \A p \in Process : IsFiniteSet(Inside(p)) /\ Cardinality(Inside(p)) <= Limit

GuardInv == GuardTyped /\ Crowd /\ FailuresLapseUnlessCut

LEMMA GuardCorrect == GuardInv => GuardTypeOK /\ FailuresLapseUnlessCut
BY DEF GuardInv, GuardTyped, Crowd, GuardTypeOK, Caller

LEMMA GuardInitially == GuardInit => GuardInv
<1> SUFFICES ASSUME GuardInit PROVE GuardInv
  OBVIOUS
<1> USE DEF GuardInit
<1>1. GuardTyped
  <2>1. Outside \in Caller /\ Outside.at = "idle"
    BY GuardedAssumption DEF Caller, Spots, Outside
  <2>2. fails \in Nat /\ left \in [Process -> Nat] /\ gauge \in [Process -> BOOLEAN]
    OBVIOUS
  <2>3. lapses \in BOOLEAN /\ open \in BOOLEAN /\ notice \in BOOLEAN /\ cut \in BOOLEAN
    BY Zenon
  <2>4. QED
    BY <2>1, <2>2, <2>3 DEF GuardTyped
<1>2. \A p \in Process : Inside(p) = {}
  BY DEF Inside, Outside
<1>3. Crowd
  BY GuardedAssumption, <1>2, FS_EmptySet DEF Crowd
<1>4. QED
  BY <1>1, <1>3 DEF GuardInv, FailuresLapseUnlessCut

(* One caller moves, or is answered, and nobody else does.                 *)
LEMMA CallerGoes ==
  ASSUME client \in [Client -> Caller], NEW c \in Client, NEW at \in Spots, Goes(c, at)
  PROVE  /\ client' \in [Client -> Caller] /\ client'[c].at = at /\ client'[c].tries = client[c].tries
         /\ \A d \in Client : d # c => client'[d] = client[d]
BY DEF Goes, Caller

LEMMA CallerLeaves ==
  ASSUME client \in [Client -> Caller], NEW c \in Client, Leaves(c)
  PROVE  /\ client' \in [Client -> Caller] /\ client'[c].at = "idle" /\ client'[c].tries = 0
         /\ \A d \in Client : d # c => client'[d] = client[d]
<1>1. Outside \in Caller /\ Outside.at = "idle" /\ Outside.tries = 0
  BY GuardedAssumption DEF Outside, Caller, Spots
<1>2. QED
  BY <1>1 DEF Leaves

(* Who was inside stays in or leaves, and the crowd grows by nobody.       *)
LEMMA CrowdStays ==
  ASSUME Crowd, \A d \in Client : client'[d].at \notin {"idle", "waiting"} => client[d].at \notin {"idle", "waiting"}
  PROVE  Crowd'
<1> SUFFICES ASSUME NEW p \in Process PROVE IsFiniteSet(Inside(p)') /\ Cardinality(Inside(p)') <= Limit
  BY DEF Crowd
<1>1. Inside(p)' \subseteq Inside(p)
  BY DEF Inside
<1>2. IsFiniteSet(Inside(p)) /\ Cardinality(Inside(p)) <= Limit
  BY DEF Crowd
<1>3. /\ IsFiniteSet(Inside(p)')
      /\ Cardinality(Inside(p)') <= Cardinality(Inside(p))
      /\ Cardinality(Inside(p)') \in Nat /\ Cardinality(Inside(p)) \in Nat
  BY <1>1, <1>2, FS_Subset, FS_CardinalityType
<1>4. QED
  BY GuardedAssumption, <1>2, <1>3

LEMMA EnterCrowd ==
  ASSUME GuardInv, NEW c \in Client, Enter(c)
  PROVE  Crowd'
<1>1. client'[c].at = "gate" /\ \A d \in Client : d # c => client'[d] = client[d]
  BY CallerGoes DEF GuardInv, GuardTyped, Enter, Spots
<1>2. ASSUME NEW p \in Process, p # Home[c]
      PROVE  Inside(p)' = Inside(p)
  BY <1>1, <1>2 DEF Inside
<1>3. Inside(Home[c])' = Inside(Home[c]) \cup {c} /\ c \notin Inside(Home[c])
  BY <1>1 DEF Inside, Enter
<1>4. Home[c] \in Process /\ IsFiniteSet(Inside(Home[c])) /\ Cardinality(Inside(Home[c])) < Limit
  BY GuardedAssumption DEF GuardInv, Crowd, Enter
<1>5. /\ IsFiniteSet(Inside(Home[c])') /\ Cardinality(Inside(Home[c])') = Cardinality(Inside(Home[c])) + 1
      /\ Cardinality(Inside(Home[c])) \in Nat
  BY <1>3, <1>4, FS_AddElement, FS_CardinalityType
<1>6. IsFiniteSet(Inside(Home[c])') /\ Cardinality(Inside(Home[c])') <= Limit
  BY GuardedAssumption, <1>4, <1>5
<1>7. QED
  BY <1>2, <1>6 DEF GuardInv, Crowd

(* The window of a counter outlives a step that leaves both, and those who *)
(* are about to set it, alone.                                             *)
LEMMA WindowStays ==
  ASSUME FailuresLapseUnlessCut, UNCHANGED <<fails, lapses, cut>>,
         \A d \in Client : client[d].at = "windowing" => client'[d].at = "windowing"
  PROVE  FailuresLapseUnlessCut'
BY DEF FailuresLapseUnlessCut

LEMMA GoesStays ==
  ASSUME GuardInv, NEW c \in Client, client[c].at \notin {"idle", "waiting", "windowing"}, NEW at \in Spots, Goes(c, at),
         at = "pausing" => client[c].tries < Retries
  PROVE  /\ client' \in [Client -> Caller] /\ \A d \in Client : client'[d].at = "pausing" => client'[d].tries < Retries
         /\ Crowd'
         /\ UNCHANGED <<fails, lapses, cut>> => FailuresLapseUnlessCut'
<1>1. /\ client' \in [Client -> Caller] /\ client'[c].at = at /\ client'[c].tries = client[c].tries
      /\ \A d \in Client : d # c => client'[d] = client[d]
  BY CallerGoes DEF GuardInv, GuardTyped
<1>2. QED
  BY <1>1, CrowdStays, WindowStays DEF GuardInv, GuardTyped

LEMMA LeavesStays ==
  ASSUME GuardInv, NEW c \in Client, client[c].at # "windowing", Leaves(c)
  PROVE  /\ client' \in [Client -> Caller] /\ \A d \in Client : client'[d].at = "pausing" => client'[d].tries < Retries
         /\ Crowd'
         /\ UNCHANGED <<fails, lapses, cut>> => FailuresLapseUnlessCut'
<1>1. /\ client' \in [Client -> Caller] /\ client'[c].at = "idle" /\ client'[c].tries = 0
      /\ \A d \in Client : d # c => client'[d] = client[d]
  BY CallerLeaves DEF GuardInv, GuardTyped
<1>2. QED
  BY <1>1, CrowdStays, WindowStays DEF GuardInv, GuardTyped

LEMMA GuardInductive == GuardInv /\ [GuardNext]_guardVars => GuardInv'
<1> SUFFICES ASSUME GuardInv, [GuardNext]_guardVars PROVE GuardInv'
  OBVIOUS
<1> USE DEF GuardInv
<1>0. GuardTyped
  OBVIOUS
<1>1. ASSUME NEW c \in Client, Arrive(c) PROVE GuardInv'
  <2>1. /\ client' \in [Client -> Caller] /\ client'[c].at = "waiting" /\ client[c].at = "idle"
        /\ \A d \in Client : d # c => client'[d] = client[d]
    BY <1>1, CallerGoes DEF Arrive, GuardTyped, Spots
  <2>2. Crowd' /\ FailuresLapseUnlessCut'
    BY <1>1, <2>1, CrowdStays, WindowStays DEF Arrive, breakerVars
  <2>3. QED
    BY <1>1, <2>1, <2>2 DEF Arrive, GuardTyped, breakerVars
<1>2. ASSUME NEW c \in Client, Enter(c) PROVE GuardInv'
  <2>1. /\ client' \in [Client -> Caller] /\ client'[c].at = "gate" /\ client[c].at = "waiting"
        /\ \A d \in Client : d # c => client'[d] = client[d]
    BY <1>2, CallerGoes DEF Enter, GuardTyped, Spots
  <2>2. FailuresLapseUnlessCut'
    BY <1>2, <2>1, WindowStays DEF Enter, breakerVars
  <2>3. QED
    BY <1>2, <2>1, <2>2, EnterCrowd DEF Enter, GuardTyped, breakerVars
<1>3. ASSUME NEW c \in Client, Gate(c) \/ Answer(c) \/ Raise(c) PROVE GuardInv'
  <2>1. Leaves(c) \/ \E at \in {"calling", "clearing", "counting"} : Goes(c, at)
    BY <1>3 DEF Gate, Answer, Raise
  <2>2. /\ client[c].at \notin {"idle", "waiting", "windowing"}
        /\ UNCHANGED <<breakerVars, left, gauge, cut>>
    BY <1>3 DEF Gate, Answer, Raise
  <2>3. QED
    BY <2>1, <2>2, GoesStays, LeavesStays DEF GuardTyped, breakerVars, Spots
<1>4. ASSUME NEW c \in Client, Fail(c) \/ TimeOut(c) PROVE GuardInv'
  <2>1. PICK at \in {"pausing", "counting"} : Goes(c, at) /\ (at = "pausing" => client[c].tries < Retries)
    <3>1. AgainOrCount(c)
      BY <1>4 DEF Fail, TimeOut
    <3>2. QED
      BY <3>1 DEF AgainOrCount
  <2>2. client[c].at = "calling" /\ UNCHANGED <<breakerVars, gauge, cut>>
    BY <1>4 DEF Fail, TimeOut
  <2>3. left' \in [Process -> Nat]
    BY <1>4 DEF Fail, TimeOut, GuardTyped
  <2>4. QED
    BY <2>1, <2>2, <2>3, GoesStays DEF GuardTyped, breakerVars, Spots
<1>5. ASSUME NEW p \in Process, ThreadEnds(p) PROVE GuardInv'
  <2>1. UNCHANGED <<breakerVars, client, gauge, cut>>
    BY <1>5 DEF ThreadEnds
  <2>2. left' \in [Process -> Nat]
    BY <1>5 DEF ThreadEnds, GuardTyped
  <2>3. Crowd' /\ FailuresLapseUnlessCut'
    BY <2>1, CrowdStays, WindowStays DEF breakerVars
  <2>4. QED
    BY <2>1, <2>2, <2>3 DEF GuardTyped, breakerVars
<1>6. ASSUME NEW c \in Client, Retry(c) PROVE GuardInv'
  <2>1. client[c].at = "pausing" /\ client[c].tries < Retries /\ client[c] \in Caller
    BY <1>6 DEF Retry, GuardTyped
  <2>2. client[c].tries + 1 \in 0 .. Retries
    BY GuardedAssumption, <2>1 DEF Caller
  <2>3. client' = [client EXCEPT ![c] = [client[c] EXCEPT !.at = "calling", !.tries = client[c].tries + 1]]
    BY <1>6 DEF Retry, GuardTyped
  <2>4. [client[c] EXCEPT !.at = "calling", !.tries = client[c].tries + 1] \in Caller
    BY <2>1, <2>2 DEF Caller, Spots
  <2>5. client' \in [Client -> Caller]
    BY <2>3, <2>4 DEF GuardTyped
  <2>6. client'[c].at = "calling" /\ \A d \in Client : d # c => client'[d] = client[d]
    BY <2>1, <2>3 DEF GuardTyped, Caller
  <2>7. UNCHANGED <<breakerVars, left, gauge, cut>>
    BY <1>6 DEF Retry
  <2>8. Crowd' /\ FailuresLapseUnlessCut'
    BY <2>1, <2>6, <2>7, CrowdStays, WindowStays DEF breakerVars
  <2>9. QED
    BY <2>5, <2>6, <2>7, <2>8 DEF GuardTyped, breakerVars
<1>7. ASSUME NEW c \in Client, Count(c) PROVE GuardInv'
  <2>1. client[c].at = "counting" /\ fails' = fails + 1 /\ UNCHANGED <<lapses, open, notice, left, gauge, cut>>
    BY <1>7 DEF Count
  <2>2. CASE fails' = 1
    <3>1. Goes(c, "windowing")
      BY <1>7, <2>2 DEF Count
    <3>2. client'[c].at = "windowing"
      BY <3>1, CallerGoes DEF GuardTyped, Spots
    <3>3. QED
      BY <2>1, <3>1, <3>2, GoesStays DEF GuardTyped, FailuresLapseUnlessCut, Spots
  <2>3. CASE fails' # 1
    <3>1. Goes(c, "opening") \/ Leaves(c)
      BY <1>7, <2>3 DEF Count
    <3>2. fails > 0
      BY <2>1, <2>3 DEF GuardTyped
    <3>3. \A d \in Client : client[d].at = "windowing" => client'[d].at = "windowing"
      BY <2>1, <3>1, CallerGoes, CallerLeaves DEF GuardTyped, Spots
    <3>4. FailuresLapseUnlessCut'
      BY <2>1, <3>2, <3>3 DEF FailuresLapseUnlessCut
    <3>5. QED
      BY <2>1, <3>1, <3>4, GoesStays, LeavesStays DEF GuardTyped, Spots
  <2>4. QED
    BY <2>2, <2>3
<1>8. ASSUME NEW c \in Client, SetWindow(c) PROVE GuardInv'
  <2>1. /\ client' \in [Client -> Caller] /\ client'[c].at = "idle" /\ client[c].at = "windowing"
        /\ \A d \in Client : d # c => client'[d] = client[d]
    BY <1>8, CallerLeaves DEF SetWindow, GuardTyped
  <2>2. Crowd'
    BY <2>1, CrowdStays
  <2>3. UNCHANGED <<fails, open, notice, left, gauge, cut>> /\ (lapses' <=> fails > 0) /\ lapses' \in BOOLEAN
    <3>1. lapses' = (fails > 0)
      BY <1>8 DEF SetWindow
    <3>2. CASE fails > 0
      <4>1. lapses' = TRUE
        BY <3>1, <3>2
      <4>2. QED
        BY <1>8, <3>2, <4>1 DEF SetWindow
    <3>3. (fails > 0) \in BOOLEAN
      OBVIOUS
    <3>4. lapses' \in BOOLEAN
      BY <3>1, <3>3, Zenon
    <3>5. CASE ~(fails > 0)
      BY <1>8, <3>1, <3>3, <3>4, <3>5, Zenon DEF SetWindow
    <3>6. QED
      BY <3>2, <3>5
  <2>4. FailuresLapseUnlessCut'
    BY <2>3 DEF FailuresLapseUnlessCut
  <2>5. QED
    BY <2>1, <2>2, <2>3, <2>4 DEF GuardTyped
<1>9. ASSUME NEW c \in Client, Open(c) PROVE GuardInv'
  <2>1. PICK b \in BOOLEAN : client' = [client EXCEPT ![c].at = "forgetting", ![c].tripped = b]
    BY <1>9 DEF Open, GuardTyped
  <2>2. /\ client' \in [Client -> Caller] /\ client'[c].at = "forgetting" /\ client[c].at = "opening"
        /\ \A d \in Client : d # c => client'[d] = client[d]
    <3> DEFINE f == [client[c] EXCEPT !.at = "forgetting", !.tripped = b]
    <3>1. client' = [client EXCEPT ![c] = f]
      BY <2>1 DEF GuardTyped
    <3>2. f \in Caller /\ f.at = "forgetting"
      BY DEF GuardTyped, Caller, Spots
    <3> HIDE DEF f
    <3>3. client[c].at = "opening"
      BY <1>9 DEF Open
    <3>4. QED
      BY <3>1, <3>2, <3>3 DEF GuardTyped
  <2>3. UNCHANGED <<fails, lapses, notice, left, gauge, cut>> /\ open' = TRUE
    BY <1>9 DEF Open
  <2>4. Crowd' /\ FailuresLapseUnlessCut'
    BY <2>2, <2>3, CrowdStays, WindowStays
  <2>5. QED
    BY <2>2, <2>3, <2>4 DEF GuardTyped
<1>10. ASSUME NEW c \in Client, Forget(c) \/ Clear(c) PROVE GuardInv'
  <2>1. Leaves(c) \/ \E at \in {"noticing", "resetting"} : Goes(c, at)
    BY <1>10 DEF Forget, Clear
  <2>2. /\ client[c].at \in {"forgetting", "clearing"} /\ fails' = 0 /\ lapses' = FALSE
        /\ UNCHANGED <<open, notice, left, gauge, cut>>
    BY <1>10 DEF Forget, Clear
  <2>3. fails' \in Nat /\ FailuresLapseUnlessCut'
    BY <2>2 DEF FailuresLapseUnlessCut
  <2>4. /\ client' \in [Client -> Caller] /\ Crowd'
        /\ \A d \in Client : client'[d].at = "pausing" => client'[d].tries < Retries
    BY <2>1, <2>2, GoesStays, LeavesStays DEF Spots
  <2>5. lapses' \in BOOLEAN
    BY <2>2, Zenon
  <2>6. QED
    BY <2>2, <2>3, <2>4, <2>5 DEF GuardTyped
<1>11. ASSUME NEW c \in Client, Notice(c) \/ Reset(c) PROVE GuardInv'
  <2>1. client[c].at \in {"noticing", "resetting"} /\ Leaves(c) /\ UNCHANGED <<fails, lapses, open, left, cut>>
        /\ notice' \in BOOLEAN
    BY <1>11 DEF Notice, Reset
  <2>2. gauge' \in [Process -> BOOLEAN]
    <3>1. \E b \in BOOLEAN : gauge' = [gauge EXCEPT ![Home[c]] = b]
      BY <1>11, Zenon DEF Notice, Reset, GuardTyped
    <3>2. QED
      BY <3>1 DEF GuardTyped
  <2>3. QED
    BY <2>1, <2>2, LeavesStays DEF GuardTyped
<1>12. CASE Lapse
  <2>1. UNCHANGED <<client, left, gauge, cut>>
    BY <1>12 DEF Lapse
  <2>2. fails' \in Nat /\ lapses' \in BOOLEAN /\ open' \in BOOLEAN /\ notice' \in BOOLEAN
    <3>1. lapses' \in BOOLEAN /\ open' \in BOOLEAN /\ notice' \in BOOLEAN
      BY <1>12, Zenon DEF Lapse, GuardTyped
    <3>2. fails' = 0 \/ fails' = fails
      BY <1>12, Zenon DEF Lapse
    <3>3. QED
      BY <3>1, <3>2 DEF GuardTyped
  <2>3. fails' = 0 \/ UNCHANGED <<fails, lapses>>
    BY <1>12 DEF Lapse
  <2>4. Crowd' /\ FailuresLapseUnlessCut'
    BY <2>1, <2>3, CrowdStays DEF FailuresLapseUnlessCut
  <2>5. QED
    BY <2>1, <2>2, <2>4 DEF GuardTyped
<1>13. ASSUME NEW p \in Process, ProcessDies(p) PROVE GuardInv'
  <2>1. UNCHANGED breakerVars /\ \A d \in Client : client'[d] = IF Home[d] = p THEN Outside ELSE client[d]
    BY <1>13 DEF ProcessDies
  <2>2. client' \in [Client -> Caller]
    BY GuardedAssumption, <1>13 DEF ProcessDies, GuardTyped, Outside, Caller, Spots
  <2>3. left' \in [Process -> Nat] /\ gauge' \in [Process -> BOOLEAN] /\ cut' \in BOOLEAN
    BY <1>13 DEF ProcessDies, GuardTyped
  <2>4. Crowd' /\ \A d \in Client : client'[d].at = "pausing" => client'[d].tries < Retries
    BY <2>1, CrowdStays DEF Outside, GuardTyped
  <2>5. FailuresLapseUnlessCut'
    <3>1. SUFFICES ASSUME fails > 0, ~cut', ~lapses
                   PROVE  \E c \in Client : client'[c].at = "windowing"
      BY <2>1 DEF FailuresLapseUnlessCut, breakerVars
    <3>2. ~cut /\ \A c \in Inside(p) : client[c].at # "windowing"
      BY <1>13, <3>1, Zenon DEF ProcessDies
    <3>3. PICK c \in Client : client[c].at = "windowing"
      BY <3>1, <3>2 DEF FailuresLapseUnlessCut
    <3>4. Home[c] # p
      BY <3>2, <3>3 DEF Inside
    <3>5. QED
      BY <2>1, <3>3, <3>4
  <2>6. QED
    BY <2>1, <2>2, <2>3, <2>4, <2>5 DEF GuardTyped, breakerVars
<1>14. CASE UNCHANGED guardVars
  BY <1>14, CrowdStays, WindowStays DEF guardVars, GuardTyped
<1>15. QED
  BY <1>1, <1>2, <1>3, <1>4, <1>5, <1>6, <1>7, <1>8, <1>9, <1>10, <1>11, <1>12, <1>13, <1>14
     DEF GuardNext, OwnSteps

-----------------------------------------------------------------------------
(* Orders placed by a click.                                               *)

(* The carts, and the counters, with which no rule outranks the one        *)
(* against duplicates.                                                     *)
Plain(facts) == facts \subseteq Facts \ {"email_burst", "ip_burst", "high_value"}

LEMMA FilledIs ==
  ASSUME NEW rule, NEW group, DOMAIN group = {"priority", "action"},
         {"group", "when"} \subseteq DOMAIN rule, DOMAIN rule \subseteq {"group", "when", "action"}
  PROVE  LET r == Filled(Filled(rule, group), RuleDefaults)
         IN  /\ r.enabled = TRUE /\ r.when = rule.when /\ r.priority = group.priority
             /\ r.action = IF "action" \in DOMAIN rule THEN rule.action ELSE group.action
<1> DEFINE half == Filled(rule, group)
<1>1. /\ DOMAIN half = DOMAIN rule \cup DOMAIN group
      /\ \A x \in DOMAIN half : half[x] = IF x \in DOMAIN rule THEN rule[x] ELSE group[x]
  BY DEF Filled
<1>2. /\ half.when = rule.when /\ half.priority = group.priority
      /\ half.action = IF "action" \in DOMAIN rule THEN rule.action ELSE group.action
      /\ DOMAIN half = {"group", "when", "priority", "action"}
  BY <1>1
<1> HIDE DEF half
<1>3. DOMAIN RuleDefaults = {"enabled", "priority", "action", "when"} /\ RuleDefaults.enabled = TRUE
  BY DEF RuleDefaults
<1>4. LET r == Filled(half, RuleDefaults)
      IN  r.enabled = TRUE /\ r.when = half.when /\ r.priority = half.priority /\ r.action = half.action
  BY <1>2, <1>3 DEF Filled
<1>5. QED
  BY <1>2, <1>4 DEF half

LEMMA RuleFits ==
  ASSUME NEW r \in WithDefaults(Rules)
  PROVE  /\ r.enabled = TRUE
         /\ r.when = {"duplicate_order"} => r.priority = 85 /\ r.action = "reject"
         /\ r.priority \in Int
         /\ \/ r.when = {"duplicate_order"} \/ r.priority < 85
            \/ \E f \in {"email_burst", "ip_burst", "high_value"} : r.when = {f}
<1>1. PICK rule \in Rules : r = Filled(Filled(rule, Groups[rule.group]), RuleDefaults)
  BY DEF WithDefaults
<1> DEFINE Out(g, w) == rule = [group |-> g, when |-> w]
           For(g, w, a) == rule = [group |-> g, when |-> w, action |-> a]
<1>2. \/ Out("email", {"disposable_email"}) \/ For("network", {"tor_exit"}, "manual_review")
      \/ For("network", {"private_ip"}, "reject") \/ Out("velocity", {"email_burst"})
      \/ Out("velocity", {"ip_burst"}) \/ Out("duplicate", {"duplicate_order"})
      \/ Out("region", {"country_mismatch"}) \/ For("velocity", {"high_value"}, "manual_review")
  BY DEF Rules
<1>3. CASE Out("duplicate", {"duplicate_order"})
  <2>1. DOMAIN Groups[rule.group] = {"priority", "action"} /\ "group" \in DOMAIN rule /\ "when" \in DOMAIN rule
        /\ DOMAIN rule \subseteq {"group", "when", "action"}
    BY <1>3 DEF Groups
  <2>2. /\ r.enabled = TRUE /\ r.when = rule.when /\ r.priority = Groups[rule.group].priority
        /\ r.action = IF "action" \in DOMAIN rule THEN rule.action ELSE Groups[rule.group].action
    BY <1>1, <2>1, FilledIs
  <2>3. QED
    BY <1>3, <2>2 DEF Groups
<1>4. CASE Out("email", {"disposable_email"})
  <2>1. DOMAIN Groups[rule.group] = {"priority", "action"} /\ "group" \in DOMAIN rule /\ "when" \in DOMAIN rule
        /\ DOMAIN rule \subseteq {"group", "when", "action"}
    BY <1>4 DEF Groups
  <2>2. /\ r.enabled = TRUE /\ r.when = rule.when /\ r.priority = Groups[rule.group].priority
        /\ r.action = IF "action" \in DOMAIN rule THEN rule.action ELSE Groups[rule.group].action
    BY <1>1, <2>1, FilledIs
  <2>3. QED
    BY <1>4, <2>2 DEF Groups
<1>5. CASE For("network", {"tor_exit"}, "manual_review")
  <2>1. DOMAIN Groups[rule.group] = {"priority", "action"} /\ "group" \in DOMAIN rule /\ "when" \in DOMAIN rule
        /\ DOMAIN rule \subseteq {"group", "when", "action"}
    BY <1>5 DEF Groups
  <2>2. /\ r.enabled = TRUE /\ r.when = rule.when /\ r.priority = Groups[rule.group].priority
        /\ r.action = IF "action" \in DOMAIN rule THEN rule.action ELSE Groups[rule.group].action
    BY <1>1, <2>1, FilledIs
  <2>3. QED
    BY <1>5, <2>2 DEF Groups
<1>6. CASE For("network", {"private_ip"}, "reject")
  <2>1. DOMAIN Groups[rule.group] = {"priority", "action"} /\ "group" \in DOMAIN rule /\ "when" \in DOMAIN rule
        /\ DOMAIN rule \subseteq {"group", "when", "action"}
    BY <1>6 DEF Groups
  <2>2. /\ r.enabled = TRUE /\ r.when = rule.when /\ r.priority = Groups[rule.group].priority
        /\ r.action = IF "action" \in DOMAIN rule THEN rule.action ELSE Groups[rule.group].action
    BY <1>1, <2>1, FilledIs
  <2>3. QED
    BY <1>6, <2>2 DEF Groups
<1>7. CASE Out("velocity", {"email_burst"}) \/ Out("velocity", {"ip_burst"})
  <2>1. DOMAIN Groups[rule.group] = {"priority", "action"} /\ "group" \in DOMAIN rule /\ "when" \in DOMAIN rule
        /\ DOMAIN rule \subseteq {"group", "when", "action"}
    BY <1>7 DEF Groups
  <2>2. /\ r.enabled = TRUE /\ r.when = rule.when /\ r.priority = Groups[rule.group].priority
        /\ r.action = IF "action" \in DOMAIN rule THEN rule.action ELSE Groups[rule.group].action
    BY <1>1, <2>1, FilledIs
  <2>3. QED
    BY <1>7, <2>2 DEF Groups
<1>8. CASE Out("region", {"country_mismatch"})
  <2>1. DOMAIN Groups[rule.group] = {"priority", "action"} /\ "group" \in DOMAIN rule /\ "when" \in DOMAIN rule
        /\ DOMAIN rule \subseteq {"group", "when", "action"}
    BY <1>8 DEF Groups
  <2>2. /\ r.enabled = TRUE /\ r.when = rule.when /\ r.priority = Groups[rule.group].priority
        /\ r.action = IF "action" \in DOMAIN rule THEN rule.action ELSE Groups[rule.group].action
    BY <1>1, <2>1, FilledIs
  <2>3. QED
    BY <1>8, <2>2 DEF Groups
<1>9. CASE For("velocity", {"high_value"}, "manual_review")
  <2>1. DOMAIN Groups[rule.group] = {"priority", "action"} /\ "group" \in DOMAIN rule /\ "when" \in DOMAIN rule
        /\ DOMAIN rule \subseteq {"group", "when", "action"}
    BY <1>9 DEF Groups
  <2>2. /\ r.enabled = TRUE /\ r.when = rule.when /\ r.priority = Groups[rule.group].priority
        /\ r.action = IF "action" \in DOMAIN rule THEN rule.action ELSE Groups[rule.group].action
    BY <1>1, <2>1, FilledIs
  <2>3. QED
    BY <1>9, <2>2 DEF Groups
<1>10. QED
  BY <1>2, <1>3, <1>4, <1>5, <1>6, <1>7, <1>8, <1>9

LEMMA TheDuplicateRule ==
  \E r \in WithDefaults(Rules) : r.enabled /\ r.when = {"duplicate_order"} /\ r.priority = 85 /\ r.action = "reject"
<1> DEFINE rule == [group |-> "duplicate", when |-> {"duplicate_order"}]
           r == Filled(Filled(rule, Groups[rule.group]), RuleDefaults)
<1>1. rule \in Rules
  BY DEF Rules
<1>2. r \in WithDefaults(Rules)
  BY <1>1 DEF WithDefaults
<1>3. r.enabled /\ r.when = {"duplicate_order"} /\ r.priority = 85 /\ r.action = "reject"
  <2>1. DOMAIN Groups[rule.group] = {"priority", "action"} /\ DOMAIN rule = {"group", "when"}
    BY DEF Groups
  <2> HIDE DEF rule
  <2>2. /\ r.enabled = TRUE /\ r.when = rule.when /\ r.priority = Groups[rule.group].priority
        /\ r.action = IF "action" \in DOMAIN rule THEN rule.action ELSE Groups[rule.group].action
    BY <2>1, FilledIs
  <2>3. QED
    BY <2>2 DEF Groups, rule
<1>4. QED
  BY <1>2, <1>3

(* A duplicate of plain facts is rejected.                                 *)
LEMMA DuplicateRejected ==
  ASSUME FraudOn, NEW facts, Plain(facts), "duplicate_order" \in facts
  PROVE  Evaluate(facts) = "reject"
<1> DEFINE matches == Matched(WithDefaults(Rules), facts)
           top == {m \in matches : \A n \in matches : n.priority <= m.priority}
<1>1. PICK d \in WithDefaults(Rules) : d.enabled /\ d.when = {"duplicate_order"} /\ d.priority = 85 /\ d.action = "reject"
  BY TheDuplicateRule
<1>2. d \in matches
  BY <1>1 DEF Matched
<1>3. ASSUME NEW m \in matches
      PROVE  /\ m.priority \in Int /\ m.priority <= 85
             /\ m.priority >= 85 => m.action = "reject"
  <2>1. m \in WithDefaults(Rules) /\ m.when \subseteq facts
    BY DEF Matched
  <2>2. \A f \in {"email_burst", "ip_burst", "high_value"} : m.when # {f}
    BY <2>1 DEF Plain
  <2>3. /\ m.when = {"duplicate_order"} => m.priority = 85 /\ m.action = "reject"
        /\ m.priority \in Int
        /\ \/ m.when = {"duplicate_order"} \/ m.priority < 85
           \/ \E f \in {"email_burst", "ip_burst", "high_value"} : m.when = {f}
    BY <2>1, RuleFits
  <2> HIDE DEF matches
  <2>4. QED
    BY <2>2, <2>3
<1>4. d \in top
  BY <1>1, <1>2, <1>3
<1>5. \A m \in top : m.action = "reject"
  BY <1>1, <1>2, <1>3
<1> HIDE DEF matches, top
<1>6. MostSevere(top) = "reject"
  <2>1. \E m \in top : \A n \in top : Rank[n.action] <= Rank[m.action]
    BY <1>4, <1>5 DEF Rank
  <2>2. top # {}
    BY <1>4
  <2>3. QED
    BY <1>5, <2>1, <2>2 DEF MostSevere
<1>7. QED
  BY <1>6 DEF Evaluate, Decision, matches, top

CodTyped == CodTypeOK /\ codFaults.late <= codFaults.all

(* Requests between taking the units and leaving the order, or giving the  *)
(* units back.                                                             *)
Holding == {r \in Request : req[r] \in {"insert", "giveBack"}}

(* While no order was placed by a request that failed or died with it.     *)
OrdersFit == \A r \in orders : req[r] \in {"log", "note", "store", "unlock", "placed", "dead"}
Stocked ==
  /\ IsFiniteSet(orders) /\ IsFiniteSet(Holding)
  /\ units + Cardinality(orders) + Cardinality(Holding) = Units

CodInv == CodTyped /\ (codFaults.late = 0 => OrdersFit /\ Stocked)

LEMMA CodCorrect == CodInv => CodTypeOK /\ UnitsMatchOrders
BY DEF CodInv, CodTyped, Stocked, Holding, UnitsMatchOrders

LEMMA CodInitially == CodInit => CodInv
<1> SUFFICES ASSUME CodInit PROVE CodInv
  OBVIOUS
<1> USE DEF CodInit
<1>1. CodTypeOK /\ codFaults.late <= codFaults.all
  BY CodAssumption DEF CodTypeOK
<1>2. Holding = {}
  BY DEF Holding
<1>3. OrdersFit /\ Stocked
  BY CodAssumption, <1>2, FS_EmptySet DEF OrdersFit, Stocked
<1>4. QED
  BY <1>1, <1>3 DEF CodInv, CodTyped

LEMMA RequestMoves ==
  ASSUME CodTyped, NEW r \in Request, NEW at \in {"new"} \cup Working \cup Ended, Moves(r, at)
  PROVE  /\ req' \in [Request -> {"new"} \cup Working \cup Ended]
         /\ req'[r] = at /\ \A s \in Request : s # r => req'[s] = req[s]
BY DEF CodTyped, CodTypeOK, Moves

LEMMA FailsFit ==
  ASSUME CodTyped, NEW kind, NEW after \in {0, 1}, Fails(kind, after)
  PROVE  /\ codFaults' \in [all : 0 .. MaxCodFaults, late : 0 .. MaxCodFaults]
         /\ codFaults'.late <= codFaults'.all /\ codFaults'.late = codFaults.late + after
BY CodAssumption DEF CodTyped, CodTypeOK, Fails

LEMMA ScreeningFits == \A facts : EvaluateFails \in {"allow", "reject"}
BY DEF EvaluateFails

(* A request that moves and holds no unit before or after.                 *)
LEMMA QuietlyMoves ==
  ASSUME CodInv, codFaults.late = 0, NEW r \in Request, NEW at \in {"new"} \cup Working \cup Ended, Moves(r, at),
         req[r] \in {"insert", "giveBack"} <=> at \in {"insert", "giveBack"},
         r \in orders => at \in {"log", "note", "store", "unlock", "placed", "dead"},
         UNCHANGED <<units, orders>>
  PROVE  OrdersFit' /\ Stocked'
<1>1. req'[r] = at /\ \A s \in Request : s # r => req'[s] = req[s]
  BY RequestMoves DEF CodInv
<1>2. Holding' = Holding
  BY <1>1 DEF Holding
<1>3. OrdersFit'
  BY <1>1 DEF OrdersFit, CodInv, CodTyped, CodTypeOK
<1>4. QED
  BY <1>2, <1>3 DEF Stocked, CodInv

LEMMA CommitStocked ==
  ASSUME CodInv, codFaults.late = 0, NEW r \in Request, Commit(r)
  PROVE  OrdersFit' /\ Stocked'
<1>0. req[r] = "commit" /\ r \notin orders /\ UNCHANGED orders
  BY DEF CodInv, OrdersFit, Commit, RequestAt
<1>1. CASE units > 0
  <2>1. Moves(r, "insert") /\ units' = units - 1
    BY <1>1 DEF Commit
  <2>2. req'[r] = "insert" /\ \A s \in Request : s # r => req'[s] = req[s]
    BY <2>1, RequestMoves DEF CodInv, Working
  <2>3. Holding' = Holding \cup {r} /\ r \notin Holding
    BY <1>0, <2>2 DEF Holding
  <2>4. /\ IsFiniteSet(Holding') /\ Cardinality(Holding') = Cardinality(Holding) + 1
        /\ Cardinality(Holding) \in Nat /\ Cardinality(orders) \in Nat
    BY <2>3, FS_AddElement, FS_CardinalityType DEF CodInv, Stocked
  <2>5. Stocked'
    BY <1>0, <2>1, <2>4 DEF CodInv, Stocked, CodTyped, CodTypeOK
  <2>6. OrdersFit'
    BY <1>0, <2>2 DEF OrdersFit, CodInv, CodTyped, CodTypeOK
  <2>7. QED
    BY <2>5, <2>6
<1>2. CASE ~(units > 0)
  <2>1. Moves(r, "release") /\ UNCHANGED units
    BY <1>2 DEF Commit
  <2>2. QED
    BY <1>0, <2>1, QuietlyMoves DEF Working
<1>3. QED
  BY <1>1, <1>2

LEMMA InsertStocked ==
  ASSUME CodInv, codFaults.late = 0, NEW r \in Request, Insert(r)
  PROVE  OrdersFit' /\ Stocked'
<1>1. req[r] = "insert" /\ r \notin orders /\ Moves(r, "log") /\ orders' = orders \cup {r} /\ UNCHANGED units
  BY DEF CodInv, OrdersFit, Insert, RequestAt
<1>2. req'[r] = "log" /\ \A s \in Request : s # r => req'[s] = req[s]
  BY <1>1, RequestMoves DEF CodInv, Working
<1>3. Holding' = Holding \ {r} /\ r \in Holding
  BY <1>1, <1>2 DEF Holding
<1>4. /\ IsFiniteSet(Holding') /\ Cardinality(Holding') = Cardinality(Holding) - 1 /\ Cardinality(Holding) \in Nat
      /\ IsFiniteSet(orders') /\ Cardinality(orders') = Cardinality(orders) + 1 /\ Cardinality(orders) \in Nat
  BY <1>1, <1>3, FS_AddElement, FS_RemoveElement, FS_CardinalityType DEF CodInv, Stocked
<1>5. Stocked'
  BY <1>1, <1>4 DEF CodInv, Stocked, CodTyped, CodTypeOK
<1>6. OrdersFit'
  BY <1>1, <1>2 DEF OrdersFit, CodInv, CodTyped, CodTypeOK
<1>7. QED
  BY <1>5, <1>6

LEMMA GiveBackStocked ==
  ASSUME CodInv, codFaults.late = 0, NEW r \in Request, GiveBack(r)
  PROVE  OrdersFit' /\ Stocked'
<1>1. req[r] = "giveBack" /\ r \notin orders /\ Moves(r, "release") /\ UNCHANGED orders /\ units' = units + 1
  BY DEF CodInv, OrdersFit, GiveBack, RequestAt
<1>2. req'[r] = "release" /\ \A s \in Request : s # r => req'[s] = req[s]
  BY <1>1, RequestMoves DEF CodInv, Working
<1>3. Holding' = Holding \ {r} /\ r \in Holding
  BY <1>1, <1>2 DEF Holding
<1>4. /\ IsFiniteSet(Holding') /\ Cardinality(Holding') = Cardinality(Holding) - 1
      /\ Cardinality(Holding) \in Nat /\ Cardinality(orders) \in Nat
  BY <1>3, FS_RemoveElement, FS_CardinalityType DEF CodInv, Stocked
<1>5. Stocked'
  BY <1>1, <1>4 DEF CodInv, Stocked, CodTyped, CodTypeOK
<1>6. OrdersFit'
  BY <1>1, <1>2 DEF OrdersFit, CodInv, CodTyped, CodTypeOK
<1>7. QED
  BY <1>5, <1>6

LEMMA DecidedFits ==
  ASSUME CodTyped, NEW r \in Request, NEW action, Decided(r, action)
  PROVE  /\ Moves(r, "release") \/ Moves(r, "commit")
         /\ review' \in [Request -> {"none", "pending", "approved", "rejected"}]
<1>1. Moves(r, "release") \/ Moves(r, "commit")
  BY DEF Decided
<1>2. PICK s \in {"none", "pending", "approved", "rejected"} : review' = [review EXCEPT ![r] = s]
  <2>1. CASE action = "manual_review"
    BY <2>1 DEF Decided
  <2>2. CASE action # "manual_review"
    <3>1. review' = [review EXCEPT ![r] = review[r]]
      BY <2>2 DEF Decided
    <3>2. QED
      BY <3>1 DEF CodTyped, CodTypeOK
  <2>3. QED
    BY <2>1, <2>2
<1>3. QED
  BY <1>1, <1>2 DEF CodTyped, CodTypeOK

LEMMA CodTypedInductive == CodTyped /\ [CodNext]_codVars => CodTyped'
<1> SUFFICES ASSUME CodTyped, [CodNext]_codVars PROVE CodTyped'
  OBVIOUS
<1> USE DEF CodTyped, Working, Ended
<1>1. ASSUME NEW r \in Request, Begin(r) \/ LookAgain(r) PROVE CodTyped'
  <2>1. \E at \in {"locking", "replayed", "conflict", "busy"} : Moves(r, at)
    BY <1>1 DEF Begin, LookAgain, Replay
  <2>2. UNCHANGED <<answer, lock, attempts, bought, review, units, orders, codFaults>>
    BY <1>1 DEF Begin, LookAgain
  <2>3. QED
    BY <2>1, <2>2, RequestMoves DEF CodTypeOK
<1>2. ASSUME NEW r \in Request, Lock(r) PROVE CodTyped'
  <2>1. /\ \E at \in {"prepare", "looking"} : Moves(r, at)
        /\ UNCHANGED <<answer, attempts, bought, review, units, orders, codFaults>>
    BY <1>2 DEF Lock
  <2>2. lock' \in [Key -> Request \cup {NoRequest}]
    BY <1>2 DEF Lock, CodTypeOK
  <2>3. QED
    BY <2>1, <2>2, RequestMoves DEF CodTypeOK
<1>3. ASSUME NEW r \in Request, Refuse(r) \/ Log(r) PROVE CodTyped'
  <2>1. \E at \in {"release", "note"} : Moves(r, at)
    BY <1>3 DEF Refuse, Log
  <2>2. UNCHANGED <<answer, lock, attempts, bought, review, units, orders, codFaults>>
    BY <1>3 DEF Refuse, Log
  <2>3. QED
    BY <2>1, <2>2, RequestMoves DEF CodTypeOK
<1>4. ASSUME NEW r \in Request, ScreenOrder(r) PROVE CodTyped'
  <2>1. attempts' \in Nat
    BY <1>4 DEF ScreenOrder, CodTypeOK
  <2>2. \E action : Decided(r, action)
    BY <1>4 DEF ScreenOrder
  <2>3. UNCHANGED <<answer, lock, bought, units, orders, codFaults>>
    BY <1>4 DEF ScreenOrder
  <2>4. QED
    BY <2>1, <2>2, <2>3, DecidedFits, RequestMoves DEF CodTypeOK
<1>5. ASSUME NEW r \in Request, ScreenFails(r) PROVE CodTyped'
  <2>1. Decided(r, EvaluateFails) /\ Fails("fraud", 0) /\ UNCHANGED <<answer, lock, attempts, bought, units, orders>>
    BY <1>5 DEF ScreenFails
  <2>2. QED
    BY <2>1, DecidedFits, RequestMoves, FailsFit DEF CodTypeOK
<1>6. ASSUME NEW r \in Request, Commit(r) \/ GiveBack(r) PROVE CodTyped'
  <2>1. \E at \in {"insert", "release"} : Moves(r, at)
    BY <1>6 DEF Commit, GiveBack
  <2>2. units' \in Nat
    BY <1>6 DEF Commit, GiveBack, CodTypeOK
  <2>3. UNCHANGED <<answer, lock, attempts, bought, review, orders, codFaults>>
    BY <1>6 DEF Commit, GiveBack
  <2>4. QED
    BY <2>1, <2>2, <2>3, RequestMoves DEF CodTypeOK
<1>7. ASSUME NEW r \in Request, Insert(r) PROVE CodTyped'
  <2>1. Moves(r, "log") /\ orders' \subseteq Request
    BY <1>7 DEF Insert, CodTypeOK
  <2>2. UNCHANGED <<answer, lock, attempts, bought, review, units, codFaults>>
    BY <1>7 DEF Insert
  <2>3. QED
    BY <2>1, <2>2, RequestMoves DEF CodTypeOK
<1>8. ASSUME NEW r \in Request, InsertFails(r) PROVE CodTyped'
  <2>1. Moves(r, "giveBack") /\ orders' \subseteq Request /\ UNCHANGED <<answer, lock, attempts, bought, review, units>>
    BY <1>8 DEF InsertFails, CodTypeOK
  <2>2. Fails("insert", 0) \/ Fails("unsure", 1)
    BY <1>8 DEF InsertFails
  <2>3. QED
    BY <2>1, <2>2, RequestMoves, FailsFit DEF CodTypeOK
<1>9. ASSUME NEW r \in Request, Note(r) PROVE CodTyped'
  <2>1. Moves(r, "store") /\ bought' \subseteq Cart
    BY CodAssumption, <1>9 DEF Note, CodTypeOK
  <2>2. UNCHANGED <<answer, lock, attempts, review, units, orders, codFaults>>
    BY <1>9 DEF Note
  <2>3. QED
    BY <2>1, <2>2, RequestMoves DEF CodTypeOK
<1>10. ASSUME NEW r \in Request, FailsLate(r) \/ Die(r) PROVE CodTyped'
  <2>1. \E at \in {"release", "dead"} : Moves(r, at)
    BY <1>10 DEF FailsLate, Die
  <2>2. \E kind \in {"late", "die"}, after \in {0, 1} : Fails(kind, after)
    BY <1>10 DEF FailsLate, Die
  <2>3. UNCHANGED <<answer, lock, attempts, bought, review, units, orders>>
    BY <1>10 DEF FailsLate, Die
  <2>4. QED
    BY <2>1, <2>2, <2>3, RequestMoves, FailsFit DEF CodTypeOK
<1>11. ASSUME NEW r \in Request, Store(r) PROVE CodTyped'
  <2>1. Moves(r, "unlock") /\ answer' \in [Key -> Request \cup {NoRequest}]
    BY <1>11 DEF Store, CodTypeOK
  <2>2. UNCHANGED <<lock, attempts, bought, review, units, orders, codFaults>>
    BY <1>11 DEF Store
  <2>3. QED
    BY <2>1, <2>2, RequestMoves DEF CodTypeOK
<1>12. ASSUME NEW r \in Request, Unlock(r) PROVE CodTyped'
  <2>1. \E at \in {"placed", "failed"} : Moves(r, at)
    BY <1>12 DEF Unlock
  <2>2. lock' \in [Key -> Request \cup {NoRequest}]
    BY <1>12 DEF Unlock, CodTypeOK
  <2>3. UNCHANGED <<answer, attempts, bought, review, units, orders, codFaults>>
    BY <1>12 DEF Unlock
  <2>4. QED
    BY <2>1, <2>2, <2>3, RequestMoves DEF CodTypeOK
<1>13. ASSUME NEW k \in Key, LockExpires(k) PROVE CodTyped'
  BY <1>13 DEF LockExpires, CodTypeOK
<1>14. CASE WindowsPass
  BY <1>14 DEF WindowsPass, CodTypeOK
<1>15. ASSUME NEW r \in Request, NEW status \in {"approved", "rejected"}, ResolveReview(r, status) PROVE CodTyped'
  BY <1>15 DEF ResolveReview, CodTypeOK
<1>16. CASE UNCHANGED codVars
  BY <1>16 DEF codVars, CodTypeOK
<1>17. QED
  BY <1>1, <1>2, <1>3, <1>4, <1>5, <1>6, <1>7, <1>8, <1>9, <1>10, <1>11, <1>12, <1>13, <1>14, <1>15, <1>16
     DEF CodNext

LEMMA CodInductive == CodInv /\ [CodNext]_codVars => CodInv'
<1> SUFFICES ASSUME CodInv, [CodNext]_codVars PROVE CodInv'
  OBVIOUS
<1> DEFINE Stays == codFaults'.late = 0 => OrdersFit' /\ Stocked'
<1>1. CodTyped /\ CodTyped'
  BY CodTypedInductive DEF CodInv
<1> SUFFICES Stays
  BY <1>1 DEF CodInv
<1> USE DEF CodTypeOK
<1>2. ASSUME NEW r \in Request, \/ Begin(r) \/ Lock(r) \/ LookAgain(r) \/ Refuse(r)
                                \/ Log(r) \/ Note(r) \/ Store(r) \/ Unlock(r)
      PROVE  Stays
  <2>1. UNCHANGED <<units, orders, codFaults>>
    BY <1>2 DEF Begin, Lock, LookAgain, Refuse, Log, Note, Store, Unlock
  <2>2. \/ req[r] \in {"new", "locking", "looking", "prepare", "release"}
        \/ req[r] \in {"log", "note", "store", "unlock"}
    BY <1>2 DEF Begin, Lock, LookAgain, Refuse, Log, Note, Store, Unlock, RequestAt
  <2>3. PICK at \in ({"new"} \cup Working \cup Ended) \ {"insert", "giveBack"} :
          /\ Moves(r, at)
          /\ req[r] \in {"log", "note", "store", "unlock"} => at \in {"note", "store", "unlock", "placed"}
    BY <1>2 DEF Begin, Lock, LookAgain, Refuse, Log, Note, Store, Unlock, RequestAt, Replay, Working, Ended
  <2>4. codFaults.late = 0 /\ r \in orders => req[r] \in {"log", "note", "store", "unlock"}
    BY <2>2 DEF CodInv, OrdersFit
  <2>5. QED
    BY <2>1, <2>2, <2>3, <2>4, QuietlyMoves
<1>3. ASSUME NEW r \in Request, ScreenOrder(r) \/ ScreenFails(r)
      PROVE  Stays
  <2>1. UNCHANGED <<units, orders>> /\ req[r] = "prepare" /\ \E action : Decided(r, action)
    BY <1>3 DEF ScreenOrder, ScreenFails, RequestAt
  <2>2. codFaults'.late = codFaults.late
    BY <1>1, <1>3, FailsFit DEF ScreenOrder, ScreenFails, CodTyped
  <2>3. Moves(r, "release") \/ Moves(r, "commit")
    BY <1>1, <2>1, DecidedFits
  <2>4. codFaults.late = 0 => r \notin orders
    BY <2>1 DEF CodInv, OrdersFit
  <2>5. QED
    BY <2>1, <2>2, <2>3, <2>4, QuietlyMoves DEF Working
<1>4. ASSUME NEW r \in Request, Commit(r) PROVE Stays
  BY <1>4, CommitStocked DEF Commit
<1>5. ASSUME NEW r \in Request, Insert(r) PROVE Stays
  BY <1>5, InsertStocked DEF Insert
<1>6. ASSUME NEW r \in Request, GiveBack(r) PROVE Stays
  BY <1>6, GiveBackStocked DEF GiveBack
<1>7. ASSUME NEW r \in Request, InsertFails(r) PROVE Stays
  <2>1. CASE Fails("insert", 0) /\ UNCHANGED orders
    <3>1. codFaults'.late = codFaults.late
      BY <1>1, <2>1, FailsFit DEF CodTyped
    <3>2. Moves(r, "giveBack") /\ req[r] = "insert" /\ UNCHANGED units
      BY <1>7 DEF InsertFails, RequestAt
    <3>3. codFaults.late = 0 => r \notin orders
      BY <3>2 DEF CodInv, OrdersFit
    <3>4. QED
      BY <2>1, <3>1, <3>2, <3>3, QuietlyMoves DEF Working
  <2>2. CASE Fails("unsure", 1)
    BY <1>1, <2>2, FailsFit DEF CodTyped
  <2>3. QED
    BY <1>7, <2>1, <2>2 DEF InsertFails
<1>8. ASSUME NEW r \in Request, FailsLate(r) PROVE Stays
  <2>1. Fails("late", 1)
    BY <1>8 DEF FailsLate
  <2>2. QED
    BY <1>1, <2>1, FailsFit DEF CodTyped
<1>9. ASSUME NEW r \in Request, Die(r) PROVE Stays
  <2>1. CASE req[r] \in {"insert", "giveBack", "log", "note", "store"}
    <3>1. Fails("die", 1)
      BY <1>9, <2>1 DEF Die
    <3>2. QED
      BY <1>1, <3>1, FailsFit DEF CodTyped
  <2>2. CASE req[r] \notin {"insert", "giveBack", "log", "note", "store"}
    <3>1. Fails("die", 0) /\ Moves(r, "dead") /\ UNCHANGED <<units, orders>>
      BY <1>9, <2>2 DEF Die
    <3>2. codFaults'.late = codFaults.late
      BY <1>1, <3>1, FailsFit DEF CodTyped
    <3>3. QED
      BY <2>2, <3>1, <3>2, QuietlyMoves DEF Ended
  <2>3. QED
    BY <2>1, <2>2
<1>10. CASE UNCHANGED <<req, units, orders, codFaults>>
  BY <1>10 DEF CodInv, OrdersFit, Stocked, Holding
<1>11. QED
  BY <1>2, <1>3, <1>4, <1>5, <1>6, <1>7, <1>8, <1>9, <1>10
     DEF CodNext, LockExpires, WindowsPass, ResolveReview, codVars

(* The counters stay short of a burst, and nothing outranks the duplicate rule. *)
Screened ==
  /\ FraudOn /\ FailClosed /\ "slow" \notin CodFaults
  /\ IsFiniteSet(Request) /\ Cardinality(Request) < VelocityLimit
  /\ \A c \in Cart : Plain(FactsOf[c])

(* Requests that were scored: the counters know no more.                   *)
Judged == {r \in Request : req[r] \notin {"new", "locking", "looking", "prepare", "busy", "replayed", "conflict"}}
SameKey(r, s) == KeyOf[r] = KeyOf[s]

(* Who is past the answer holds the lock; each request counts once; an     *)
(* order noted is an answer stored, and is found by the duplicate rule     *)
(* while a request of its key is under way; and no request of its key and  *)
(* its cart is behind the rule.                                            *)
HoldersHold == \A r \in Request : InFlight(r) /\ req[r] \notin {"locking", "looking"} => lock[KeyOf[r]] = r
Counted == attempts <= Cardinality(Judged)
Answered == \A s \in orders : req[s] \notin {"log", "note", "store"} => answer[KeyOf[s]] # NoRequest
Remembered ==
  \A s \in orders : req[s] \notin {"log", "note"} =>
    CartOf[s] \in bought \/ \A r \in Request : SameKey(r, s) => ~InFlight(r)
NoneBehind ==
  \A r \in Request, s \in orders : req[r] \in {"commit", "insert", "giveBack"} /\ SameKey(r, s) => CartOf[r] # CartOf[s]

(* The invariant of the clicks.                                            *)
ClickInv ==
  /\ CodInv /\ HoldersHold /\ Counted
  /\ codFaults.late = 0 => Answered /\ Remembered /\ NoneBehind /\ OneOrderPerKey

LEMMA ClickInitially == ASSUME Screened PROVE CodInit => ClickInv
<1> SUFFICES ASSUME CodInit PROVE ClickInv
  OBVIOUS
<1>1. HoldersHold
  BY DEF CodInit, HoldersHold, InFlight, Working
<1>2. Judged = {} /\ attempts = 0
  BY DEF CodInit, Judged
<1>3. Counted
  BY <1>2, FS_EmptySet DEF Counted
<1>4. Answered /\ Remembered /\ NoneBehind /\ OneOrderPerKey
  BY DEF CodInit, Answered, Remembered, NoneBehind, OneOrderPerKey
<1>5. QED
  BY <1>1, <1>3, <1>4, CodInitially DEF ClickInv

(* Who was judged stays so: nothing leads back to before it.               *)
LEMMA JudgedGrow ==
  ASSUME Screened, CodTyped, Counted, NEW r \in Request, NEW at \in {"new"} \cup Working \cup Ended, Moves(r, at),
         attempts' \in Nat,
         r \in Judged => at \notin {"new", "locking", "looking", "prepare", "busy", "replayed", "conflict"},
         \/ attempts' <= attempts
         \/ /\ attempts' = attempts + 1 /\ r \notin Judged
            /\ at \notin {"new", "locking", "looking", "prepare", "busy", "replayed", "conflict"}
  PROVE  Counted' /\ attempts' < VelocityLimit
<1>1. req'[r] = at /\ \A s \in Request : s # r => req'[s] = req[s]
  BY RequestMoves
<1>2. /\ IsFiniteSet(Judged) /\ IsFiniteSet(Judged') /\ Cardinality(Judged) \in Nat /\ Cardinality(Judged') \in Nat
      /\ Cardinality(Judged') <= Cardinality(Request) /\ Cardinality(Request) \in Nat
  BY FS_Subset, FS_CardinalityType DEF Judged, Screened
<1>3. Judged \subseteq Judged'
  BY <1>1 DEF Judged
<1>4. Cardinality(Judged) <= Cardinality(Judged')
  BY <1>2, <1>3, FS_Subset
<1>5. attempts \in Nat
  BY DEF CodTyped, CodTypeOK
<1>6. CASE attempts' <= attempts
  BY FraudAssumption, <1>2, <1>4, <1>5, <1>6 DEF Counted, Screened
<1>7. CASE /\ attempts' = attempts + 1 /\ r \notin Judged
           /\ at \notin {"new", "locking", "looking", "prepare", "busy", "replayed", "conflict"}
  <2>1. Judged' = Judged \cup {r}
    BY <1>1, <1>7 DEF Judged
  <2>2. Cardinality(Judged') = Cardinality(Judged) + 1
    BY <1>2, <1>7, <2>1, FS_AddElement
  <2>3. QED
    BY FraudAssumption, <1>2, <1>5, <1>7, <2>2 DEF Counted, Screened
<1>8. QED
  BY <1>6, <1>7

LEMMA JudgedStay == ASSUME Counted, UNCHANGED <<req, attempts>> PROVE Counted'
BY DEF Counted, Judged

(* The lock of a key is one request's.                                     *)
LEMMA OneAtWork ==
  ASSUME HoldersHold, NEW r \in Request, NEW s \in Request, SameKey(r, s),
         InFlight(r), req[r] \notin {"locking", "looking"}, InFlight(s), req[s] \notin {"locking", "looking"}
  PROVE  r = s
BY DEF HoldersHold, SameKey

LEMMA HoldersInductive ==
  ASSUME Screened, ClickInv, [CodNext]_codVars
  PROVE  HoldersHold'
<1> USE DEF ClickInv, CodInv, CodTyped, CodTypeOK, HoldersHold, InFlight
<1>1. ASSUME NEW r \in Request, NEW at \in {"new"} \cup Working \cup Ended, Moves(r, at), UNCHANGED lock,
             at \notin Working \/ at \in {"locking", "looking"} \/ (InFlight(r) /\ req[r] \notin {"locking", "looking"})
      PROVE  HoldersHold'
  <2>1. req'[r] = at /\ \A s \in Request : s # r => req'[s] = req[s]
    BY <1>1, RequestMoves
  <2>2. QED
    BY <1>1, <2>1
<1>2. ASSUME NEW r \in Request, Begin(r) \/ LookAgain(r)
      PROVE  HoldersHold'
  <2>1. UNCHANGED lock /\ \E at \in {"locking", "replayed", "conflict", "busy"} : Moves(r, at)
    BY <1>2 DEF Begin, LookAgain, Replay
  <2>2. QED
    BY <1>1, <2>1 DEF Working, Ended
<1>3. ASSUME NEW r \in Request, Lock(r)
      PROVE  HoldersHold'
  <2>1. CASE lock[KeyOf[r]] = NoRequest
    <3>1. Moves(r, "prepare") /\ lock' = [lock EXCEPT ![KeyOf[r]] = r]
      BY <1>3, <2>1 DEF Lock
    <3>2. req'[r] = "prepare" /\ \A s \in Request : s # r => req'[s] = req[s]
      BY <3>1, RequestMoves DEF Working
    <3>3. QED
      BY CodAssumption, <2>1, <3>1, <3>2
  <2>2. CASE lock[KeyOf[r]] # NoRequest
    BY <1>1, <1>3, <2>2 DEF Lock, Working
  <2>3. QED
    BY <2>1, <2>2
<1>4. ASSUME NEW r \in Request,
             \/ Refuse(r) \/ ScreenOrder(r) \/ ScreenFails(r) \/ Commit(r) \/ Insert(r) \/ InsertFails(r) \/ GiveBack(r)
             \/ Log(r) \/ Note(r) \/ FailsLate(r) \/ Store(r) \/ Die(r)
      PROVE  HoldersHold'
  <2>1. UNCHANGED lock
    BY <1>4 DEF Refuse, ScreenOrder, ScreenFails, Commit, Insert, InsertFails, GiveBack, Log, Note, FailsLate, Store, Die
  <2>2. CASE Die(r)
    BY <1>1, <2>1, <2>2 DEF Die, Working, Ended
  <2>3. CASE ~Die(r)
    <3>1. req[r] \in {"prepare", "commit", "insert", "giveBack", "log", "note", "store"}
      BY <1>4, <2>3 DEF Refuse, ScreenOrder, ScreenFails, Commit, Insert, InsertFails, GiveBack, Log, Note, FailsLate,
                        Store, RequestAt
    <3>2. \E at \in Working : Moves(r, at)
      BY <1>4, <2>3 DEF Refuse, ScreenOrder, ScreenFails, Decided, Commit, Insert, InsertFails, GiveBack, Log, Note,
                        FailsLate, Store, Working
    <3>3. QED
      BY <1>1, <2>1, <3>1, <3>2 DEF Working
  <2>4. QED
    BY <2>2, <2>3
<1>5. ASSUME NEW r \in Request, Unlock(r)
      PROVE  HoldersHold'
  <2>1. PICK at \in {"placed", "failed"} : Moves(r, at)
    BY <1>5 DEF Unlock
  <2>2. req'[r] = at /\ \A s \in Request : s # r => req'[s] = req[s]
    BY <2>1, RequestMoves DEF Ended
  <2>3. lock[KeyOf[r]] = r /\ lock' = [lock EXCEPT ![KeyOf[r]] = NoRequest]
    BY <1>5 DEF Unlock, Working
  <2>4. ASSUME NEW s \in Request, req'[s] \in Working, req'[s] \notin {"locking", "looking"}
        PROVE  lock'[KeyOf[s]] = s
    <3>1. s # r /\ lock[KeyOf[s]] = s
      BY <2>1, <2>2, <2>4 DEF Working
    <3>2. QED
      BY <2>3, <3>1
  <2>5. QED
    BY <2>4
<1>6. ASSUME NEW k \in Key, LockExpires(k)
      PROVE  HoldersHold'
  BY <1>6 DEF LockExpires, Screened
<1>7. CASE UNCHANGED <<req, lock>>
  BY <1>7
<1>8. QED
  BY <1>2, <1>3, <1>4, <1>5, <1>6, <1>7 DEF CodNext, WindowsPass, ResolveReview, codVars

Clicked == Answered /\ Remembered /\ NoneBehind /\ OneOrderPerKey

(* A request that goes on, or ends, and orders nothing by it.              *)
LEMMA GoesOn ==
  ASSUME CodInv, codFaults.late = 0, Clicked, NEW r \in Request, NEW at \in {"new"} \cup Working \cup Ended, Moves(r, at),
         UNCHANGED <<answer, bought, orders>>,
         at \in Working => InFlight(r),
         r \in orders => at \in {"log", "note"} \/ req[r] \notin {"log", "note", "store"},
         at \in {"commit", "insert", "giveBack"} => req[r] \in {"commit", "insert", "giveBack"}
  PROVE  Clicked'
<1>1. req'[r] = at /\ \A s \in Request : s # r => req'[s] = req[s]
  BY RequestMoves DEF CodInv
<1>2. orders \subseteq Request
  BY DEF CodInv, CodTyped, CodTypeOK
<1>3. Answered'
  BY <1>1, <1>2 DEF Clicked, Answered
<1>4. Remembered'
  <2>1. \A s \in Request : InFlight(s)' => InFlight(s)
    BY <1>1 DEF InFlight
  <2>2. \A s \in orders : req'[s] \notin {"log", "note"} => req[s] \notin {"log", "note"}
    BY <1>1, <1>2
  <2>3. QED
    BY <2>1, <2>2 DEF Clicked, Remembered
<1>5. NoneBehind'
  BY <1>1 DEF Clicked, NoneBehind
<1>6. OneOrderPerKey'
  BY DEF Clicked, OneOrderPerKey
<1>7. QED
  BY <1>3, <1>4, <1>5, <1>6 DEF Clicked

LEMMA BeginClicked ==
  ASSUME CodInv, codFaults.late = 0, Clicked, NEW r \in Request, Begin(r)
  PROVE  Clicked'
<1>1. r \notin orders /\ UNCHANGED <<answer, bought, orders>> /\ req[r] = "new"
  BY DEF CodInv, OrdersFit, Begin, RequestAt
<1>2. CASE answer[KeyOf[r]] = NoRequest
  <2>1. Moves(r, "locking")
    BY <1>2 DEF Begin
  <2>2. req'[r] = "locking" /\ \A s \in Request : s # r => req'[s] = req[s]
    BY <2>1, RequestMoves DEF CodInv, Working
  <2>3. orders \subseteq Request
    BY DEF CodInv, CodTyped, CodTypeOK
  <2>4. Answered'
    BY <1>1, <2>2, <2>3 DEF Clicked, Answered
  <2>5. Remembered'
    <3>1. ASSUME NEW s \in orders, req[s] \notin {"log", "note"}
          PROVE  CartOf[s] \in bought \/ \A q \in Request : SameKey(q, s) => ~InFlight(q)'
      <4>1. CASE SameKey(r, s)
        <5>1. req[s] = "store"
          BY <1>2, <3>1, <4>1 DEF Clicked, Answered, SameKey
        <5>2. InFlight(s) /\ SameKey(s, s)
          BY <5>1 DEF InFlight, Working, SameKey
        <5>3. QED
          BY <2>3, <3>1, <5>2 DEF Clicked, Remembered
      <4>2. CASE ~SameKey(r, s)
        BY <2>2, <3>1, <4>2 DEF Clicked, Remembered, InFlight
      <4>3. QED
        BY <4>1, <4>2
    <3>2. \A s \in orders : req'[s] = req[s]
      BY <1>1, <2>2, <2>3
    <3>3. QED
      BY <1>1, <3>1, <3>2 DEF Remembered
  <2>6. NoneBehind' /\ OneOrderPerKey'
    BY <1>1, <2>2 DEF Clicked, NoneBehind, OneOrderPerKey
  <2>7. QED
    BY <2>4, <2>5, <2>6 DEF Clicked
<1>3. CASE answer[KeyOf[r]] # NoRequest
  <2>1. \E at \in {"replayed", "conflict"} : Moves(r, at)
    BY <1>3 DEF Begin, Replay
  <2>2. QED
    BY <1>1, <2>1, GoesOn DEF Working, Ended
<1>4. QED
  BY <1>2, <1>3

(* A cart that was ordered under the key is a duplicate, and one of plain  *)
(* facts is refused.                                                       *)
LEMMA ScreenClicked ==
  ASSUME Screened, ClickInv, codFaults.late = 0, NEW r \in Request, ScreenOrder(r)
  PROVE  Clicked'
<1> USE DEF ClickInv
<1>1. r \notin orders /\ UNCHANGED <<answer, bought, orders>> /\ req[r] = "prepare" /\ attempts' = attempts + 1
  BY DEF CodInv, OrdersFit, ScreenOrder, RequestAt, Screened
<1> DEFINE action == Evaluate(Enrich(FactsOf[CartOf[r]], attempts', CartOf[r] \in bought))
<1>2. Decided(r, action)
  BY DEF ScreenOrder
<1> HIDE DEF action
<1>3. CASE action = "reject"
  <2>1. Moves(r, "release")
    BY <1>2, <1>3 DEF Decided
  <2>2. QED
    BY <1>1, <2>1, GoesOn DEF Working, Clicked, InFlight
<1>4. CASE action # "reject"
  <2>1. Moves(r, "commit")
    BY <1>2, <1>4 DEF Decided
  <2>2. req'[r] = "commit" /\ \A s \in Request : s # r => req'[s] = req[s]
    BY <2>1, RequestMoves DEF CodInv, Working
  <2>3. orders \subseteq Request /\ attempts \in Nat
    BY DEF CodInv, CodTyped, CodTypeOK
  <2>4. CartOf[r] \notin bought
    <3> SUFFICES ASSUME CartOf[r] \in bought PROVE action = "reject"
      BY <1>4
    <3>1. attempts' < VelocityLimit
      BY <1>1, <2>1, <2>3, JudgedGrow DEF CodInv, Working, Judged
    <3>2. CartOf[r] \in Cart /\ Plain(FactsOf[CartOf[r]])
      BY CodAssumption DEF Screened
    <3> DEFINE facts == Enrich(FactsOf[CartOf[r]], attempts', CartOf[r] \in bought)
    <3>3. facts = FactsOf[CartOf[r]] \cup {"duplicate_order"}
      BY FraudAssumption, <1>1, <2>3, <3>1 DEF Enrich
    <3>4. Plain(facts) /\ "duplicate_order" \in facts
      BY <3>2, <3>3 DEF Plain, Facts
    <3> HIDE DEF facts
    <3>5. Evaluate(facts) = "reject"
      BY <3>4, DuplicateRejected DEF Screened
    <3>6. QED
      BY <3>5 DEF action, facts
  <2>5. ASSUME NEW s \in orders, SameKey(r, s) PROVE CartOf[r] # CartOf[s]
    <3>1. s # r /\ InFlight(r) /\ s \in Request
      BY <1>1, <2>3 DEF InFlight, Working
    <3>2. req[s] \notin {"log", "note"}
      BY <1>1, <2>5, <3>1, OneAtWork DEF InFlight, Working
    <3>3. CartOf[s] \in bought
      BY <2>5, <3>1, <3>2 DEF Remembered
    <3>4. QED
      BY <2>4, <3>3
  <2>6. Answered'
    BY <1>1, <2>2, <2>3 DEF Answered
  <2>7. Remembered'
    <3>1. \A q \in Request : InFlight(q)' => InFlight(q)
      BY <1>1, <2>2 DEF InFlight, Working
    <3>2. \A s \in orders : req'[s] = req[s]
      BY <1>1, <2>2, <2>3
    <3>3. QED
      BY <1>1, <3>1, <3>2 DEF Remembered
  <2>8. NoneBehind'
    BY <1>1, <2>2, <2>5 DEF NoneBehind
  <2>9. OneOrderPerKey'
    BY <1>1 DEF OneOrderPerKey
  <2>10. QED
    BY <2>6, <2>7, <2>8, <2>9 DEF Clicked
<1>5. QED
  BY <1>3, <1>4

LEMMA InsertClicked ==
  ASSUME ClickInv, codFaults.late = 0, NEW r \in Request, Insert(r)
  PROVE  Clicked'
<1> USE DEF ClickInv
<1>1. /\ req[r] = "insert" /\ r \notin orders /\ Moves(r, "log") /\ orders' = orders \cup {r}
      /\ UNCHANGED <<answer, bought>>
  BY DEF CodInv, OrdersFit, Insert, RequestAt
<1>2. req'[r] = "log" /\ \A s \in Request : s # r => req'[s] = req[s]
  BY <1>1, RequestMoves DEF CodInv, Working
<1>3. orders \subseteq Request
  BY DEF CodInv, CodTyped, CodTypeOK
<1>4. \A s \in orders : s # r /\ req'[s] = req[s] /\ (SameKey(r, s) => CartOf[r] # CartOf[s])
  BY <1>1, <1>2, <1>3 DEF NoneBehind
<1>5. Answered'
  BY <1>1, <1>2, <1>4 DEF Answered
<1>6. Remembered'
  <2>1. \A q \in Request : InFlight(q)' => InFlight(q)
    BY <1>1, <1>2 DEF InFlight, Working
  <2>2. QED
    BY <1>1, <1>2, <1>4, <2>1 DEF Remembered
<1>7. NoneBehind'
  <2>1. ASSUME NEW q \in Request, req'[q] \in {"commit", "insert", "giveBack"}, SameKey(q, r)
        PROVE  FALSE
    <3>1. q # r /\ req[q] = req'[q]
      BY <1>2, <2>1
    <3>2. QED
      BY <1>1, <2>1, <3>1, OneAtWork DEF InFlight, Working
  <2>2. QED
    BY <1>1, <1>2, <2>1 DEF NoneBehind
<1>8. OneOrderPerKey'
  BY <1>1, <1>4 DEF OneOrderPerKey, SameKey
<1>9. QED
  BY <1>5, <1>6, <1>7, <1>8 DEF Clicked

LEMMA NoteClicked ==
  ASSUME ClickInv, codFaults.late = 0, NEW r \in Request, Note(r)
  PROVE  Clicked'
<1> USE DEF ClickInv
<1>1. req[r] = "note" /\ Moves(r, "store") /\ bought' = bought \cup {CartOf[r]} /\ UNCHANGED <<answer, orders>>
  BY DEF Note, RequestAt
<1>2. req'[r] = "store" /\ \A s \in Request : s # r => req'[s] = req[s]
  BY <1>1, RequestMoves DEF CodInv, Working
<1>3. orders \subseteq Request
  BY DEF CodInv, CodTyped, CodTypeOK
<1>4. Answered'
  BY <1>1, <1>2, <1>3 DEF Answered
<1>5. Remembered'
  <2>1. \A q \in Request : InFlight(q)' => InFlight(q)
    BY <1>1, <1>2 DEF InFlight, Working
  <2>2. QED
    BY <1>1, <1>2, <1>3, <2>1 DEF Remembered
<1>6. NoneBehind' /\ OneOrderPerKey'
  BY <1>1, <1>2 DEF NoneBehind, OneOrderPerKey
<1>7. QED
  BY <1>4, <1>5, <1>6 DEF Clicked

LEMMA StoreClicked ==
  ASSUME ClickInv, codFaults.late = 0, NEW r \in Request, Store(r)
  PROVE  Clicked'
<1> USE DEF ClickInv
<1>1. req[r] = "store" /\ Moves(r, "unlock") /\ answer' = [answer EXCEPT ![KeyOf[r]] = r] /\ UNCHANGED <<bought, orders>>
  BY DEF Store, RequestAt
<1>2. req'[r] = "unlock" /\ \A s \in Request : s # r => req'[s] = req[s]
  BY <1>1, RequestMoves DEF CodInv, Working
<1>3. orders \subseteq Request /\ answer \in [Key -> Request \cup {NoRequest}]
  BY DEF CodInv, CodTyped, CodTypeOK
<1>4. Answered'
  BY CodAssumption, <1>1, <1>2, <1>3 DEF Answered
<1>5. Remembered'
  <2>1. \A q \in Request : InFlight(q)' => InFlight(q)
    BY <1>1, <1>2 DEF InFlight, Working
  <2>2. QED
    BY <1>1, <1>2, <1>3, <2>1 DEF Remembered
<1>6. NoneBehind' /\ OneOrderPerKey'
  BY <1>1, <1>2 DEF NoneBehind, OneOrderPerKey
<1>7. QED
  BY <1>4, <1>5, <1>6 DEF Clicked

LEMMA CountedInductive ==
  ASSUME Screened, ClickInv, [CodNext]_codVars
  PROVE  Counted'
<1> DEFINE Before == {"new", "locking", "looking", "prepare", "busy", "replayed", "conflict"}
<1>1. CodTyped /\ Counted /\ attempts \in Nat
  BY DEF ClickInv, CodInv, CodTyped, CodTypeOK
<1>2. ASSUME NEW r \in Request, Begin(r) \/ LookAgain(r) \/ Lock(r)
      PROVE  Counted'
  <2>1. UNCHANGED attempts /\ r \notin Judged
        /\ \E at \in {"locking", "looking", "prepare", "replayed", "conflict", "busy"} : Moves(r, at)
    BY <1>2 DEF Begin, LookAgain, Lock, Replay, RequestAt, Judged
  <2>2. QED
    BY <1>1, <2>1, JudgedGrow DEF Working, Ended
<1>3. ASSUME NEW r \in Request,
             \/ Refuse(r) \/ ScreenFails(r) \/ Commit(r) \/ Insert(r) \/ InsertFails(r) \/ GiveBack(r)
             \/ Log(r) \/ Note(r) \/ FailsLate(r) \/ Store(r) \/ Unlock(r) \/ Die(r)
      PROVE  Counted'
  <2>1. UNCHANGED attempts
    BY <1>3 DEF Refuse, ScreenFails, Commit, Insert, InsertFails, GiveBack, Log, Note, FailsLate, Store, Unlock, Die
  <2>2. \E at \in {"commit", "insert", "giveBack", "log", "note", "store", "unlock", "release", "placed", "failed", "dead"} :
           Moves(r, at)
    BY <1>3 DEF Refuse, ScreenFails, Decided, Commit, Insert, InsertFails, GiveBack, Log, Note, FailsLate, Store, Unlock, Die
  <2>3. QED
    BY <1>1, <2>1, <2>2, JudgedGrow DEF Working, Ended
<1>4. ASSUME NEW r \in Request, ScreenOrder(r)
      PROVE  Counted'
  <2>1. attempts' = attempts + 1 /\ r \notin Judged
    BY <1>4 DEF ScreenOrder, RequestAt, Judged, Screened
  <2>2. \E at \in {"commit", "release"} : Moves(r, at)
    BY <1>4 DEF ScreenOrder, Decided
  <2>3. QED
    BY <1>1, <2>1, <2>2, JudgedGrow DEF Working
<1>5. CASE WindowsPass
  <2>1. attempts' = 0 /\ Judged' = Judged /\ IsFiniteSet(Judged)
    BY <1>5, FS_Subset DEF WindowsPass, Judged, Screened
  <2>2. QED
    BY <2>1, FS_CardinalityType DEF Counted
<1>6. CASE UNCHANGED <<req, attempts>>
  BY <1>1, <1>6, JudgedStay
<1>7. QED
  BY <1>2, <1>3, <1>4, <1>5, <1>6 DEF CodNext, LockExpires, ResolveReview, codVars

LEMMA ClickInductive ==
  ASSUME Screened, ClickInv, [CodNext]_codVars
  PROVE  ClickInv'
<1>1. CodInv /\ CodInv' /\ HoldersHold' /\ Counted'
  BY CodInductive, HoldersInductive, CountedInductive DEF ClickInv
<1> DEFINE Stays == codFaults'.late = 0 => Clicked'
<1> SUFFICES Stays
  BY <1>1 DEF ClickInv, Clicked
<1>2. CodTyped /\ codFaults.late \in Nat
  BY <1>1 DEF CodInv, CodTyped, CodTypeOK
<1>3. codFaults.late = 0 => Clicked /\ OrdersFit
  BY DEF ClickInv, Clicked, CodInv
<1>4. ASSUME NEW r \in Request, Begin(r) PROVE Stays
  BY <1>1, <1>3, <1>4, BeginClicked DEF Begin
<1>5. ASSUME NEW r \in Request, ScreenOrder(r) PROVE Stays
  BY <1>1, <1>3, <1>5, ScreenClicked DEF ScreenOrder
<1>6. ASSUME NEW r \in Request, Insert(r) PROVE Stays
  BY <1>6, InsertClicked DEF Insert
<1>7. ASSUME NEW r \in Request, Note(r) PROVE Stays
  BY <1>7, NoteClicked DEF Note
<1>8. ASSUME NEW r \in Request, Store(r) PROVE Stays
  BY <1>8, StoreClicked DEF Store
<1>9. ASSUME NEW r \in Request, Lock(r) \/ LookAgain(r) \/ Refuse(r) \/ Commit(r) \/ GiveBack(r) \/ Log(r) \/ Unlock(r)
      PROVE  Stays
  <2>1. UNCHANGED <<answer, bought, orders, codFaults>>
    BY <1>9 DEF Lock, LookAgain, Refuse, Commit, GiveBack, Log, Unlock
  <2>2. req[r] \in {"locking", "looking", "prepare", "commit", "giveBack", "log", "unlock", "release"}
    BY <1>9 DEF Lock, LookAgain, Refuse, Commit, GiveBack, Log, Unlock, RequestAt
  <2>3. PICK at \in ({"new"} \cup Working \cup Ended) :
          /\ Moves(r, at)
          /\ at \in {"commit", "insert", "giveBack"} => req[r] \in {"commit", "insert", "giveBack"}
          /\ req[r] = "log" => at = "note"
    BY <1>9 DEF Lock, LookAgain, Refuse, Commit, GiveBack, Log, Unlock, Replay, RequestAt, Working, Ended
  <2>4. InFlight(r)
    BY <2>2 DEF InFlight, Working
  <2>5. QED
    BY <1>1, <1>3, <2>1, <2>2, <2>3, <2>4, GoesOn
<1>10. ASSUME NEW r \in Request, ScreenFails(r) PROVE Stays
  <2>1. UNCHANGED <<answer, bought, orders>> /\ req[r] = "prepare" /\ Moves(r, "release") /\ Fails("fraud", 0)
    BY <1>10 DEF ScreenFails, EvaluateFails, Decided, RequestAt, Screened
  <2>2. codFaults'.late = codFaults.late
    BY <1>2, <2>1, FailsFit
  <2>3. codFaults.late = 0 => r \notin orders
    BY <1>3, <2>1 DEF OrdersFit
  <2>4. QED
    BY <1>1, <1>3, <2>1, <2>2, <2>3, GoesOn DEF Working, InFlight
<1>11. ASSUME NEW r \in Request, InsertFails(r) PROVE Stays
  <2>1. CASE Fails("insert", 0) /\ UNCHANGED orders
    <3>1. codFaults'.late = codFaults.late
      BY <1>2, <2>1, FailsFit
    <3>2. UNCHANGED <<answer, bought, orders>> /\ req[r] = "insert" /\ Moves(r, "giveBack")
      BY <1>11, <2>1 DEF InsertFails, RequestAt
    <3>3. codFaults.late = 0 => r \notin orders
      BY <1>3, <3>2 DEF OrdersFit
    <3>4. QED
      BY <1>1, <1>3, <3>1, <3>2, <3>3, GoesOn DEF Working, InFlight
  <2>2. CASE Fails("unsure", 1)
    BY <1>2, <2>2, FailsFit
  <2>3. QED
    BY <1>11, <2>1, <2>2 DEF InsertFails
<1>12. ASSUME NEW r \in Request, FailsLate(r) PROVE Stays
  BY <1>2, <1>12, FailsFit DEF FailsLate
<1>13. ASSUME NEW r \in Request, Die(r) PROVE Stays
  <2>1. CASE req[r] \in {"insert", "giveBack", "log", "note", "store"}
    <3>1. Fails("die", 1)
      BY <1>13, <2>1 DEF Die
    <3>2. QED
      BY <1>2, <3>1, FailsFit
  <2>2. CASE req[r] \notin {"insert", "giveBack", "log", "note", "store"}
    <3>1. Fails("die", 0) /\ Moves(r, "dead") /\ UNCHANGED <<answer, bought, orders>>
      BY <1>13, <2>2 DEF Die
    <3>2. codFaults'.late = codFaults.late
      BY <1>2, <3>1, FailsFit
    <3>3. QED
      BY <1>1, <1>3, <2>2, <3>1, <3>2, GoesOn DEF Working, Ended
  <2>3. QED
    BY <2>1, <2>2
<1>14. CASE WindowsPass
  <2>1. UNCHANGED <<req, answer, orders, codFaults>> /\ \A r \in Request : ~InFlight(r)
    BY <1>14 DEF WindowsPass
  <2>2. \A r \in Request : ~InFlight(r)'
    BY <2>1 DEF InFlight
  <2>3. QED
    BY <1>3, <2>1, <2>2 DEF Clicked, Answered, Remembered, NoneBehind, OneOrderPerKey
<1>15. CASE UNCHANGED <<req, answer, bought, orders, codFaults>>
  BY <1>3, <1>15 DEF Clicked, Answered, Remembered, NoneBehind, OneOrderPerKey, InFlight
<1>16. QED
  BY <1>4, <1>5, <1>6, <1>7, <1>8, <1>9, <1>10, <1>11, <1>12, <1>13, <1>14, <1>15
     DEF CodNext, LockExpires, ResolveReview, codVars

LEMMA ClickCorrect == ClickInv => CodTypeOK /\ UnitsMatchOrders /\ OneOrderUnlessCut
BY CodCorrect DEF ClickInv, OneOrderUnlessCut

-----------------------------------------------------------------------------
(* The listing on Facebook, while no call crossed another.                 *)

(* A product that there is, or none.                                       *)
Made(p) ==
  \/ p = Gone
  \/ /\ DOMAIN p = {"exists", "price", "active", "qty", "synced", "error", "review"}
     /\ p.exists = TRUE /\ p.synced \in BOOLEAN

Calling(c) == agent[c].at \in {"posting", "marking"}
Lists(c) == Calling(c) /\ agent[c].has.exists = TRUE

(* What an agent is at tells what it is for, and what it has read.         *)
Aimed(c) ==
  /\ DOMAIN agent[c] = {"at", "for", "form", "has", "tries"}
  /\ agent[c].at \in {"before", "after", "pushing"} => agent[c].for = "edit"
  /\ agent[c].at = "before" => DOMAIN agent[c].form \subseteq {"price", "active", "qty"}
  /\ agent[c].at = "deleting" => agent[c].for = "delete"
  /\ Calling(c) => \/ agent[c].for \in {"sync", "edit", "none"} /\ agent[c].has.exists = TRUE
                   \/ agent[c].for \in {"remove", "delete"} /\ agent[c].has.exists = FALSE
  /\ agent[c].at = "marking" => agent[c].for # "delete"
  /\ agent[c].at = "idle" => agent[c].for = "none"
  /\ c = TheLoop => agent[c].for = "none"

CallersTyped ==
  /\ Made(product) /\ listing.listed \in BOOLEAN /\ wanted \in BOOLEAN /\ crossed \in BOOLEAN
  /\ DOMAIN agent = Agents /\ \A c \in Agents : Aimed(c)

(* A first listing that landed is about to be marked.                      *)
Landed(c) == agent[c].at = "marking" /\ agent[c].for = "sync"
Leaving(c) == agent[c].at = "posting" /\ agent[c].for = "delete"

(* While nothing crossed: who lists a product does it on a product marked  *)
(* as listed, but for the first time; and what the dashboard took down is  *)
(* listed by no one.                                                       *)
ListingsFit ==
  /\ \A c \in Agents : Lists(c) /\ agent[c].for # "sync" /\ product.exists => product.synced
  /\ listing.listed /\ product.exists => product.synced \/ \E c \in Agents : Landed(c)
  /\ ~wanted => \A c \in Agents : ~Lists(c)
  /\ ~wanted /\ product.exists => ~product.synced
  /\ ~wanted /\ listing.listed => \E c \in Agents : Leaving(c)

CatalogueInv == CallersTyped /\ (~crossed => ListingsFit)

LEMMA CatalogueCorrect == CatalogueInv => OffUnlessCrossed
BY DEF CatalogueInv, CallersTyped, Aimed, ListingsFit, Leaving, OffUnlessCrossed, DashboardRests, Agents

LEMMA CatalogueInitially == CatalogueInit => CatalogueInv
<1> SUFFICES ASSUME CatalogueInit PROVE CatalogueInv
  OBVIOUS
<1>1. /\ agent = [c \in Agents |-> NotCalling] /\ wanted = FALSE /\ crossed = FALSE /\ listing.listed = FALSE
      /\ product.exists = TRUE /\ product.synced = FALSE
      /\ DOMAIN product = {"exists", "price", "active", "qty", "synced", "error", "review"}
  BY DEF CatalogueInit, NoListing
<1>2. \A c \in Agents : Aimed(c) /\ ~Calling(c)
  BY <1>1 DEF Aimed, Calling, NotCalling
<1>3. QED
  BY <1>1, <1>2 DEF CatalogueInv, CallersTyped, ListingsFit, Made, Lists
-----------------------------------------------------------------------------
(* What a step makes of an agent.                                          *)
Becomes(c, at, for, has) ==
  /\ DOMAIN agent' = Agents /\ DOMAIN agent'[c] = {"at", "for", "form", "has", "tries"}
  /\ agent'[c].at = at /\ agent'[c].for = for /\ agent'[c].has = has
  /\ \A o \in Agents \ {c} : agent'[o] = agent[o]

LEMMA GoesToBecomes ==
  ASSUME CallersTyped, NEW c \in Agents, NEW at, GoesTo(c, at)
  PROVE  Becomes(c, at, agent[c].for, agent[c].has) /\ agent'[c].form = agent[c].form
BY DEF CallersTyped, Aimed, GoesTo, Becomes

LEMMA PostsBecomes ==
  ASSUME CallersTyped, NEW c \in Agents, NEW has, Posts(c, has)
  PROVE  Becomes(c, "posting", agent[c].for, has)
BY DEF CallersTyped, Aimed, Posts, Becomes

LEMMA EndsBecomes ==
  ASSUME CallersTyped, NEW c \in Agents, Ends(c)
  PROVE  Becomes(c, "idle", "none", Gone)
BY DEF CallersTyped, Aimed, Ends, Becomes, NotCalling

LEMMA StartsBecomes ==
  ASSUME CallersTyped, NEW c \in Agents, NEW for, NEW at, NEW form, NEW has, Starts(c, for, at, form, has)
  PROVE  Becomes(c, at, for, has) /\ agent'[c].form = form /\ agent[c].at = "idle"
BY DEF CallersTyped, Aimed, Starts, Becomes

LEMMA RetryBecomes ==
  ASSUME CallersTyped, NEW c \in Agents, agent' = [agent EXCEPT ![c].tries = @ + 1]
  PROVE  Becomes(c, agent[c].at, agent[c].for, agent[c].has) /\ agent'[c].form = agent[c].form
BY DEF CallersTyped, Aimed, Becomes

(* A step that lists nothing, and after which what was marked as listed    *)
(* still is.                                                               *)
LEMMA ListsNothing ==
  ASSUME CatalogueInv, NEW c \in Agents, NEW at, NEW for, NEW has, Becomes(c, at, for, has), Aimed(c)',
         Made(product'), product'.exists => product.exists, product'.exists => product'.synced = product.synced,
         UNCHANGED <<listing, wanted, crossed>>,
         ~Landed(c), ~Leaving(c), at \in {"posting", "marking"} /\ has.exists = TRUE => Lists(c) /\ for = agent[c].for
  PROVE  CatalogueInv'
<1>1. /\ \A o \in Agents : o # c => Aimed(o)' /\ Landed(o)' = Landed(o) /\ Leaving(o)' = Leaving(o) /\ Lists(o)' = Lists(o)
      /\ Lists(c)' => Lists(c) /\ agent'[c].for = agent[c].for
  BY DEF CatalogueInv, CallersTyped, Becomes, Aimed, Landed, Leaving, Lists, Calling
<1>2. CallersTyped'
  BY <1>1 DEF CatalogueInv, CallersTyped, Becomes
<1>3. ASSUME ~crossed, ListingsFit PROVE ListingsFit'
  BY <1>1, <1>3 DEF ListingsFit, Becomes
<1>4. QED
  BY <1>2, <1>3 DEF CatalogueInv

(* Requests that begin, and steps of an edit that call nobody.             *)
LEMMA DeskLists ==
  ASSUME CatalogueInv, NEW h \in Dashboard,
         \/ \E form \in Forms : BeginEdit(h, form)
         \/ BeginRemove(h) \/ BeginDelete(h) \/ BeginRefresh(h)
  PROVE  CatalogueInv'
<1>1. h \in Agents /\ h # TheLoop /\ CallersTyped
  BY CatalogueAssumption DEF Agents, CatalogueInv
<1>2. ASSUME NEW form \in Forms, BeginEdit(h, form) PROVE CatalogueInv'
  <2>1. Becomes(h, "before", "edit", product) /\ agent'[h].form = form /\ agent[h].at = "idle"
    BY <1>1, <1>2, StartsBecomes DEF BeginEdit
  <2>2. Aimed(h)'
    BY CatalogueAssumption, <1>1, <2>1 DEF Becomes, Aimed, Calling
  <2>3. QED
    BY <1>1, <1>2, <2>1, <2>2, ListsNothing DEF BeginEdit, CallersTyped, Landed, Leaving
<1>3. CASE BeginRemove(h)
  <2>1. Becomes(h, "posting", "remove", Gone) /\ agent[h].at = "idle"
    BY <1>1, <1>3, StartsBecomes DEF BeginRemove
  <2>2. Aimed(h)'
    BY <1>1, <2>1 DEF Becomes, Aimed, Calling, Gone
  <2>3. QED
    BY <1>1, <1>3, <2>1, <2>2, ListsNothing DEF BeginRemove, CallersTyped, Landed, Leaving, Gone
<1>4. CASE BeginDelete(h)
  <2>1. Becomes(h, "deleting", "delete", product) /\ agent[h].at = "idle"
    BY <1>1, <1>4, StartsBecomes DEF BeginDelete
  <2>2. Aimed(h)'
    BY <1>1, <2>1 DEF Becomes, Aimed, Calling
  <2>3. QED
    BY <1>1, <1>4, <2>1, <2>2, ListsNothing DEF BeginDelete, CallersTyped, Landed, Leaving
<1>5. CASE BeginRefresh(h)
  <2>1. Becomes(h, "reviewing", "refresh", product) /\ agent[h].at = "idle"
    BY <1>1, <1>5, StartsBecomes DEF BeginRefresh
  <2>2. Aimed(h)'
    BY <1>1, <2>1 DEF Becomes, Aimed, Calling
  <2>3. QED
    BY <1>1, <1>5, <2>1, <2>2, ListsNothing DEF BeginRefresh, CallersTyped, Landed, Leaving
<1>6. QED
  BY <1>2, <1>3, <1>4, <1>5

LEMMA Editing ==
  ASSUME CatalogueInv, NEW h \in Dashboard, SaveEdit(h) \/ ReadSaved(h)
  PROVE  CatalogueInv'
<1>1. h \in Agents /\ h # TheLoop /\ CallersTyped /\ Aimed(h)
  BY CatalogueAssumption DEF Agents, CatalogueInv, CallersTyped
<1>2. Made(product') /\ (product'.exists => product.exists) /\ (product'.exists => product'.synced = product.synced)
  <2>1. CASE SaveEdit(h) /\ product.exists
    <3>1. /\ DOMAIN product' = DOMAIN product
          /\ \A f \in DOMAIN product : product'[f] = IF f \in DOMAIN agent[h].form THEN agent[h].form[f] ELSE product[f]
      BY <2>1 DEF SaveEdit
    <3>2. DOMAIN agent[h].form \subseteq {"price", "active", "qty"}
      BY <1>1, <2>1 DEF SaveEdit, Aimed
    <3>3. QED
      BY <1>1, <2>1, <3>1, <3>2 DEF CallersTyped, Made, Gone
  <2>2. CASE UNCHANGED product
    BY <1>1, <2>2 DEF CallersTyped
  <2>3. QED
    BY <2>1, <2>2 DEF SaveEdit, ReadSaved
<1>3. (\E at \in {"after", "pushing"} : GoesTo(h, at)) \/ Ends(h)
  BY DEF SaveEdit, ReadSaved
<1>4. agent[h].at \in {"before", "after"} /\ UNCHANGED <<listing, wanted, crossed>>
  BY DEF SaveEdit, ReadSaved
<1>5. ASSUME NEW at \in {"after", "pushing"}, GoesTo(h, at) PROVE CatalogueInv'
  <2>1. Becomes(h, at, agent[h].for, agent[h].has)
    BY <1>1, <1>5, GoesToBecomes
  <2>2. Aimed(h)'
    BY <1>1, <1>4, <2>1 DEF Becomes, Aimed, Calling
  <2>3. QED
    BY <1>1, <1>2, <1>4, <2>1, <2>2, ListsNothing DEF Landed, Leaving
<1>6. CASE Ends(h)
  <2>1. Becomes(h, "idle", "none", Gone)
    BY <1>1, <1>6, EndsBecomes
  <2>2. Aimed(h)'
    BY <1>1, <1>4, <2>1 DEF Becomes, Aimed, Calling
  <2>3. QED
    BY <1>1, <1>2, <1>4, <2>1, <2>2, ListsNothing DEF Landed, Leaving
<1>7. QED
  BY <1>3, <1>5, <1>6

(* Whoever is about to list has read a product that was marked as listed,  *)
(* or has the dashboard's word for it.                                     *)
LEMMA StartsToList ==
  ASSUME CatalogueInv, NEW c \in Agents, NEW for \in {"sync", "edit", "none"}, Becomes(c, "posting", for, product), Aimed(c)',
         product.exists, UNCHANGED <<product, listing, crossed>>, wanted' \in BOOLEAN,
         ~Landed(c), ~Leaving(c),
         IF for = "sync" THEN wanted' = TRUE ELSE product.synced /\ wanted' = wanted
  PROVE  CatalogueInv'
<1>1. /\ \A o \in Agents : o # c => Aimed(o)' /\ Landed(o)' = Landed(o) /\ Leaving(o)' = Leaving(o) /\ Lists(o)' = Lists(o)
      /\ \A o \in Agents : o # c => agent'[o].for = agent[o].for
      /\ agent'[c].for = for
  BY DEF CatalogueInv, CallersTyped, Becomes, Aimed, Landed, Leaving, Lists, Calling
<1>2. CallersTyped'
  BY <1>1 DEF CatalogueInv, CallersTyped, Becomes
<1>3. ASSUME ~crossed, ListingsFit PROVE ListingsFit'
  BY <1>1, <1>3 DEF ListingsFit
<1>4. QED
  BY <1>2, <1>3 DEF CatalogueInv

LEMMA PushesFit ==
  ASSUME CatalogueInv, NEW h \in Dashboard, PushReads(h)
  PROVE  CatalogueInv'
<1>1. h \in Agents /\ h # TheLoop /\ CallersTyped /\ Aimed(h)
  BY CatalogueAssumption DEF Agents, CatalogueInv, CallersTyped
<1>2. agent[h].at = "pushing" /\ agent[h].for = "edit" /\ UNCHANGED <<product, listing, wanted, crossed>>
  BY <1>1 DEF PushReads, Aimed
<1>3. CASE product.exists /\ product.synced
  <2>1. Becomes(h, "posting", "edit", product)
    BY <1>1, <1>2, <1>3, PostsBecomes DEF PushReads
  <2>2. product.exists = TRUE
    BY <1>1, <1>3 DEF CallersTyped, Made, Gone
  <2>3. Aimed(h)'
    BY <1>1, <2>1, <2>2 DEF Becomes, Aimed, Calling
  <2>4. QED
    BY <1>1, <1>2, <1>3, <2>1, <2>3, StartsToList DEF CallersTyped, Landed, Leaving
<1>4. CASE ~(product.exists /\ product.synced)
  <2>1. Becomes(h, "idle", "none", Gone)
    BY <1>1, <1>4, EndsBecomes DEF PushReads
  <2>2. Aimed(h)'
    BY <1>1, <2>1 DEF Becomes, Aimed, Calling
  <2>3. QED
    BY <1>1, <1>2, <2>1, <2>2, ListsNothing DEF CallersTyped, Landed, Leaving
<1>5. QED
  BY <1>3, <1>4

LEMMA ListingBegins ==
  ASSUME CatalogueInv, LoopLists \/ \E h \in Dashboard : BeginSync(h)
  PROVE  CatalogueInv'
<1>1. CallersTyped
  BY DEF CatalogueInv
<1>2. product.exists => product.exists = TRUE
  BY <1>1 DEF CallersTyped, Made, Gone
<1>3. ASSUME NEW h \in Dashboard, BeginSync(h) PROVE CatalogueInv'
  <2>1. h \in Agents /\ h # TheLoop /\ product.exists /\ wanted' = TRUE /\ UNCHANGED <<product, listing, crossed>>
    BY CatalogueAssumption, <1>3 DEF Agents, BeginSync
  <2>2. Becomes(h, "posting", "sync", product) /\ agent[h].at = "idle"
    BY <1>1, <1>3, <2>1, StartsBecomes DEF BeginSync
  <2>3. Aimed(h)'
    BY <1>2, <2>1, <2>2 DEF Becomes, Aimed, Calling
  <2>4. QED
    BY <2>1, <2>2, <2>3, StartsToList DEF Landed, Leaving
<1>4. CASE LoopLists
  <2>1. /\ TheLoop \in Agents /\ product.exists /\ product.synced /\ UNCHANGED <<product, listing, wanted, crossed>>
        /\ agent[TheLoop].for = "none" /\ agent[TheLoop].at = "idle"
    BY <1>1, <1>4 DEF Agents, LoopLists, CallersTyped, Aimed
  <2>2. Becomes(TheLoop, "posting", "none", product)
    BY <1>1, <1>4, <2>1, PostsBecomes DEF LoopLists
  <2>3. Aimed(TheLoop)'
    BY <1>2, <2>1, <2>2 DEF Becomes, Aimed, Calling
  <2>4. QED
    BY <1>1, <2>1, <2>2, <2>3, StartsToList DEF CallersTyped, Landed, Leaving
<1>5. QED
  BY <1>3, <1>4

LEMMA TakenDown ==
  ASSUME CatalogueInv, NEW h \in Dashboard, EndRemove(h)
  PROVE  CatalogueInv'
<1>1. h \in Agents /\ h # TheLoop /\ CallersTyped /\ Aimed(h)
  BY CatalogueAssumption DEF Agents, CatalogueInv, CallersTyped
<1>2. agent[h].at = "marking" /\ agent[h].for = "remove" /\ wanted' = FALSE /\ UNCHANGED listing
  BY DEF EndRemove
<1>3. Becomes(h, "idle", "none", Gone)
  BY <1>1, EndsBecomes DEF EndRemove
<1>4. Aimed(h)'
  BY <1>1, <1>3 DEF Becomes, Aimed, Calling
<1>5. Made(product') /\ (product'.exists => product.exists /\ product'.synced = FALSE)
  <2>1. CASE product.exists
    <3>1. /\ DOMAIN product = {"exists", "price", "active", "qty", "synced", "error", "review"}
          /\ product.exists = TRUE
      BY <1>1, <2>1 DEF CallersTyped, Made, Gone
    <3>2. product' = [product EXCEPT !.synced = FALSE, !.error = FALSE, !.review = FALSE]
      BY <2>1 DEF EndRemove
    <3>3. DOMAIN product' = DOMAIN product /\ product'.exists = product.exists /\ product'.synced = FALSE
      BY <3>1, <3>2
    <3>4. QED
      BY <3>1, <3>3 DEF Made
  <2>2. CASE ~product.exists
    BY <1>1, <2>2 DEF EndRemove, CallersTyped
  <2>3. QED
    BY <2>1, <2>2
<1>6. crossed' \in BOOLEAN
  BY Zenon DEF EndRemove
<1>7. \A o \in Agents : o # h => Aimed(o)' /\ Lists(o)' = Lists(o)
  BY <1>1, <1>3 DEF CallersTyped, Becomes, Aimed, Lists, Calling
<1>8. CallersTyped'
  BY <1>1, <1>2, <1>3, <1>4, <1>5, <1>6, <1>7 DEF CallersTyped, Becomes
<1>9. ASSUME ~crossed' PROVE ListingsFit'
  <2>1. ~crossed /\ ~UnderWay(h) /\ ~listing.listed
    BY <1>9, Zenon DEF EndRemove
  <2>2. \A o \in Agents : o # h => ~Lists(o)
    BY <2>1 DEF UnderWay, Lists, Calling
  <2>3. \A o \in Agents : ~Lists(o)'
    BY <1>3, <1>7, <2>2 DEF Becomes, Lists, Calling
  <2>4. QED
    BY <1>2, <1>5, <2>1, <2>3 DEF ListingsFit
<1>10. QED
  BY <1>8, <1>9 DEF CatalogueInv

LEMMA DeletedFits ==
  ASSUME CatalogueInv, NEW h \in Dashboard, DeleteProduct(h)
  PROVE  CatalogueInv'
<1>1. h \in Agents /\ h # TheLoop /\ CallersTyped /\ Aimed(h)
  BY CatalogueAssumption DEF Agents, CatalogueInv, CallersTyped
<1>2. agent[h].at = "deleting" /\ agent[h].for = "delete" /\ product' = Gone /\ UNCHANGED listing
  BY <1>1 DEF DeleteProduct, Aimed
<1> DEFINE leaves == product.exists /\ agent[h].has.synced
<1>3. IF leaves THEN Becomes(h, "posting", "delete", Gone) ELSE Becomes(h, "idle", "none", Gone)
  BY <1>1, <1>2, PostsBecomes, EndsBecomes DEF DeleteProduct
<1>4. Aimed(h)'
  BY <1>1, <1>3 DEF Becomes, Aimed, Calling, Gone
<1>5. wanted' = IF product.exists THEN FALSE ELSE wanted
  BY DEF DeleteProduct
<1>6. crossed' \in BOOLEAN
  BY Zenon DEF DeleteProduct
<1>7. /\ \A o \in Agents : o # h => Aimed(o)' /\ Lists(o)' = Lists(o) /\ Leaving(o)' = Leaving(o)
      /\ ~Lists(h)' /\ ~Landed(h) /\ ~Leaving(h)
  BY <1>1, <1>2, <1>3 DEF CallersTyped, Becomes, Aimed, Lists, Leaving, Landed, Calling, Gone
<1>8. CallersTyped'
  BY <1>1, <1>2, <1>3, <1>4, <1>5, <1>6, <1>7 DEF CallersTyped, Becomes, Made
<1>9. ASSUME ~crossed' PROVE ListingsFit'
  <2>1. ~crossed /\ ~UnderWay(h) /\ (product.exists => product.synced = agent[h].has.synced)
    BY <1>9, Zenon DEF DeleteProduct
  <2>2. \A o \in Agents : o # h => ~Lists(o)
    BY <2>1 DEF UnderWay, Lists, Calling
  <2>3. ListingsFit
    BY <2>1 DEF CatalogueInv
  <2>4. \A o \in Agents : ~Lists(o)'
    BY <1>7, <2>2
  <2>5. ~Gone.exists
    BY DEF Gone
  <2>6. ASSUME ~wanted', listing.listed PROVE \E o \in Agents : Leaving(o)'
    <3>1. CASE ~product.exists
      BY <1>5, <1>7, <2>3, <2>6, <3>1 DEF ListingsFit
    <3>2. CASE product.exists
      <4>1. \A o \in Agents : Landed(o) => Lists(o)
        BY <1>1 DEF CallersTyped, Aimed, Landed, Lists, Calling
      <4>2. product.synced
        BY <1>7, <2>2, <2>3, <2>6, <3>2, <4>1 DEF ListingsFit
      <4>3. Becomes(h, "posting", "delete", Gone)
        BY <1>3, <2>1, <3>2, <4>2
      <4>4. QED
        BY <1>1, <4>3 DEF Leaving, Becomes
    <3>3. QED
      BY <3>1, <3>2
  <2>7. QED
    BY <1>2, <2>4, <2>5, <2>6 DEF ListingsFit
<1>10. QED
  BY <1>8, <1>9 DEF CatalogueInv

LEMMA RequestLists ==
  ASSUME NEW p
  PROVE  RequestFor(p).listed \in BOOLEAN /\ (RequestFor(p).listed => p.exists)
BY DEF RequestFor, NoListing

LEMMA LandsFit ==
  ASSUME CatalogueInv, NEW c \in Agents, Land(c)
  PROVE  CatalogueInv'
<1>1. CallersTyped /\ Aimed(c)
  BY DEF CatalogueInv, CallersTyped
<1>2. agent[c].at = "posting" /\ listing' = RequestFor(agent[c].has) /\ UNCHANGED <<product, wanted, crossed>>
  BY DEF Land
<1>3. IF agent[c].for = "delete" THEN Becomes(c, "idle", "none", Gone)
      ELSE Becomes(c, "marking", agent[c].for, agent[c].has)
  BY <1>1, EndsBecomes, GoesToBecomes DEF Land
<1>4. Aimed(c)'
  BY <1>1, <1>2, <1>3 DEF Becomes, Aimed, Calling
<1>5. /\ \A o \in Agents : o # c => /\ Aimed(o)' /\ Lists(o)' = Lists(o) /\ Leaving(o)' = Leaving(o)
                                    /\ Landed(o)' = Landed(o) /\ agent'[o].for = agent[o].for
      /\ Lists(c)' => Lists(c) /\ agent'[c].for = agent[c].for
      /\ Lists(c) /\ agent[c].for = "sync" => Landed(c)'
  BY <1>1, <1>2, <1>3 DEF CallersTyped, Becomes, Aimed, Lists, Leaving, Landed, Calling
<1>6. listing'.listed \in BOOLEAN /\ (listing'.listed => Lists(c))
  BY <1>1, <1>2, RequestLists DEF Aimed, Lists, Calling
<1>7. CallersTyped'
  BY <1>1, <1>2, <1>3, <1>4, <1>5, <1>6 DEF CallersTyped, Becomes
<1>8. ASSUME ~crossed, ListingsFit PROVE ListingsFit'
  BY <1>2, <1>5, <1>6, <1>8 DEF ListingsFit
<1>9. QED
  BY <1>2, <1>7, <1>8 DEF CatalogueInv

LEMMA FailuresFit ==
  ASSUME CatalogueInv, NEW c \in Agents, NEW landed \in BOOLEAN, NEW passing \in BOOLEAN, CallFails(c, landed, passing)
  PROVE  CatalogueInv'
<1>1. CallersTyped /\ Aimed(c)
  BY DEF CatalogueInv, CallersTyped
<1>2. agent[c].at = "posting" /\ UNCHANGED <<product, wanted>>
  BY DEF CallFails
<1>3. listing' = IF landed THEN RequestFor(agent[c].has) ELSE listing
  BY DEF CallFails
<1>4. \/ Becomes(c, "posting", agent[c].for, agent[c].has) /\ agent[c].for \in {"edit", "none"}
      \/ Becomes(c, "erring", agent[c].for, agent[c].has)
      \/ Becomes(c, "idle", "none", Gone)
  <2>1. CASE agent' = [agent EXCEPT ![c].tries = @ + 1] /\ agent[c].for \in {"edit", "none"}
    BY <1>1, <1>2, <2>1, RetryBecomes
  <2>2. CASE GoesTo(c, "erring")
    BY <1>1, <2>2, GoesToBecomes
  <2>3. CASE Ends(c)
    BY <1>1, <2>3, EndsBecomes
  <2>4. QED
    BY <2>1, <2>2, <2>3, Zenon DEF CallFails, TriesAgain
<1>5. Aimed(c)'
  BY <1>1, <1>2, <1>4 DEF Becomes, Aimed, Calling
<1>6. /\ \A o \in Agents : o # c => /\ Aimed(o)' /\ Lists(o)' = Lists(o) /\ Leaving(o)' = Leaving(o)
                                    /\ Landed(o)' = Landed(o) /\ agent'[o].for = agent[o].for
      /\ Lists(c)' => Lists(c) /\ agent'[c].for = agent[c].for
      /\ ~Landed(c)
  BY <1>1, <1>2, <1>4 DEF CallersTyped, Becomes, Aimed, Lists, Leaving, Landed, Calling
<1>7. crossed' \in BOOLEAN
  BY Zenon DEF CallFails
<1>8. listing'.listed \in BOOLEAN /\ (listing'.listed => listing.listed \/ (landed /\ Lists(c)))
  <2>1. CASE landed
    BY <1>1, <1>2, <1>3, <2>1, RequestLists DEF Aimed, Lists, Calling
  <2>2. CASE ~landed
    BY <1>1, <1>3, <2>2 DEF CallersTyped
  <2>3. QED
    BY <2>1, <2>2
<1>9. CallersTyped'
  BY <1>1, <1>2, <1>4, <1>5, <1>6, <1>7, <1>8 DEF CallersTyped, Becomes
<1>10. ASSUME ~crossed' PROVE ListingsFit'
  <2>1. ~crossed /\ agent[c].for # "delete" /\ (landed => agent[c].for # "sync")
    BY <1>10, Zenon DEF CallFails
  <2>2. ListingsFit /\ ~Leaving(c)
    BY <2>1 DEF CatalogueInv, Leaving
  <2>3. QED
    BY <1>2, <1>6, <1>8, <2>1, <2>2 DEF ListingsFit
<1>11. QED
  BY <1>9, <1>10 DEF CatalogueInv

LEMMA EndingsFit ==
  ASSUME CatalogueInv, NEW c \in Agents, ApplyReview(c) \/ NoteError(c)
  PROVE  CatalogueInv'
<1>1. CallersTyped /\ Aimed(c)
  BY DEF CatalogueInv, CallersTyped
<1>2. agent[c].at \in {"reviewing", "erring"} /\ UNCHANGED <<listing, wanted, crossed>>
  BY DEF ApplyReview, NoteError
<1>3. Becomes(c, "idle", "none", Gone)
  BY <1>1, EndsBecomes DEF ApplyReview, NoteError
<1>4. Aimed(c)'
  BY <1>1, <1>3 DEF Becomes, Aimed, Calling
<1>5. Made(product') /\ (product'.exists => product.exists) /\ (product'.exists => product'.synced = product.synced)
  BY <1>1 DEF ApplyReview, NoteError, CallersTyped, Made, Gone
<1>6. QED
  BY <1>1, <1>2, <1>3, <1>4, <1>5, ListsNothing DEF Landed, Leaving

LEMMA MarksFit ==
  ASSUME CatalogueInv, NEW c \in Agents, MarkSynced(c)
  PROVE  CatalogueInv'
<1>1. CallersTyped /\ Aimed(c)
  BY DEF CatalogueInv, CallersTyped
<1>2. /\ agent[c].at = "marking" /\ agent[c].for # "remove" /\ UNCHANGED <<listing, wanted, crossed>>
      /\ Lists(c) /\ ~Leaving(c)
  BY <1>1 DEF MarkSynced, Aimed, Lists, Calling, Leaving
<1>3. Becomes(c, "idle", "none", Gone) \/ Becomes(c, "reviewing", agent[c].for, agent[c].has)
  BY <1>1, EndsBecomes, GoesToBecomes DEF MarkSynced
<1>4. Aimed(c)'
  BY <1>1, <1>2, <1>3 DEF Becomes, Aimed, Calling
<1>5. /\ Made(product') /\ (product'.exists => product.exists) /\ (product.synced /\ product'.exists => product'.synced)
      /\ product'.exists /\ agent[c].for = "sync" => product'.synced
  <2>1. c = TheLoop => agent[c].for # "sync"
    BY <1>1 DEF Aimed
  <2>2. CASE ~product.exists \/ (c = TheLoop /\ ~agent[c].has.active)
    BY <1>1, <2>1, <2>2 DEF MarkSynced, CallersTyped
  <2>3. CASE ~(~product.exists \/ (c = TheLoop /\ ~agent[c].has.active))
    <3>1. /\ DOMAIN product = {"exists", "price", "active", "qty", "synced", "error", "review"}
          /\ product.exists = TRUE
      BY <1>1, <2>3 DEF CallersTyped, Made, Gone
    <3> DEFINE verdict == IF agent[c].for = "sync" THEN FALSE ELSE product.review
    <3>2. product' = [product EXCEPT !.synced = TRUE, !.error = FALSE, !.review = verdict]
      BY <2>3 DEF MarkSynced
    <3> HIDE DEF verdict
    <3>3. DOMAIN product' = DOMAIN product /\ product'.exists = product.exists /\ product'.synced = TRUE
      BY <3>1, <3>2
    <3>4. QED
      BY <2>3, <3>1, <3>3 DEF Made
  <2>4. QED
    BY <2>2, <2>3
<1>6. /\ \A o \in Agents : o # c => /\ Aimed(o)' /\ Lists(o)' = Lists(o) /\ Leaving(o)' = Leaving(o)
                                    /\ Landed(o)' = Landed(o) /\ agent'[o].for = agent[o].for
      /\ ~Lists(c)'
  BY <1>1, <1>3 DEF CallersTyped, Becomes, Aimed, Lists, Leaving, Landed, Calling
<1>7. CallersTyped'
  BY <1>1, <1>2, <1>3, <1>4, <1>5, <1>6 DEF CallersTyped, Becomes
<1>8. ASSUME ~crossed, ListingsFit PROVE ListingsFit'
  <2>1. wanted
    BY <1>2, <1>8 DEF ListingsFit
  <2>2. Landed(c) => agent[c].for = "sync"
    BY DEF Landed
  <2>3. listing.listed /\ product'.exists => product'.synced \/ \E o \in Agents : Landed(o)'
    BY <1>5, <1>6, <1>8, <2>2 DEF ListingsFit
  <2>4. \A o \in Agents : Lists(o)' /\ agent'[o].for # "sync" /\ product'.exists => product'.synced
    BY <1>5, <1>6, <1>8 DEF ListingsFit
  <2>5. QED
    BY <1>2, <2>1, <2>3, <2>4 DEF ListingsFit
<1>9. QED
  BY <1>2, <1>7, <1>8 DEF CatalogueInv

LEMMA BoughtFits == CatalogueInv /\ Buy => CatalogueInv'
<1> SUFFICES ASSUME CatalogueInv, Buy PROVE CatalogueInv'
  OBVIOUS
<1>1. CallersTyped
  BY DEF CatalogueInv
<1>2. Made(product') /\ product'.exists = product.exists /\ product'.synced = product.synced
  BY <1>1 DEF Buy, CallersTyped, Made, Gone
<1>3. UNCHANGED <<listing, agent, wanted, crossed>>
  BY DEF Buy
<1>4. CallersTyped'
  BY <1>1, <1>2, <1>3 DEF CallersTyped, Aimed, Calling
<1>5. ListingsFit => ListingsFit'
  BY <1>2, <1>3 DEF ListingsFit, Lists, Landed, Leaving, Calling
<1>6. QED
  BY <1>3, <1>4, <1>5 DEF CatalogueInv

LEMMA CatalogueInductive == CatalogueInv /\ [CatalogueNext]_catalogueVars => CatalogueInv'
<1> SUFFICES ASSUME CatalogueInv, [CatalogueNext]_catalogueVars PROVE CatalogueInv'
  OBVIOUS
<1>1. CASE UNCHANGED catalogueVars
  BY <1>1 DEF catalogueVars, CatalogueInv, CallersTyped, Aimed, ListingsFit, Lists, Landed, Leaving, Calling
<1>2. CASE Buy
  BY <1>2, BoughtFits
<1>3. CASE LoopLists
  BY <1>3, ListingBegins
<1>4. ASSUME NEW h \in Dashboard, HandlerSteps(h) PROVE CatalogueInv'
  BY <1>4, Editing, PushesFit, DeletedFits, TakenDown DEF HandlerSteps
<1>5. ASSUME NEW h \in Dashboard, BeginSync(h) PROVE CatalogueInv'
  BY <1>5, ListingBegins
<1>6. ASSUME NEW h \in Dashboard, BeginRemove(h) \/ BeginDelete(h) \/ BeginRefresh(h) PROVE CatalogueInv'
  BY <1>6, DeskLists
<1>7. ASSUME NEW h \in Dashboard, NEW form \in Forms, BeginEdit(h, form) PROVE CatalogueInv'
  BY <1>7, DeskLists
<1>8. ASSUME NEW c \in Agents, CallerSteps(c) PROVE CatalogueInv'
  BY <1>8, EndingsFit, LandsFit, MarksFit DEF CallerSteps
<1>9. ASSUME NEW c \in Agents, NEW landed \in BOOLEAN, NEW passing \in BOOLEAN, CallFails(c, landed, passing) PROVE CatalogueInv'
  BY <1>9, FailuresFit
<1>10. QED
  BY <1>1, <1>2, <1>3, <1>4, <1>5, <1>6, <1>7, <1>8, <1>9 DEF CatalogueNext

(* Types: the units a product has, and those an edit is about to set, are  *)
(* a number.                                                               *)
CallStates == {"idle", "before", "after", "pushing", "deleting", "posting", "marking", "erring", "reviewing"}
CallerTyped(c) ==
  /\ agent[c].at \in CallStates /\ agent[c].tries \in 0 .. MaxAttempts
  /\ agent[c].at = "before" /\ "qty" \in DOMAIN agent[c].form => agent[c].form.qty \in Int

ListingTyped ==
  /\ product.exists => product.qty \in Int
  /\ \A c \in Agents : CallerTyped(c)
  /\ edited \in 0 .. MaxRequests /\ failures \in 0 .. MaxFailures

LEMMA ListingTypes == CallersTyped /\ ListingTyped => CatalogueTypeOK
<1> SUFFICES ASSUME CallersTyped, ListingTyped PROVE CatalogueTypeOK
  OBVIOUS
<1>1. product.exists \in BOOLEAN
  <2>1. product = Gone \/ product.exists = TRUE
    BY DEF CallersTyped, Made
  <2>2. Gone.exists = FALSE
    BY DEF Gone
  <2>3. product.exists = TRUE \/ product.exists = FALSE
    BY <2>1, <2>2
  <2>4. QED
    BY <2>3
<1>3. listing.listed \in BOOLEAN
  BY DEF CallersTyped
<1>2. \A c \in Agents : agent[c].at \in CallStates /\ agent[c].tries \in 0 .. MaxAttempts
  BY DEF ListingTyped, CallerTyped
<1>4. QED
  BY <1>1, <1>2, <1>3 DEF ListingTyped, CatalogueTypeOK, CallStates

LEMMA ListingTypedInitially == CatalogueInit => ListingTyped
<1> SUFFICES ASSUME CatalogueInit PROVE ListingTyped
  OBVIOUS
<1>1. /\ agent = [c \in Agents |-> NotCalling] /\ product.qty = Stock
      /\ edited = 0 /\ failures = 0
  BY DEF CatalogueInit
<1>2. Stock \in Int /\ MaxRequests \in Nat /\ MaxFailures \in Nat /\ MaxAttempts \in Nat
  BY CatalogueAssumption DEF CatalogueAssumption
<1>3. \A c \in Agents : CallerTyped(c)
  BY <1>1, <1>2 DEF CallerTyped, NotCalling, CallStates
<1>4. QED
  BY <1>1, <1>2, <1>3 DEF ListingTyped

(* An agent goes on, posts, ends, begins or tries again.                  *)
Begins(c) ==
  \E for, at, form, has :
    /\ Starts(c, for, at, form, has) /\ at \in CallStates
    /\ at = "before" /\ "qty" \in DOMAIN form => form.qty \in Int
Proceeds(c) ==
  \/ \E at \in CallStates \ {"before"} : GoesTo(c, at)
  \/ \E has : Posts(c, has)
  \/ Ends(c)
  \/ Begins(c)
  \/ agent' = [agent EXCEPT ![c].tries = @ + 1] /\ agent[c].tries < MaxAttempts

(* Who moves keeps to its states and its attempts.                         *)
LEMMA CallersStay ==
  ASSUME CallersTyped, \A o \in Agents : CallerTyped(o), NEW c \in Agents, Proceeds(c)
  PROVE  \A o \in Agents : CallerTyped(o)'
<1>1. DOMAIN agent = Agents /\ DOMAIN agent[c] = {"at", "for", "form", "has", "tries"} /\ CallerTyped(c)
  BY DEF CallersTyped, Aimed
<1>2. MaxAttempts \in Nat \ {0}
  BY CatalogueAssumption DEF CatalogueAssumption
<1> DEFINE Kept == (\A o \in Agents \ {c} : agent'[o] = agent[o]) /\ CallerTyped(c)'
<1>3. Kept
  <2>1. ASSUME NEW at \in CallStates \ {"before"}, GoesTo(c, at) PROVE Kept
    BY <1>1, <1>2, <2>1 DEF GoesTo, CallerTyped
  <2>2. ASSUME NEW has, Posts(c, has) PROVE Kept
    BY <1>1, <1>2, <2>2 DEF Posts, CallerTyped, CallStates
  <2>3. CASE Ends(c)
    BY <1>1, <1>2, <2>3 DEF Ends, NotCalling, CallerTyped, CallStates
  <2>4. CASE Begins(c)
    BY <1>1, <1>2, <2>4 DEF Begins, Starts, CallerTyped
  <2>5. CASE agent' = [agent EXCEPT ![c].tries = @ + 1] /\ agent[c].tries < MaxAttempts
    BY <1>1, <1>2, <2>5 DEF CallerTyped
  <2>6. QED
    BY <2>1, <2>2, <2>3, <2>4, <2>5 DEF Proceeds
<1>4. QED
  BY <1>3 DEF CallerTyped

LEMMA ListingTypedInductive ==
  CallersTyped /\ ListingTyped /\ [CatalogueNext]_catalogueVars => ListingTyped'
<1> SUFFICES ASSUME CallersTyped, ListingTyped, [CatalogueNext]_catalogueVars PROVE ListingTyped'
  OBVIOUS
<1> DEFINE Callers == \A o \in Agents : CallerTyped(o)'
           HasUnits == product'.exists => product'.qty \in Int
           Counts == edited' \in 0 .. MaxRequests /\ failures' \in 0 .. MaxFailures
<1>1. MaxRequests \in Nat /\ MaxFailures \in Nat
  BY CatalogueAssumption DEF CatalogueAssumption
<1>2. /\ \A o \in Agents : CallerTyped(o)
      /\ product.exists => product.qty \in Int
      /\ edited \in 0 .. MaxRequests /\ failures \in 0 .. MaxFailures
  BY DEF ListingTyped
<1>3. Dashboard \subseteq Agents /\ TheLoop \in Agents
  BY DEF Agents
<1>4. \/ product = Gone /\ product.exists = FALSE
      \/ DOMAIN product = {"exists", "price", "active", "qty", "synced", "error", "review"} /\ product.exists = TRUE
  BY DEF CallersTyped, Made, Gone
<1>5. CASE UNCHANGED catalogueVars
  BY <1>2, <1>5 DEF catalogueVars, ListingTyped, CallerTyped
<1>6. CASE Buy
  <2>1. product' = [product EXCEPT !.qty = @ - 1] /\ product.exists /\ UNCHANGED <<agent, edited, failures>>
    BY <1>6 DEF Buy
  <2>2. HasUnits
    BY <1>2, <1>4, <2>1
  <2>3. QED
    BY <1>2, <2>1, <2>2 DEF ListingTyped, CallerTyped
<1>7. CASE LoopLists
  <2>1. Posts(TheLoop, product) /\ UNCHANGED <<product, edited, failures>>
    BY <1>7 DEF LoopLists
  <2>2. Callers
    BY <1>2, <1>3, <2>1, CallersStay DEF Proceeds
  <2>3. QED
    BY <1>2, <2>1, <2>2 DEF ListingTyped
<1>8. ASSUME NEW h \in Dashboard, BeginSync(h) \/ BeginRemove(h) \/ BeginDelete(h) \/ BeginRefresh(h) \/ \E form \in Forms : BeginEdit(h, form)
      PROVE  ListingTyped'
  <2>1. UNCHANGED <<product, failures>>
    BY <1>8 DEF BeginSync, BeginRemove, BeginDelete, BeginRefresh, BeginEdit
  <2>2. Begins(h)
    <3>1. CASE BeginSync(h) \/ BeginRemove(h) \/ BeginDelete(h) \/ BeginRefresh(h)
      <4>1. \/ Starts(h, "sync", "posting", <<>>, product) \/ Starts(h, "remove", "posting", <<>>, Gone)
            \/ Starts(h, "delete", "deleting", <<>>, product) \/ Starts(h, "refresh", "reviewing", <<>>, product)
        BY <3>1 DEF BeginSync, BeginRemove, BeginDelete, BeginRefresh
      <4>2. "posting" \in CallStates \ {"before"} /\ "deleting" \in CallStates \ {"before"} /\ "reviewing" \in CallStates \ {"before"}
        BY DEF CallStates
      <4>3. QED
        BY <4>1, <4>2 DEF Begins
    <3>2. CASE \E form \in Forms : BeginEdit(h, form)
      <4>1. PICK form \in Forms : Starts(h, "edit", "before", form, product)
        BY <3>2 DEF BeginEdit
      <4>2. "qty" \in DOMAIN form => form.qty \in Int
        BY CatalogueAssumption DEF CatalogueAssumption
      <4>3. "before" \in CallStates
        BY DEF CallStates
      <4>4. QED
        BY <4>1, <4>2, <4>3 DEF Begins
    <3>3. QED
      BY <1>8, <3>1, <3>2
  <2>3. edited' = edited + 1 /\ edited < MaxRequests
    BY <1>8 DEF BeginSync, BeginRemove, BeginDelete, BeginRefresh, BeginEdit, Starts
  <2>4. Callers
    BY <1>2, <1>3, <2>2, CallersStay DEF Proceeds
  <2>6. edited' \in 0 .. MaxRequests
    BY <1>1, <1>2, <2>3
  <2>7. QED
    BY <1>2, <2>1, <2>4, <2>6 DEF ListingTyped
<1>9. ASSUME NEW h \in Dashboard, SaveEdit(h) PROVE ListingTyped'
  <2>1. UNCHANGED <<edited, failures>> /\ (GoesTo(h, "after") \/ Ends(h)) /\ agent[h].at = "before"
    BY <1>9 DEF SaveEdit
  <2>2. Callers
    BY <1>2, <1>3, <2>1, CallersStay DEF Proceeds, CallStates
  <2>3. CallerTyped(h)
    BY <1>2, <1>3
  <2>4. HasUnits
    <3>1. CASE product.exists
      <4>1. product' = [field \in DOMAIN product |-> IF field \in DOMAIN agent[h].form THEN agent[h].form[field]
                                                     ELSE product[field]]
        BY <1>9, <3>1 DEF SaveEdit
      <4>2. "qty" \in DOMAIN product
        BY <1>4, <3>1
      <4>3. product'.qty \in Int
        BY <1>2, <2>1, <2>3, <3>1, <4>1, <4>2 DEF CallerTyped
      <4>4. QED
        BY <4>3
    <3>2. CASE ~product.exists
      BY <1>2, <1>9, <3>2 DEF SaveEdit
    <3>3. QED
      BY <3>1, <3>2
  <2>5. QED
    BY <1>2, <2>1, <2>2, <2>4 DEF ListingTyped
<1>10. ASSUME NEW h \in Dashboard, ReadSaved(h) \/ PushReads(h) PROVE ListingTyped'
  <2>1. UNCHANGED <<product, edited, failures>> /\ (GoesTo(h, "pushing") \/ Posts(h, product) \/ Ends(h))
    BY <1>10 DEF ReadSaved, PushReads
  <2>2. Callers
    BY <1>2, <1>3, <2>1, CallersStay DEF Proceeds, CallStates
  <2>3. QED
    BY <1>2, <2>1, <2>2 DEF ListingTyped
<1>11. ASSUME NEW h \in Dashboard, DeleteProduct(h) PROVE ListingTyped'
  <2>1. product' = Gone /\ UNCHANGED <<edited, failures>> /\ (Posts(h, Gone) \/ Ends(h))
    BY <1>11 DEF DeleteProduct
  <2>2. Callers
    BY <1>2, <1>3, <2>1, CallersStay DEF Proceeds
  <2>3. QED
    BY <1>2, <2>1, <2>2 DEF ListingTyped, Gone
<1>12. ASSUME NEW h \in Dashboard, EndRemove(h) PROVE ListingTyped'
  <2>1. Ends(h) /\ UNCHANGED <<edited, failures>>
    BY <1>12 DEF EndRemove
  <2>2. Callers
    BY <1>2, <1>3, <2>1, CallersStay DEF Proceeds
  <2>3. product'.exists => product.exists /\ product'.qty = product.qty
    <3>1. CASE product.exists
      <4>1. product' = [product EXCEPT !.synced = FALSE, !.error = FALSE, !.review = FALSE]
        BY <1>12, <3>1 DEF EndRemove
      <4>2. QED
        BY <1>4, <3>1, <4>1
    <3>2. CASE ~product.exists
      BY <1>12, <3>2 DEF EndRemove
    <3>3. QED
      BY <3>1, <3>2
  <2>4. QED
    BY <1>2, <2>1, <2>2, <2>3 DEF ListingTyped
<1>13. ASSUME NEW c \in Agents, ApplyReview(c) \/ NoteError(c) PROVE ListingTyped'
  <2>1. Ends(c) /\ UNCHANGED <<edited, failures>>
    BY <1>13 DEF ApplyReview, NoteError
  <2>2. Callers
    BY <1>2, <2>1, CallersStay DEF Proceeds
  <2>3. product'.exists => product.exists /\ product'.qty = product.qty
    BY <1>4, <1>13 DEF ApplyReview, NoteError
  <2>4. QED
    BY <1>2, <2>1, <2>2, <2>3 DEF ListingTyped
<1>14. ASSUME NEW c \in Agents, Land(c) PROVE ListingTyped'
  <2>1. UNCHANGED <<product, edited, failures>> /\ (GoesTo(c, "marking") \/ Ends(c))
    BY <1>14 DEF Land
  <2>2. Callers
    BY <1>2, <2>1, CallersStay DEF Proceeds, CallStates
  <2>3. QED
    BY <1>2, <2>1, <2>2 DEF ListingTyped
<1>15. ASSUME NEW c \in Agents, MarkSynced(c) PROVE ListingTyped'
  <2>1. UNCHANGED <<edited, failures>> /\ (GoesTo(c, "reviewing") \/ Ends(c))
    BY <1>15 DEF MarkSynced
  <2>2. Callers
    BY <1>2, <2>1, CallersStay DEF Proceeds, CallStates
  <2>3. product'.exists => product.exists /\ product'.qty = product.qty
    <3>1. CASE ~product.exists \/ (c = TheLoop /\ ~agent[c].has.active)
      BY <1>15, <3>1 DEF MarkSynced
    <3>2. CASE ~(~product.exists \/ (c = TheLoop /\ ~agent[c].has.active))
      <4> DEFINE verdict == IF agent[c].for = "sync" THEN FALSE ELSE product.review
      <4>1. product' = [product EXCEPT !.synced = TRUE, !.error = FALSE, !.review = verdict]
        BY <1>15, <3>2 DEF MarkSynced
      <4> HIDE DEF verdict
      <4>2. QED
        BY <1>4, <3>2, <4>1
    <3>3. QED
      BY <3>1, <3>2
  <2>4. QED
    BY <1>2, <2>1, <2>2, <2>3 DEF ListingTyped
<1>16. ASSUME NEW c \in Agents, NEW landed \in BOOLEAN, NEW passing \in BOOLEAN, CallFails(c, landed, passing) PROVE ListingTyped'
  <2>1. failures < MaxFailures /\ failures' = failures + 1 /\ UNCHANGED <<product, edited>>
    BY <1>16 DEF CallFails
  <2>2. \/ agent' = [agent EXCEPT ![c].tries = @ + 1] /\ agent[c].tries < MaxAttempts
        \/ GoesTo(c, "erring") \/ Ends(c)
    BY <1>16, Zenon DEF CallFails, TriesAgain
  <2>3. Callers
    BY <1>2, <2>2, CallersStay DEF Proceeds, CallStates
  <2>4. failures' \in 0 .. MaxFailures
    BY <1>1, <1>2, <2>1
  <2>5. QED
    BY <1>2, <2>1, <2>3, <2>4 DEF ListingTyped
<1>17. QED
  BY <1>5, <1>6, <1>7, <1>8, <1>9, <1>10, <1>11, <1>12, <1>13, <1>14, <1>15, <1>16
     DEF CatalogueNext, HandlerSteps, CallerSteps

-----------------------------------------------------------------------------
(* Sequences: of what they hold, their tails, and those of a few elements *)

IsSeq(s) == s \in Seq({s[i] : i \in DOMAIN s})

LEMMA TailIs ==
  ASSUME NEW s, IsSeq(s), s # <<>>
  PROVE  /\ IsSeq(Tail(s)) /\ Len(s) \in Nat \ {0} /\ DOMAIN s = 1 .. Len(s) /\ Head(s) = s[1] /\ 1 \in DOMAIN s
         /\ DOMAIN Tail(s) = 1 .. (Len(s) - 1) /\ Len(Tail(s)) = Len(s) - 1
         /\ \A i \in DOMAIN Tail(s) : i + 1 \in DOMAIN s /\ Tail(s)[i] = s[i + 1]
<1> DEFINE S == {s[i] : i \in DOMAIN s}
<1>1. s \in Seq(S)
  BY DEF IsSeq
<1>2. DOMAIN s = 1 .. Len(s) /\ Len(s) \in Nat \ {0} /\ s \in [1 .. Len(s) -> S]
  BY <1>1
<1> HIDE DEF S
<1>3. /\ Tail(s) \in Seq(S) /\ Head(s) = s[1] /\ Len(Tail(s)) = Len(s) - 1
      /\ \A i \in 1 .. (Len(s) - 1) : Tail(s)[i] = s[i + 1]
  BY <1>1, <1>2
<1> DEFINE t == Tail(s)
           n == Len(s) - 1
           T == {t[i] : i \in 1 .. n}
<1> HIDE DEF t
<1>4. n \in Nat /\ t \in Seq(S) /\ Len(t) = n
  BY <1>2, <1>3 DEF t
<1> HIDE DEF n
<1>5. DOMAIN t = 1 .. n /\ t \in [1 .. n -> S]
  BY <1>4
<1>6. t \in Seq(T)
  <2>1. t = [i \in 1 .. n |-> t[i]] /\ \A i \in 1 .. n : t[i] \in T
    BY <1>5
  <2> HIDE DEF T
  <2>2. QED
    BY <1>4, <2>1
<1>7. IsSeq(Tail(s))
  BY <1>5, <1>6 DEF IsSeq, t
<1>8. QED
  BY <1>2, <1>3, <1>4, <1>5, <1>7 DEF t, n
LEMMA EmptyIs == IsSeq(<<>>)
BY DEF IsSeq
LEMMA TwoIs == ASSUME NEW a, NEW b PROVE IsSeq(<<a, b>>) /\ DOMAIN <<a, b>> = {1, 2}
<1>1. DOMAIN <<a, b>> = {1, 2} /\ <<a, b>> \in Seq({a, b})
  OBVIOUS
<1>2. {<<a, b>>[i] : i \in {1, 2}} = {a, b}
  OBVIOUS
<1>3. QED
  BY <1>1, <1>2 DEF IsSeq
LEMMA ThreeIs == ASSUME NEW a, NEW b, NEW c PROVE IsSeq(<<a, b, c>>) /\ DOMAIN <<a, b, c>> = {1, 2, 3}
<1>1. DOMAIN <<a, b, c>> = {1, 2, 3} /\ <<a, b, c>> \in Seq({a, b, c})
  OBVIOUS
<1>2. {<<a, b, c>>[i] : i \in {1, 2, 3}} = {a, b, c}
  OBVIOUS
<1>3. QED
  BY <1>1, <1>2 DEF IsSeq
LEMMA OneIs == ASSUME NEW a PROVE IsSeq(<<a>>) /\ DOMAIN <<a>> = {1}
<1>1. DOMAIN <<a>> = {1} /\ <<a>> \in Seq({a})
  OBVIOUS
<1>2. {<<a>>[i] : i \in {1}} = {a}
  OBVIOUS
<1>3. QED
  BY <1>1, <1>2 DEF IsSeq

-----------------------------------------------------------------------------
(* Content: what a page or a cached source holds is the document's last   *)
(* saved version, or a key deleted since, or a delete still to come        *)

(* A source of a page, in a family: its document is the family's; what     *)
(* deletes the document's keys deletes the source's and the page's; and    *)
(* the page's key goes with the source's or after it.  (Nothing deletes    *)
(* the preview of a product.)                                              *)
SourceFits(f, p, s) ==
  /\ s.doc \in DOMAIN f.deletes /\ s.key # OgPage.key
  /\ s.key # NoKey => \E j \in DOMAIN f.deletes[s.doc] : s.key \in f.deletes[s.doc][j]
  /\ p.key # OgPage.key =>
       /\ \E j \in DOMAIN f.deletes[s.doc] : p.key \in f.deletes[s.doc][j]
       /\ \A d \in DOMAIN f.deletes : \A j \in DOMAIN f.deletes[d] :
            s.key \in f.deletes[d][j] => \E k \in DOMAIN f.deletes[d] : k >= j /\ p.key \in f.deletes[d][k]

WellMade(f) ==
  /\ \A d \in DOMAIN f.deletes : IsSeq(f.deletes[d]) /\ f.deletes[d] # <<>>
  /\ \A p \in f.pages : IsSeq(p.from) /\ \A i \in DOMAIN p.from : SourceFits(f, p, p.from[i])

LEMMA ScreenWellMade ==
  ASSUME NEW d, NEW service, NEW pages, NEW route,
         \A p \in pages : p.key \in route /\ \E s \in service : p.from = <<Source(d, s)>> /\ s # OgPage.key
  PROVE  WellMade(Screen(d, service, pages, route))
<1> DEFINE f == Screen(d, service, pages, route)
<1>1. f.pages = pages /\ f.deletes = [x \in {d} |-> <<service, route>>]
  BY DEF Screen, Family
<1> HIDE DEF f
<1>2. /\ DOMAIN f.deletes = {d} /\ f.deletes[d] = <<service, route>> /\ IsSeq(f.deletes[d]) /\ f.deletes[d] # <<>>
      /\ DOMAIN f.deletes[d] = {1, 2} /\ f.deletes[d][1] = service /\ f.deletes[d][2] = route
  BY <1>1, TwoIs
<1>3. ASSUME NEW p \in f.pages PROVE IsSeq(p.from) /\ \A i \in DOMAIN p.from : SourceFits(f, p, p.from[i])
  <2>1. PICK s \in service : p.from = <<Source(d, s)>> /\ s # OgPage.key
    BY <1>1
  <2>2. IsSeq(p.from) /\ DOMAIN p.from = {1} /\ p.from[1] = Source(d, s)
    BY <2>1, OneIs
  <2>3. Source(d, s).doc = d /\ Source(d, s).key = s
    BY DEF Source
  <2>4. p.key \in route
    BY <1>1
  <2>5. SourceFits(f, p, Source(d, s))
    BY <1>2, <2>1, <2>3, <2>4 DEF SourceFits
  <2>6. QED
    BY <2>2, <2>5
<1>4. QED
  BY <1>2, <1>3 DEF WellMade, f

LEMMA SettingsWellMade ==
  ASSUME NEW key, NEW s, s # OgPage.key
  PROVE  WellMade(SettingsScreen(SettingsPage(key, Source("settings", s))))
<1> DEFINE p == SettingsPage(key, Source("settings", s))
<1>1. p.key = key /\ p.from = <<Source("settings", s)>>
  BY DEF SettingsPage, PageOf
<1>2. p.from[1].key = s
  BY <1>1 DEF Source
<1> HIDE DEF p
<1>3. WellMade(Screen("settings", {p.from[1].key}, {p}, {p.key}))
  BY <1>1, <1>2, ScreenWellMade
<1>4. QED
  BY <1>3 DEF SettingsScreen, p

LEMMA ProductsWellMade == WellMade(ProductScreen)
<1> DEFINE f == ProductScreen
<1>1. /\ f.pages = ProductPages \cup {OgPage} /\ DOMAIN f.deletes = {"product"}
      /\ f.deletes["product"] = <<{"products"}, {"product"}>>
  BY DEF ProductScreen, Family
<1> HIDE DEF f
<1>2. /\ IsSeq(f.deletes["product"]) /\ f.deletes["product"] # <<>>
      /\ DOMAIN f.deletes["product"] = {1, 2} /\ f.deletes["product"][1] = {"products"} /\ f.deletes["product"][2] = {"product"}
  BY <1>1, TwoIs
<1>3. ASSUME NEW p \in f.pages PROVE IsSeq(p.from) /\ \A i \in DOMAIN p.from : SourceFits(f, p, p.from[i])
  <2>1. p.from = <<ProductDoc>> /\ p.key \in {"products", "product", OgPage.key}
    BY <1>1 DEF ProductPages, OgPage, PageOf
  <2>2. IsSeq(p.from) /\ DOMAIN p.from = {1} /\ p.from[1] = ProductDoc
    BY <2>1, OneIs
  <2>3. SourceFits(f, p, ProductDoc)
    BY <1>1, <1>2, <2>1 DEF SourceFits, ProductDoc, Source, NoKey, OgPage, PageOf
  <2>4. QED
    BY <2>2, <2>3
<1>4. QED
  BY <1>1, <1>2, <1>3 DEF WellMade, f

LEMMA CategoriesWellMade == WellMade(CategoryScreen)
<1> DEFINE f == CategoryScreen
<1>1. /\ f.pages = CategoryPages /\ DOMAIN f.deletes = {"category"}
      /\ f.deletes["category"] = <<{"categories"}, {"category"}>>
  BY DEF CategoryScreen, Family
<1> HIDE DEF f
<1>2. /\ IsSeq(f.deletes["category"]) /\ f.deletes["category"] # <<>>
      /\ DOMAIN f.deletes["category"] = {1, 2}
      /\ f.deletes["category"][1] = {"categories"} /\ f.deletes["category"][2] = {"category"}
  BY <1>1, TwoIs
<1>3. ASSUME NEW p \in f.pages PROVE IsSeq(p.from) /\ \A i \in DOMAIN p.from : SourceFits(f, p, p.from[i])
  <2>1. p.from = <<CategoryDoc>> /\ p.key \in {"categories", "category"}
    BY <1>1 DEF CategoryPages, PageOf
  <2>2. IsSeq(p.from) /\ DOMAIN p.from = {1} /\ p.from[1] = CategoryDoc
    BY <2>1, OneIs
  <2>3. SourceFits(f, p, CategoryDoc)
    BY <1>1, <1>2, <2>1 DEF SourceFits, CategoryDoc, Source, NoKey, OgPage, PageOf
  <2>4. QED
    BY <2>2, <2>3
<1>4. QED
  BY <1>1, <1>2, <1>3 DEF WellMade, f

LEMMA JournalWellMade == WellMade(JournalScreen)
<1> DEFINE f == JournalScreen
           js == f.deletes["journal"]
           ps == f.deletes["post"]
<1>1. /\ f.pages = {JournalPage} /\ DOMAIN f.deletes = {"journal", "post"}
      /\ js = <<{"journal_page"}, {"blog_posts"}, {"journal"}>>
      /\ ps = <<{"blog_posts"}, {"journal"}>>
  BY DEF JournalScreen, Family
<1> HIDE DEF f
<1>2. /\ IsSeq(js) /\ js # <<>> /\ DOMAIN js = {1, 2, 3}
      /\ js[1] = {"journal_page"} /\ js[2] = {"blog_posts"} /\ js[3] = {"journal"}
  BY <1>1, ThreeIs
<1>3. IsSeq(ps) /\ ps # <<>> /\ DOMAIN ps = {1, 2} /\ ps[1] = {"blog_posts"} /\ ps[2] = {"journal"}
  BY <1>1, TwoIs
<1>4. /\ JournalPage.key = "journal" /\ JournalPage.from = <<JournalMeta, BlogPosts>>
      /\ IsSeq(JournalPage.from) /\ DOMAIN JournalPage.from = {1, 2}
      /\ JournalPage.from[1] = JournalMeta /\ JournalPage.from[2] = BlogPosts
  BY TwoIs DEF JournalPage, PageOf
<1>5. /\ JournalMeta.doc = "journal" /\ JournalMeta.key = "journal_page"
      /\ BlogPosts.doc = "post" /\ BlogPosts.key = "blog_posts"
      /\ NoKey = "none" /\ OgPage.key = "og:product"
  BY DEF JournalMeta, BlogPosts, Source, NoKey, OgPage, PageOf
<1>6. SourceFits(f, JournalPage, JournalMeta)
  BY <1>1, <1>2, <1>3, <1>4, <1>5 DEF SourceFits
<1>7. SourceFits(f, JournalPage, BlogPosts)
  BY <1>1, <1>2, <1>3, <1>4, <1>5 DEF SourceFits
<1>8. \A d \in DOMAIN f.deletes : IsSeq(f.deletes[d]) /\ f.deletes[d] # <<>>
  BY <1>1, <1>2, <1>3
<1>9. \A p \in f.pages : IsSeq(p.from) /\ \A i \in DOMAIN p.from : SourceFits(f, p, p.from[i])
  BY <1>1, <1>4, <1>6, <1>7
<1>10. QED
  BY <1>8, <1>9 DEF WellMade, f

LEMMA NamesOfScreens ==
  /\ DOMAIN SettingsPages = {"studio", "shop", "home", "story", "navigation", "contact"}
  /\ DOMAIN MorePages = {"account", "history", "product_page"}
  /\ DOMAIN SettingsScreens = DOMAIN SettingsPages /\ DOMAIN MoreScreens = DOMAIN MorePages
<1>1. DOMAIN SettingsPages = {"studio", "shop", "home", "story", "navigation", "contact"}
  BY DEF SettingsPages
<1>2. DOMAIN MorePages = {"account", "history", "product_page"}
  BY DEF MorePages
<1>3. QED
  BY <1>1, <1>2 DEF SettingsScreens, MoreScreens

LEMMA FamiliesWellMade ==
  ASSUME NEW name \in Screens
  PROVE  WellMade(FamilyOf(name))
<1>1. CASE name \in {"products", "categories", "journal"}
  <2>1. CASE name = "products"
    BY <2>1, ProductsWellMade, NamesOfScreens DEF FamilyOf
  <2>2. CASE name = "categories"
    BY <2>2, CategoriesWellMade, NamesOfScreens DEF FamilyOf
  <2>3. CASE name = "journal"
    BY <2>3, JournalWellMade, NamesOfScreens DEF FamilyOf
  <2>4. QED
    BY <1>1, <2>1, <2>2, <2>3
<1>2. CASE name \in {"testimonials", "hero", "slides", "policies"}
  <2>1. OgPage.key = "og:product"
    BY DEF OgPage, PageOf
  <2>2. /\ TestimonialPage.key = "testimonials" /\ TestimonialPage.from = <<Source("testimonial", "testimonials:list")>>
        /\ HeroPage.key = "hero" /\ HeroPage.from = <<Source("hero", "hero_config:active")>>
        /\ SlidesPage.key = "collection-slides" /\ SlidesPage.from = <<Source("slide", "collection_slides:True")>>
        /\ PoliciesPage.key = "policies" /\ PoliciesPage.from = <<Source("policies", "policies")>>
    BY DEF TestimonialPage, Testimonials, HeroPage, HeroConfig, SlidesPage, CollectionSlides, PoliciesPage, PolicyContent,
           PageOf
  <2>3. WellMade(TestimonialScreen)
    BY <2>1, <2>2, ScreenWellMade DEF TestimonialScreen
  <2>4. WellMade(HeroScreen)
    BY <2>1, <2>2, ScreenWellMade DEF HeroScreen
  <2>5. WellMade(SlidesScreen)
    BY <2>1, <2>2, ScreenWellMade DEF SlidesScreen
  <2>6. WellMade(PolicyScreen)
    BY <2>1, <2>2, ScreenWellMade DEF PolicyScreen
  <2>7. QED
    BY <1>2, <2>3, <2>4, <2>5, <2>6, NamesOfScreens DEF FamilyOf
<1>3. CASE name \in {"assets", "faq"}
  <2>1. OgPage.key = "og:product"
    BY DEF OgPage, PageOf
  <2>2. /\ FaqPage.key = "faq:all" /\ FaqPage.from = <<Source("faq", "faq:all:True")>>
        /\ \A p \in AssetPages : \/ p.key = "site-assets" /\ p.from = <<Source("asset", "site_assets:list")>>
                                 \/ p.key = "site-asset" /\ p.from = <<Source("asset", "site_assets:key")>>
    BY DEF FaqPage, FaqItems, AssetPages, SiteAssets, SiteAssetByKey, PageOf
  <2>3. WellMade(FaqScreen)
    BY <2>1, <2>2, ScreenWellMade DEF FaqScreen
  <2>4. WellMade(AssetScreen)
    BY <2>1, <2>2, ScreenWellMade DEF AssetScreen
  <2>5. QED
    BY <1>3, <2>3, <2>4, NamesOfScreens DEF FamilyOf
<1>4. CASE name \in {"studio", "shop", "home", "story", "navigation", "contact"}
  <2>1. OgPage.key = "og:product"
    BY DEF OgPage, PageOf
  <2>2. FamilyOf(name) = SettingsScreen(SettingsPages[name])
    BY <1>4, NamesOfScreens DEF FamilyOf, SettingsScreens
  <2>3. \E key : \E s \in {"studio_settings", "shop_page", "home_page", "story_page", "navigation", "contact_page"} :
          SettingsPages[name] = SettingsPage(key, Source("settings", s))
    BY <1>4 DEF SettingsPages, StudioSettings, ShopPageSettings, HomePageSettings, StoryPageSettings, NavigationSettings,
                ContactPageSettings
  <2>4. QED
    BY <2>1, <2>2, <2>3, SettingsWellMade
<1>5. CASE name \in {"account", "history", "product_page"}
  <2>1. OgPage.key = "og:product"
    BY DEF OgPage, PageOf
  <2>2. FamilyOf(name) = SettingsScreen(MorePages[name])
    BY <1>5, NamesOfScreens DEF FamilyOf, MoreScreens
  <2>3. \E key : \E s \in {"account_page", "history_page", "product_page"} :
          MorePages[name] = SettingsPage(key, Source("settings", s))
    BY <1>5 DEF MorePages, AccountPageSettings, HistoryPageSettings, ProductPageSettings
  <2>4. QED
    BY <2>1, <2>2, <2>3, SettingsWellMade
<1>6. QED
  BY <1>1, <1>2, <1>3, <1>4, <1>5, CacheAssumption DEF CacheAssumption

(* What a key shows of a document is deleted when the document is written. *)
Held(key, d) ==
  d \in Docs /\ (key # OgPage.key => \E j \in DOMAIN family.deletes[d] : key \in family.deletes[d][j])

FamilyKept == WellMade(family) /\ DOMAIN content = Docs

(* The keys that are filled, and what they show.                           *)
KeptFit == DOMAIN kept \subseteq KeysOf(family) /\ \A key \in DOMAIN kept : \A d \in DOMAIN kept[key].of : Held(key, d)

(* What a reader has left to ask for, and what it has.                     *)
Asked(me) ==
  /\ DOMAIN me = {"at", "page", "todo", "has", "wraps", "overtaken"} /\ me.overtaken \in BOOLEAN
  /\ me.at # "idle" =>
       /\ me.page \in family.pages /\ IsSeq(me.todo)
       /\ \A j \in DOMAIN me.todo : \E i \in DOMAIN me.page.from : me.todo[j] = me.page.from[i]
       /\ \A d \in DOMAIN me.has : Held(me.page.key, d)
  /\ me.at \in {"reading", "keeping"} => me.todo # <<>>
  /\ me.at = "keeping" => Head(me.todo).key # NoKey /\ Head(me.todo).doc \in DOMAIN me.has

(* What a reader that no write overtook has is as it is, or its page's key *)
(* is to be deleted.                                                       *)
InTime(me) ==
  me.at # "idle" /\ ~me.overtaken =>
    /\ me.at = "keeping" => me.has[Head(me.todo).doc] = content[Head(me.todo).doc]
    /\ me.page.key # OgPage.key => \A d \in DOMAIN me.has : me.has[d] # content[d] => Due(me.page.key)

ReadersFit == DOMAIN reader = Reader /\ \A r \in Reader : Asked(reader[r]) /\ InTime(reader[r])

(* The page's key is left to delete wherever a source's is, or after it.   *)
PageFollows(todo) ==
  \A p \in family.pages : p.key # OgPage.key =>
    \A i \in DOMAIN p.from : \A j \in DOMAIN todo :
      p.from[i].key \in todo[j] => \E k \in DOMAIN todo : k >= j /\ p.key \in todo[k]

(* What an editor is at, and the deletes it has left.                      *)
Left(me) ==
  /\ DOMAIN me = {"at", "todo", "found"} /\ me.at \in {"idle", "deleting", "listed", "restoring"}
  /\ IsSeq(me.todo) /\ PageFollows(me.todo)
  /\ me.at = "idle" => me.todo = <<>>
  /\ me.at \in {"deleting", "listed"} => me.todo # <<>>
  /\ me.at = "restoring" => me.todo = <<KeysOf(family)>>

EditorsFit == DOMAIN editor = Editor /\ \A e \in Editor : Left(editor[e])

(* A key that a listing missed was filled since.                           *)
ListedFit ==
  \A e \in Editor : editor[e].at = "listed" =>
    \A key \in (Head(editor[e].todo) \ editor[e].found) \cap DOMAIN kept : key \in late

PagesFit == KeptFit /\ ListedFit /\ StaleOnlyWhenOvertaken
(* The invariant of the pages.                                             *)
CacheInv == FamilyKept /\ PagesFit /\ ReadersFit /\ EditorsFit
-----------------------------------------------------------------------------
LEMMA CacheInitially == CacheInit => CacheInv
<1> SUFFICES ASSUME CacheInit PROVE CacheInv
  OBVIOUS
<1>1. FamilyKept
  <2>1. PICK name \in Screens : family = FamilyOf(name)
    BY DEF CacheInit
  <2>2. DOMAIN content = Docs
    BY DEF CacheInit
  <2>3. QED
    BY <2>1, <2>2, FamiliesWellMade DEF FamilyKept
<1>2. DOMAIN kept = {}
  BY DEF CacheInit
<1>3. PagesFit
  BY <1>2 DEF PagesFit, KeptFit, ListedFit, StaleOnlyWhenOvertaken
<1>4. ReadersFit
  <2>1. reader = [r \in Reader |-> AtRest]
    BY DEF CacheInit
  <2>2. Asked(AtRest) /\ InTime(AtRest)
    BY DEF AtRest, Asked, InTime
  <2>3. QED
    BY <2>1, <2>2 DEF ReadersFit
<1>5. EditorsFit
  <2>1. editor = [e \in Editor |-> NotEditing]
    BY DEF CacheInit
  <2>2. Left(NotEditing)
    BY EmptyIs DEF NotEditing, Left, PageFollows
  <2>3. QED
    BY <2>1, <2>2 DEF EditorsFit
<1>6. QED
  BY <1>1, <1>3, <1>4, <1>5 DEF CacheInv

(* A page and its sources: their keys.                                     *)
LEMMA KeysAre ==
  /\ \A p \in family.pages : p.key \in KeysOf(family)
  /\ \A p \in family.pages : \A i \in DOMAIN p.from : p.from[i].key \in KeysOf(family)
<1>1. \A p \in family.pages : p.key \in KeysOf(family)
  BY DEF KeysOf
<1>2. ASSUME NEW p \in family.pages, NEW i \in DOMAIN p.from PROVE p.from[i].key \in KeysOf(family)
  <2>1. p.from[i] \in UNION {{q.from[j] : j \in DOMAIN q.from} : q \in family.pages}
    OBVIOUS
  <2>2. QED
    BY <2>1 DEF KeysOf
<1>3. QED
  BY <1>1, <1>2

(* The head of what is left to ask for.                                    *)
LEMMA HeadAsked ==
  ASSUME FamilyKept, NEW me, Asked(me), me.at # "idle", me.todo # <<>>
  PROVE  /\ SourceFits(family, me.page, Head(me.todo)) /\ me.page \in family.pages
         /\ \E i \in DOMAIN me.page.from : Head(me.todo) = me.page.from[i]
         /\ Head(me.todo).key \in KeysOf(family)
         /\ Held(me.page.key, Head(me.todo).doc)
         /\ Head(me.todo).key # NoKey => Held(Head(me.todo).key, Head(me.todo).doc)
         /\ \A d : Held(Head(me.todo).key, d) => Held(me.page.key, d)
<1>1. IsSeq(me.todo) /\ Head(me.todo) = me.todo[1] /\ 1 \in DOMAIN me.todo /\ me.page \in family.pages
  BY TailIs DEF Asked
<1>2. PICK i \in DOMAIN me.page.from : Head(me.todo) = me.page.from[i]
  BY <1>1 DEF Asked
<1>3. SourceFits(family, me.page, Head(me.todo))
  BY <1>1, <1>2 DEF FamilyKept, WellMade
<1>4. Head(me.todo).key \in KeysOf(family)
  BY <1>1, <1>2, KeysAre
<1>5. QED
  BY <1>1, <1>2, <1>3, <1>4 DEF SourceFits, Held, Docs

(* A source's key that is to be deleted is so with the page's.             *)
LEMMA DueFollows ==
  ASSUME EditorsFit, NEW p \in family.pages, p.key # OgPage.key, NEW i \in DOMAIN p.from, Due(p.from[i].key)
  PROVE  Due(p.key)
<1>1. PICK e \in Editor : editor[e].at = "restoring" \/ \E j \in DOMAIN editor[e].todo : p.from[i].key \in editor[e].todo[j]
  BY DEF Due
<1>2. CASE editor[e].at = "restoring"
  BY <1>2 DEF Due
<1>3. CASE \E j \in DOMAIN editor[e].todo : p.from[i].key \in editor[e].todo[j]
  <2>1. PageFollows(editor[e].todo)
    BY DEF EditorsFit, Left
  <2>2. QED
    BY <1>3, <2>1 DEF PageFollows, Due
<1>4. QED
  BY <1>1, <1>2, <1>3

(* Keys are dropped, and so are their marks.                               *)
LEMMA DropFits ==
  ASSUME PagesFit, NEW keys, Drop(keys), late' = late \ keys, UNCHANGED <<family, content, editor>>
  PROVE  PagesFit'
<1>1. DOMAIN kept' = DOMAIN kept \ keys /\ \A k \in DOMAIN kept' : kept'[k] = kept[k]
  BY DEF Drop
<1>2. KeptFit'
  BY <1>1 DEF PagesFit, KeptFit, Held, Docs, KeysOf
<1>3. ListedFit'
  BY <1>1 DEF PagesFit, ListedFit
<1>4. StaleOnlyWhenOvertaken'
  BY <1>1 DEF PagesFit, StaleOnlyWhenOvertaken, Stale, Due
<1>5. QED
  BY <1>2, <1>3, <1>4 DEF PagesFit

(* A key is filled: it is marked, or what it shows is as it is, or to be   *)
(* deleted.                                                                *)
LEMMA KeepFits ==
  ASSUME PagesFit, NEW key \in KeysOf(family), NEW of, NEW wraps, NEW isLate \in BOOLEAN,
         Keep(key, of, wraps), Marked(key, isLate), UNCHANGED <<family, content, editor>>,
         \A d \in DOMAIN of : Held(key, d),
         ~isLate /\ key # OgPage.key => \A d \in DOMAIN of : of[d] # content[d] => Due(key)
  PROVE  PagesFit'
<1>1. /\ DOMAIN kept' = DOMAIN kept \cup {key} /\ kept'[key].of = of
      /\ \A k \in DOMAIN kept' : k # key => kept'[k] = kept[k]
  BY DEF Keep
<1>2. isLate \/ Unlisted(key) => key \in late'
  BY DEF Marked
<1>3. \A k : k # key /\ k \in late => k \in late'
  BY DEF Marked
<1>4. KeptFit'
  BY <1>1 DEF PagesFit, KeptFit, Held, Docs, KeysOf
<1>5. ListedFit'
  <2> SUFFICES ASSUME NEW e \in Editor, editor[e].at = "listed",
                      NEW k \in (Head(editor[e].todo) \ editor[e].found) \cap DOMAIN kept'
               PROVE  k \in late'
    BY DEF ListedFit
  <2>1. CASE k = key
    BY <1>2, <2>1 DEF Unlisted
  <2>2. CASE k # key
    BY <1>1, <1>3, <2>2 DEF PagesFit, ListedFit
  <2>3. QED
    BY <2>1, <2>2
<1>6. StaleOnlyWhenOvertaken'
  <2> SUFFICES ASSUME NEW k \in DOMAIN kept' \ {OgPage.key}, NEW d \in DOMAIN kept'[k].of, kept'[k].of[d] # content[d]
               PROVE  Due(k) \/ k \in late'
    BY DEF StaleOnlyWhenOvertaken, Stale, Due
  <2>1. CASE k = key
    BY <1>1, <1>2, <2>1
  <2>2. CASE k # key
    <3>1. Stale(k)
      BY <1>1, <2>2 DEF Stale
    <3>2. QED
      BY <1>1, <1>3, <2>2, <3>1 DEF PagesFit, StaleOnlyWhenOvertaken
  <2>3. QED
    BY <2>1, <2>2
<1>7. QED
  BY <1>4, <1>5, <1>6 DEF PagesFit

(* A step of one reader.                                                   *)
LEMMA ReadersStep ==
  ASSUME ReadersFit, NEW r \in Reader, NEW me, UNCHANGED <<family, content, editor>>,
         reader' = [reader EXCEPT ![r] = me], Asked(me), InTime(me)
  PROVE  ReadersFit'
<1>1. DOMAIN reader' = Reader /\ reader'[r] = me /\ \A s \in Reader : s # r => reader'[s] = reader[s]
  BY DEF ReadersFit
<1>2. ASSUME NEW s \in Reader PROVE Asked(reader[s])' /\ InTime(reader[s])'
  <2>1. Asked(reader'[s]) /\ InTime(reader'[s])
    BY <1>1 DEF ReadersFit
  <2>2. Asked(reader[s])'
    BY <2>1 DEF Asked, Held, Docs
  <2>3. InTime(reader[s])'
    BY <2>1 DEF InTime, Due
  <2>4. QED
    BY <2>2, <2>3
<1>3. QED
  BY <1>1, <1>2 DEF ReadersFit

(* A reader gets a source.                                                 *)
LEMMA GetsFits ==
  ASSUME ReadersFit, NEW r \in Reader, reader[r].at # "idle", reader[r].todo # <<>>,
         NEW of, NEW wraps, NEW passed \in BOOLEAN, Gets(r, of, wraps, passed),
         UNCHANGED <<family, content, editor>>,
         \A d \in DOMAIN of : Held(reader[r].page.key, d),
         ~passed => ~reader[r].overtaken,
         ~passed /\ reader[r].page.key # OgPage.key =>
           \A d \in DOMAIN of : of[d] # content[d] => Due(reader[r].page.key)
  PROVE  ReadersFit'
<1> DEFINE old == reader[r]
           has == With(of, old.has)
           me == [old EXCEPT !.at = "asking", !.todo = Tail(old.todo), !.has = has, !.wraps = wraps, !.overtaken = passed]
<1>1. Asked(old) /\ InTime(old)
  BY DEF ReadersFit
<1>2. reader' = [reader EXCEPT ![r] = me]
  BY DEF Gets, ReadersFit
<1>3. /\ DOMAIN has = DOMAIN of \cup DOMAIN old.has
      /\ \A d \in DOMAIN of : has[d] = of[d]
      /\ \A d \in DOMAIN has : d \notin DOMAIN of => has[d] = old.has[d]
  BY DEF With
<1> HIDE DEF has
<1>4. /\ DOMAIN me = {"at", "page", "todo", "has", "wraps", "overtaken"}
      /\ me.at = "asking" /\ me.page = old.page /\ me.todo = Tail(old.todo) /\ me.has = has /\ me.overtaken = passed
  BY <1>1 DEF Asked
<1> HIDE DEF me
<1>5. IsSeq(me.todo) /\ \A j \in DOMAIN me.todo : \E i \in DOMAIN me.page.from : me.todo[j] = me.page.from[i]
  <2>1. IsSeq(old.todo) /\ \A j \in DOMAIN old.todo : \E i \in DOMAIN old.page.from : old.todo[j] = old.page.from[i]
    BY <1>1 DEF Asked
  <2>2. /\ IsSeq(Tail(old.todo))
        /\ \A j \in DOMAIN Tail(old.todo) : j + 1 \in DOMAIN old.todo /\ Tail(old.todo)[j] = old.todo[j + 1]
    BY <2>1, TailIs
  <2>3. QED
    BY <1>4, <2>1, <2>2
<1>6. \A d \in DOMAIN me.has : Held(me.page.key, d)
  BY <1>1, <1>3, <1>4 DEF Asked
<1>7. Asked(me)
  BY <1>1, <1>4, <1>5, <1>6 DEF Asked
<1>8. InTime(me)
  <2> SUFFICES ASSUME ~passed, me.page.key # OgPage.key, NEW d \in DOMAIN me.has, me.has[d] # content[d]
               PROVE  Due(me.page.key)
    BY <1>4 DEF InTime
  <2>1. CASE d \in DOMAIN of
    BY <1>3, <1>4, <2>1
  <2>2. CASE d \notin DOMAIN of
    BY <1>1, <1>3, <1>4, <2>2 DEF InTime
  <2>3. QED
    BY <2>1, <2>2
<1>9. QED
  BY <1>2, <1>7, <1>8, ReadersStep

(* A step that leaves pages and editors alone.                             *)
LEMMA ReadersOnly ==
  ASSUME CacheInv, UNCHANGED <<family, content, kept, late, editor>>, ReadersFit'
  PROVE  CacheInv'
<1>1. FamilyKept /\ KeptFit /\ ListedFit /\ StaleOnlyWhenOvertaken /\ EditorsFit
  BY DEF CacheInv, PagesFit
<1>2. FamilyKept'
  BY <1>1 DEF FamilyKept, Docs
<1>3. KeptFit'
  BY <1>1 DEF KeptFit, Held, Docs, KeysOf
<1>4. ListedFit'
  BY <1>1 DEF ListedFit
<1>5. StaleOnlyWhenOvertaken'
  BY <1>1 DEF StaleOnlyWhenOvertaken, Stale, Due
<1>6. EditorsFit'
  BY <1>1 DEF EditorsFit, Left, PageFollows, KeysOf
<1>7. QED
  BY <1>2, <1>3, <1>4, <1>5, <1>6 DEF CacheInv, PagesFit

LEMMA MissPageFits ==
  ASSUME CacheInv, NEW r \in Reader, NEW p \in family.pages, MissPage(r, p)
  PROVE  CacheInv'
<1> DEFINE me == [AtRest EXCEPT !.at = "asking", !.page = p, !.todo = p.from]
<1>1. reader' = [reader EXCEPT ![r] = me] /\ UNCHANGED <<family, content, kept, late, editor>>
  BY DEF MissPage
<1>2. /\ DOMAIN me = {"at", "page", "todo", "has", "wraps", "overtaken"} /\ me.at = "asking"
      /\ me.page = p /\ me.todo = p.from /\ DOMAIN me.has = {} /\ me.overtaken = FALSE
  BY DEF AtRest
<1> HIDE DEF me
<1>3. IsSeq(p.from)
  BY DEF CacheInv, FamilyKept, WellMade
<1>4. Asked(me) /\ InTime(me)
  BY <1>2, <1>3 DEF Asked, InTime
<1>5. ReadersFit'
  BY <1>1, <1>4, ReadersStep DEF CacheInv
<1>6. QED
  BY <1>1, <1>5, ReadersOnly

LEMMA FindSourceFits ==
  ASSUME CacheInv, NEW r \in Reader, FindSource(r)
  PROVE  CacheInv'
<1> DEFINE old == reader[r]
           key == Head(old.todo).key
           of == kept[key].of
           passed == old.overtaken \/ key \in late
<1>1. /\ old.at = "asking" /\ old.todo # <<>> /\ key \in DOMAIN kept
      /\ Gets(r, of, kept[key].wraps, passed)
      /\ UNCHANGED <<family, content, kept, late, editor>>
  BY DEF FindSource, Asks
<1>2. Asked(old) /\ InTime(old) /\ FamilyKept /\ EditorsFit /\ PagesFit /\ ReadersFit
  BY DEF CacheInv, ReadersFit
<1>3. /\ SourceFits(family, old.page, Head(old.todo)) /\ old.page \in family.pages
      /\ \E i \in DOMAIN old.page.from : Head(old.todo) = old.page.from[i]
      /\ \A d : Held(key, d) => Held(old.page.key, d)
  BY <1>1, <1>2, HeadAsked
<1>4. \A d \in DOMAIN of : Held(old.page.key, d)
  BY <1>1, <1>2, <1>3 DEF PagesFit, KeptFit
<1>5. passed \in BOOLEAN
  OBVIOUS
<1>6. ~passed => ~old.overtaken /\ key \notin late
  OBVIOUS
<1>7. ASSUME ~passed, old.page.key # OgPage.key, NEW d \in DOMAIN of, of[d] # content[d]
      PROVE  Due(old.page.key)
  <2>1. key # OgPage.key
    BY <1>3 DEF SourceFits
  <2>2. Stale(key)
    BY <1>7 DEF Stale
  <2>3. Due(key)
    BY <1>1, <1>2, <1>6, <1>7, <2>1, <2>2 DEF PagesFit, StaleOnlyWhenOvertaken
  <2>4. QED
    BY <1>2, <1>3, <1>7, <2>3, DueFollows
<1> HIDE DEF of, passed
<1>8. ReadersFit'
  BY <1>1, <1>2, <1>4, <1>5, <1>6, <1>7, GetsFits
<1>9. QED
  BY <1>1, <1>8, ReadersOnly

LEMMA MissSourceFits ==
  ASSUME CacheInv, NEW r \in Reader, MissSource(r)
  PROVE  CacheInv'
<1> DEFINE old == reader[r]
           me == [old EXCEPT !.at = "reading"]
<1>1. /\ old.at = "asking" /\ old.todo # <<>> /\ reader' = [reader EXCEPT ![r] = me]
      /\ UNCHANGED <<family, content, kept, late, editor>>
  BY DEF MissSource, Asks
<1>2. Asked(old) /\ InTime(old)
  BY DEF CacheInv, ReadersFit
<1>3. /\ DOMAIN me = DOMAIN old /\ me.at = "reading"
      /\ me.page = old.page /\ me.todo = old.todo /\ me.has = old.has /\ me.overtaken = old.overtaken
  BY <1>2 DEF Asked
<1> HIDE DEF me
<1>4. Asked(me) /\ InTime(me)
  BY <1>1, <1>2, <1>3 DEF Asked, InTime
<1>5. ReadersFit'
  BY <1>1, <1>4, ReadersStep DEF CacheInv
<1>6. QED
  BY <1>1, <1>5, ReadersOnly

LEMMA ReadSourceFits ==
  ASSUME CacheInv, NEW r \in Reader, ReadSource(r)
  PROVE  CacheInv'
<1> DEFINE old == reader[r]
           source == Head(old.todo)
           of == [d \in {source.doc} |-> content[source.doc]]
           has == With(of, old.has)
           me == [old EXCEPT !.at = "keeping", !.has = has]
<1>1. old.at = "reading" /\ UNCHANGED <<family, content, kept, late, editor>>
  BY DEF ReadSource
<1>2. Asked(old) /\ InTime(old) /\ FamilyKept /\ ReadersFit
  BY DEF CacheInv, ReadersFit
<1>3. old.todo # <<>> /\ old.overtaken \in BOOLEAN
  BY <1>1, <1>2 DEF Asked
<1>4. Held(old.page.key, source.doc)
  BY <1>1, <1>2, <1>3, HeadAsked
<1>5. DOMAIN of = {source.doc} /\ of[source.doc] = content[source.doc]
  OBVIOUS
<1>6. /\ DOMAIN has = DOMAIN of \cup DOMAIN old.has
      /\ \A d \in DOMAIN of : has[d] = of[d]
      /\ \A d \in DOMAIN has : d \notin DOMAIN of => has[d] = old.has[d]
  BY DEF With
<1> HIDE DEF of
<1>7. CASE Gets(r, of, 0, old.overtaken)
  <2>1. ReadersFit'
    BY <1>1, <1>2, <1>3, <1>4, <1>5, <1>7, GetsFits
  <2>2. QED
    BY <1>1, <2>1, ReadersOnly
<1> HIDE DEF has
<1>8. CASE source.key # NoKey /\ reader' = [reader EXCEPT ![r] = me]
  <2>1. /\ DOMAIN me = DOMAIN old /\ me.at = "keeping"
        /\ me.page = old.page /\ me.todo = old.todo /\ me.has = has /\ me.overtaken = old.overtaken
    BY <1>2 DEF Asked
  <2> HIDE DEF me
  <2>2. Asked(me)
    <3>1. \A d \in DOMAIN me.has : Held(me.page.key, d)
      BY <1>1, <1>2, <1>4, <1>5, <1>6, <2>1 DEF Asked
    <3>2. source.doc \in DOMAIN me.has
      BY <1>5, <1>6, <2>1
    <3>3. QED
      BY <1>1, <1>2, <1>3, <1>8, <2>1, <3>1, <3>2 DEF Asked
  <2>3. InTime(me)
    <3>1. me.has[source.doc] = content[source.doc]
      BY <1>5, <1>6, <2>1
    <3>2. \A d \in DOMAIN me.has : me.has[d] # content[d] => d \in DOMAIN old.has /\ me.has[d] = old.has[d]
      BY <1>5, <1>6, <2>1
    <3>3. QED
      BY <1>1, <1>2, <2>1, <3>1, <3>2 DEF InTime
  <2>4. ReadersFit'
    BY <1>1, <1>2, <1>8, <2>2, <2>3, ReadersStep
  <2>5. QED
    BY <1>1, <2>4, ReadersOnly
<1>9. (source.key # NoKey /\ reader' = [reader EXCEPT ![r] = me]) \/ Gets(r, of, 0, old.overtaken)
  <2>1. CASE source.key = NoKey \/ content[source.doc] = 0
    BY <2>1 DEF ReadSource, of
  <2>2. CASE ~(source.key = NoKey \/ content[source.doc] = 0)
    BY <2>2 DEF ReadSource, of, has, CacheInv, ReadersFit
  <2>3. QED
    BY <2>1, <2>2
<1>10. QED
  BY <1>7, <1>8, <1>9

LEMMA KeepSourceFits ==
  ASSUME CacheInv, NEW r \in Reader, KeepSource(r)
  PROVE  CacheInv'
<1> DEFINE old == reader[r]
           source == Head(old.todo)
           of == [d \in {source.doc} |-> old.has[source.doc]]
<1>1. /\ old.at = "keeping" /\ Keep(source.key, of, 0) /\ Marked(source.key, old.overtaken)
      /\ Gets(r, of, 0, old.overtaken) /\ UNCHANGED <<family, content, editor>>
  BY DEF KeepSource
<1>2. Asked(old) /\ InTime(old) /\ FamilyKept /\ ReadersFit /\ EditorsFit /\ PagesFit
  BY DEF CacheInv, ReadersFit
<1>3. old.todo # <<>> /\ old.overtaken \in BOOLEAN /\ source.key # NoKey
  BY <1>1, <1>2 DEF Asked
<1>4. /\ Held(old.page.key, source.doc) /\ Held(source.key, source.doc) /\ source.key \in KeysOf(family)
  BY <1>1, <1>2, <1>3, HeadAsked
<1>5. DOMAIN of = {source.doc} /\ (~old.overtaken => of[source.doc] = content[source.doc])
  BY <1>1, <1>2 DEF InTime
<1> HIDE DEF of
<1>6. PagesFit'
  BY <1>1, <1>2, <1>3, <1>4, <1>5, KeepFits
<1>7. ReadersFit'
  <2>1. \A d \in DOMAIN of : Held(old.page.key, d)
    BY <1>4, <1>5
  <2>2. ~old.overtaken => \A d \in DOMAIN of : of[d] = content[d]
    BY <1>5
  <2>3. old.at # "idle"
    BY <1>1
  <2>4. QED
    BY <1>1, <1>2, <1>3, <2>1, <2>2, <2>3, GetsFits
<1>8. FamilyKept' /\ EditorsFit'
  BY <1>1, <1>2 DEF FamilyKept, Docs, EditorsFit, Left, PageFollows, KeysOf
<1>9. QED
  BY <1>6, <1>7, <1>8 DEF CacheInv

LEMMA KeepPageFits ==
  ASSUME CacheInv, NEW r \in Reader, KeepPage(r)
  PROVE  CacheInv'
<1> DEFINE old == reader[r]
<1>1. /\ old.at = "asking" /\ reader' = [reader EXCEPT ![r] = AtRest] /\ UNCHANGED <<family, content, editor>>
  BY DEF KeepPage
<1>2. Asked(old) /\ InTime(old) /\ FamilyKept /\ ReadersFit /\ EditorsFit /\ PagesFit
  BY DEF CacheInv, ReadersFit
<1>3. /\ old.page \in family.pages /\ old.page.key \in KeysOf(family) /\ old.overtaken \in BOOLEAN
      /\ \A d \in DOMAIN old.has : Held(old.page.key, d)
  BY <1>1, <1>2, KeysAre DEF Asked
<1>4. ASSUME NEW wraps, Keep(old.page.key, old.has, wraps), Marked(old.page.key, old.overtaken)
      PROVE  PagesFit'
  <2>1. ~old.overtaken /\ old.page.key # OgPage.key =>
          \A d \in DOMAIN old.has : old.has[d] # content[d] => Due(old.page.key)
    BY <1>1, <1>2 DEF InTime
  <2>2. QED
    BY <1>1, <1>2, <1>3, <1>4, <2>1, KeepFits
<1>5. PagesFit'
  <2>1. CASE UNCHANGED <<kept, late>>
    BY <1>1, <1>2, <2>1 DEF PagesFit, KeptFit, ListedFit, StaleOnlyWhenOvertaken, Stale, Due, Held, Docs, KeysOf
  <2> DEFINE wraps == Wrapped(old.wraps, old.page.wraps)
  <2>2. UNCHANGED <<kept, late>> \/ (Keep(old.page.key, old.has, wraps) /\ Marked(old.page.key, old.overtaken))
    BY DEF KeepPage
  <2> HIDE DEF wraps
  <2>3. QED
    BY <2>1, <2>2, <1>4
<1>6. ReadersFit'
  <2>1. Asked(AtRest) /\ InTime(AtRest)
    BY DEF AtRest, Asked, InTime
  <2>2. QED
    BY <1>1, <1>2, <2>1, ReadersStep
<1>7. FamilyKept' /\ EditorsFit'
  BY <1>1, <1>2 DEF FamilyKept, Docs, EditorsFit, Left, PageFollows, KeysOf
<1>8. QED
  BY <1>5, <1>6, <1>7 DEF CacheInv

(* A step of an editor overtakes who reads.                                *)
LEMMA OvertakesFits ==
  ASSUME ReadersFit, Overtakes, UNCHANGED family
  PROVE  ReadersFit'
<1>1. DOMAIN reader' = Reader /\ \A r \in Reader : reader'[r] = [reader[r] EXCEPT !.overtaken = reader[r].at # "idle"]
  BY DEF Overtakes
<1>2. ASSUME NEW r \in Reader PROVE Asked(reader[r])' /\ InTime(reader[r])'
  <2> DEFINE old == reader[r]
             me == [old EXCEPT !.overtaken = old.at # "idle"]
  <2>1. Asked(old) /\ reader'[r] = me
    BY <1>1 DEF ReadersFit
  <2>2. /\ DOMAIN me = DOMAIN old /\ me.at = old.at /\ me.page = old.page /\ me.todo = old.todo /\ me.has = old.has
    BY <2>1 DEF Asked
  <2>3. me.overtaken \in BOOLEAN
    BY <2>1 DEF Asked
  <2>4. me.at # "idle" => me.overtaken
    BY <2>1 DEF Asked
  <2> HIDE DEF me
  <2>5. Asked(me)
    BY <2>1, <2>2, <2>3 DEF Asked
  <2>6. Asked(reader'[r]) /\ (reader'[r].at # "idle" => reader'[r].overtaken)
    BY <2>1, <2>4, <2>5
  <2>7. Asked(reader[r])'
    BY <2>6 DEF Asked, Held, Docs
  <2>8. InTime(reader[r])'
    BY <2>6 DEF InTime
  <2>9. QED
    BY <2>7, <2>8
<1>3. QED
  BY <1>1, <1>2 DEF ReadersFit

LEMMA EditorsStep ==
  ASSUME EditorsFit, NEW e \in Editor, NEW me, editor' = [editor EXCEPT ![e] = me], Left(me), UNCHANGED family
  PROVE  EditorsFit' /\ editor'[e] = me /\ \A o \in Editor : o # e => editor'[o] = editor[o]
<1>1. DOMAIN editor' = Editor /\ editor'[e] = me /\ \A o \in Editor : o # e => editor'[o] = editor[o]
  BY DEF EditorsFit
<1>2. \A o \in Editor : Left(editor'[o])
  BY <1>1 DEF EditorsFit
<1>3. QED
  BY <1>1, <1>2 DEF EditorsFit, Left, PageFollows, KeysOf

(* What is left after the first deletes.                                   *)
LEMMA RestLeft ==
  ASSUME NEW old, Left(old), old.at \in {"deleting", "listed"}
  PROVE  LET next == IF Len(old.todo) = 1 THEN NotEditing
                     ELSE [NotEditing EXCEPT !.at = "deleting", !.todo = Tail(old.todo)]
         IN  /\ Left(next) /\ next.at # "listed"
             /\ \A key : (\E j \in DOMAIN old.todo : key \in old.todo[j]) =>
                           key \in Head(old.todo) \/ \E j \in DOMAIN next.todo : key \in next.todo[j]
<1> DEFINE next == IF Len(old.todo) = 1 THEN NotEditing
                   ELSE [NotEditing EXCEPT !.at = "deleting", !.todo = Tail(old.todo)]
           rest == Tail(old.todo)
<1>1. /\ old.todo # <<>> /\ IsSeq(old.todo) /\ PageFollows(old.todo)
  BY DEF Left
<1>2. /\ IsSeq(rest) /\ Len(old.todo) \in Nat \ {0} /\ DOMAIN old.todo = 1 .. Len(old.todo) /\ Head(old.todo) = old.todo[1]
      /\ DOMAIN rest = 1 .. (Len(old.todo) - 1)
      /\ \A i \in DOMAIN rest : i + 1 \in DOMAIN old.todo /\ rest[i] = old.todo[i + 1]
  BY <1>1, TailIs
<1>3. ASSUME NEW j \in DOMAIN old.todo, j # 1 PROVE j - 1 \in DOMAIN rest /\ rest[j - 1] = old.todo[j]
  BY <1>2, <1>3
<1>4. CASE Len(old.todo) = 1
  <2>1. next = NotEditing
    BY <1>4
  <2>2. Left(NotEditing) /\ NotEditing.at # "listed"
    BY EmptyIs DEF NotEditing, Left, PageFollows
  <2>3. \A j \in DOMAIN old.todo : j = 1
    BY <1>2, <1>4
  <2>4. QED
    BY <1>2, <2>1, <2>2, <2>3
<1>5. CASE Len(old.todo) # 1
  <2>1. /\ DOMAIN next = {"at", "todo", "found"} /\ next.at = "deleting" /\ next.todo = rest
    BY <1>5 DEF NotEditing
  <2> HIDE DEF rest
  <2>2. rest # <<>>
    <3> DEFINE n == Len(old.todo)
    <3>0. n \in Nat \ {0} /\ n # 1 /\ DOMAIN rest = 1 .. (n - 1)
      BY <1>2, <1>5
    <3> HIDE DEF n
    <3>1. 1 \in DOMAIN rest
      BY <3>0
    <3>2. QED
      BY <3>1
  <2>3. PageFollows(rest)
    <3> SUFFICES ASSUME NEW p \in family.pages, p.key # OgPage.key, NEW i \in DOMAIN p.from, NEW j \in DOMAIN rest,
                        p.from[i].key \in rest[j]
                 PROVE  \E k \in DOMAIN rest : k >= j /\ p.key \in rest[k]
      BY DEF PageFollows
    <3>1. j + 1 \in DOMAIN old.todo /\ p.from[i].key \in old.todo[j + 1] /\ j \in Nat \ {0}
      BY <1>2
    <3>2. PICK k \in DOMAIN old.todo : k >= j + 1 /\ p.key \in old.todo[k]
      BY <1>1, <3>1 DEF PageFollows
    <3>3. k \in Nat /\ k # 1
      BY <1>2, <3>1, <3>2
    <3>4. k - 1 \in DOMAIN rest /\ rest[k - 1] = old.todo[k] /\ k - 1 >= j
      BY <1>3, <3>1, <3>2, <3>3
    <3>5. QED
      BY <3>2, <3>4
  <2>4. Left(next)
    BY <1>2, <2>1, <2>2, <2>3 DEF Left
  <2> HIDE DEF next
  <2>5. QED
    BY <1>2, <1>3, <2>1, <2>4 DEF next
<1>6. QED
  BY <1>4, <1>5

LEMMA DeletesIs ==
  ASSUME EditorsFit, NEW e \in Editor, Deletes(e), editor[e].at \in {"deleting", "listed"}, UNCHANGED family
  PROVE  /\ EditorsFit' /\ editor'[e].at # "listed" /\ \A o \in Editor : o # e => editor'[o] = editor[o]
         /\ \A key : Due(key) => Due(key)' \/ key \in Head(editor[e].todo)
<1> DEFINE old == editor[e]
           next == IF Len(old.todo) = 1 THEN NotEditing
                   ELSE [NotEditing EXCEPT !.at = "deleting", !.todo = Tail(old.todo)]
<1>1. Left(old) /\ editor' = [editor EXCEPT ![e] = next]
  BY DEF EditorsFit, Deletes
<1>2. /\ Left(next) /\ next.at # "listed"
      /\ \A key : (\E j \in DOMAIN old.todo : key \in old.todo[j]) =>
                    key \in Head(old.todo) \/ \E j \in DOMAIN next.todo : key \in next.todo[j]
  BY <1>1, RestLeft
<1> HIDE DEF next
<1>3. EditorsFit' /\ editor'[e] = next /\ \A o \in Editor : o # e => editor'[o] = editor[o]
  BY <1>1, <1>2, EditorsStep
<1>4. ASSUME NEW key, Due(key) PROVE Due(key)' \/ key \in Head(old.todo)
  <2>1. PICK o \in Editor : editor[o].at = "restoring" \/ \E j \in DOMAIN editor[o].todo : key \in editor[o].todo[j]
    BY <1>4 DEF Due
  <2>2. CASE o = e
    BY <1>2, <1>3, <2>1, <2>2 DEF Due
  <2>3. CASE o # e
    BY <1>3, <2>1, <2>3 DEF Due
  <2>4. QED
    BY <2>2, <2>3
<1>5. QED
  BY <1>2, <1>3, <1>4

LEMMA WriteFits ==
  ASSUME CacheInv, NEW e \in Editor, NEW d \in Docs, NEW v, Write(e, d, v)
  PROVE  CacheInv'
<1> DEFINE me == [NotEditing EXCEPT !.at = "deleting", !.todo = family.deletes[d]]
<1>1. /\ editor[e].at = "idle" /\ content' = [content EXCEPT ![d] = v] /\ editor' = [editor EXCEPT ![e] = me]
      /\ Overtakes /\ UNCHANGED <<family, kept, late>>
  BY DEF Write
<1>2. ReadersFit /\ EditorsFit /\ PagesFit /\ FamilyKept
  BY DEF CacheInv
<1>3. DOMAIN me = {"at", "todo", "found"} /\ me.at = "deleting" /\ me.todo = family.deletes[d]
  BY DEF NotEditing
<1> HIDE DEF me
<1>4. Left(me)
  <2>1. IsSeq(family.deletes[d]) /\ family.deletes[d] # <<>>
    BY <1>2 DEF FamilyKept, WellMade, Docs
  <2>2. PageFollows(family.deletes[d])
    BY <1>2 DEF FamilyKept, WellMade, SourceFits, PageFollows, Docs
  <2>3. QED
    BY <1>3, <2>1, <2>2 DEF Left
<1>5. EditorsFit' /\ editor'[e] = me /\ \A o \in Editor : o # e => editor'[o] = editor[o]
  BY <1>1, <1>2, <1>4, EditorsStep
<1>6. FamilyKept' /\ \A x \in Docs : x # d => content'[x] = content[x]
  BY <1>1, <1>2 DEF FamilyKept, Docs
<1>7. ReadersFit'
  BY <1>1, <1>2, OvertakesFits
<1>8. ListedFit'
  BY <1>1, <1>2, <1>3, <1>5 DEF PagesFit, ListedFit
<1>9. KeptFit'
  BY <1>1, <1>2 DEF PagesFit, KeptFit, Held, Docs, KeysOf
<1>10. \A key : Due(key) => Due(key)'
  <2> SUFFICES ASSUME NEW key, NEW o \in Editor,
                      editor[o].at = "restoring" \/ \E j \in DOMAIN editor[o].todo : key \in editor[o].todo[j]
               PROVE  Due(key)'
    BY DEF Due
  <2>1. o # e
    <3>1. editor[e].todo = <<>>
      BY <1>1, <1>2 DEF EditorsFit, Left
    <3>2. QED
      BY <1>1, <3>1
  <2>2. QED
    BY <1>5, <2>1 DEF Due
<1>11. StaleOnlyWhenOvertaken'
  <2> SUFFICES ASSUME NEW key \in DOMAIN kept \ {OgPage.key}, NEW x \in DOMAIN kept[key].of, kept[key].of[x] # content'[x]
               PROVE  Due(key)' \/ key \in late
    BY <1>1 DEF StaleOnlyWhenOvertaken, Stale
  <2>1. Held(key, x)
    BY <1>2 DEF PagesFit, KeptFit
  <2>2. CASE x = d
    <3>1. PICK j \in DOMAIN family.deletes[d] : key \in family.deletes[d][j]
      BY <2>1, <2>2 DEF Held
    <3>2. QED
      BY <1>3, <1>5, <3>1 DEF Due
  <2>3. CASE x # d
    <3>1. Stale(key)
      BY <1>6, <2>1, <2>3 DEF Stale, Held
    <3>2. QED
      BY <1>2, <1>10, <3>1 DEF PagesFit, StaleOnlyWhenOvertaken
  <2>4. QED
    BY <2>2, <2>3
<1>12. QED
  BY <1>5, <1>6, <1>7, <1>8, <1>9, <1>11 DEF CacheInv, PagesFit

LEMMA RestoreFits ==
  ASSUME CacheInv, NEW e \in Editor, NEW d \in Docs, NEW v, Restore(e, d, v)
  PROVE  CacheInv'
<1> DEFINE me == [NotEditing EXCEPT !.at = "restoring", !.todo = <<KeysOf(family)>>]
<1>1. /\ content' = [content EXCEPT ![d] = v] /\ editor' = [editor EXCEPT ![e] = me]
      /\ Overtakes /\ UNCHANGED <<family, kept, late>>
  BY DEF Restore
<1>2. ReadersFit /\ EditorsFit /\ PagesFit /\ FamilyKept
  BY DEF CacheInv
<1>3. DOMAIN me = {"at", "todo", "found"} /\ me.at = "restoring" /\ me.todo = <<KeysOf(family)>>
  BY DEF NotEditing
<1> HIDE DEF me
<1>4. Left(me)
  <2>1. IsSeq(<<KeysOf(family)>>) /\ DOMAIN <<KeysOf(family)>> = {1}
    BY OneIs
  <2>2. PageFollows(<<KeysOf(family)>>)
    BY <2>1, KeysAre DEF PageFollows
  <2>3. QED
    BY <1>3, <2>1, <2>2 DEF Left
<1>5. EditorsFit' /\ editor'[e] = me /\ \A o \in Editor : o # e => editor'[o] = editor[o]
  BY <1>1, <1>2, <1>4, EditorsStep
<1>6. FamilyKept'
  BY <1>1, <1>2 DEF FamilyKept, Docs
<1>7. ReadersFit'
  BY <1>1, <1>2, OvertakesFits
<1>8. ListedFit'
  BY <1>1, <1>2, <1>3, <1>5 DEF PagesFit, ListedFit
<1>9. KeptFit'
  BY <1>1, <1>2 DEF PagesFit, KeptFit, Held, Docs, KeysOf
<1>10. \A key : Due(key)'
  BY <1>3, <1>5 DEF Due
<1>11. StaleOnlyWhenOvertaken'
  BY <1>10 DEF StaleOnlyWhenOvertaken
<1>12. QED
  BY <1>5, <1>6, <1>7, <1>8, <1>9, <1>11 DEF CacheInv, PagesFit

LEMMA ListKeysFits ==
  ASSUME CacheInv, NEW e \in Editor, ListKeys(e)
  PROVE  CacheInv'
<1> DEFINE old == editor[e]
           found == Head(old.todo) \cap (DOMAIN kept \cup NamedInFull)
           me == [old EXCEPT !.at = "listed", !.found = found]
<1>1. /\ old.at = "deleting" /\ Overtakes /\ UNCHANGED <<family, content, kept, late>>
  BY DEF ListKeys
<1>2. ReadersFit /\ EditorsFit /\ PagesFit /\ FamilyKept /\ Left(old)
  BY DEF CacheInv, EditorsFit
<1>3. editor' = [editor EXCEPT ![e] = me]
  BY <1>2 DEF ListKeys, EditorsFit
<1> HIDE DEF found
<1>4. DOMAIN me = {"at", "todo", "found"} /\ me.at = "listed" /\ me.todo = old.todo /\ me.found = found
  BY <1>2 DEF Left
<1> HIDE DEF me
<1>5. Left(me)
  BY <1>1, <1>2, <1>4 DEF Left
<1>6. EditorsFit' /\ editor'[e] = me /\ \A o \in Editor : o # e => editor'[o] = editor[o]
  BY <1>1, <1>2, <1>3, <1>5, EditorsStep
<1>7. ReadersFit'
  BY <1>1, <1>2, OvertakesFits
<1>8. ListedFit'
  <2>1. (Head(me.todo) \ me.found) \cap DOMAIN kept = {}
    BY <1>4 DEF found
  <2>2. QED
    BY <1>1, <1>2, <1>6, <2>1 DEF PagesFit, ListedFit
<1>9. \A key : Due(key) => Due(key)'
  <2> SUFFICES ASSUME NEW key, NEW o \in Editor,
                      editor[o].at = "restoring" \/ \E j \in DOMAIN editor[o].todo : key \in editor[o].todo[j]
               PROVE  Due(key)'
    BY DEF Due
  <2>1. editor'[o].todo = editor[o].todo /\ (editor[o].at = "restoring" => editor'[o].at = "restoring")
    BY <1>1, <1>4, <1>6
  <2>2. QED
    BY <2>1 DEF Due
<1>10. StaleOnlyWhenOvertaken'
  BY <1>1, <1>2, <1>9 DEF PagesFit, StaleOnlyWhenOvertaken, Stale
<1>11. KeptFit' /\ FamilyKept'
  BY <1>1, <1>2 DEF PagesFit, KeptFit, Held, Docs, KeysOf, FamilyKept
<1>12. QED
  BY <1>6, <1>7, <1>8, <1>10, <1>11 DEF CacheInv, PagesFit

LEMMA DeleteKeysFits ==
  ASSUME CacheInv, NEW e \in Editor, DeleteKeys(e)
  PROVE  CacheInv'
<1> DEFINE old == editor[e]
<1>1. /\ old.at = "listed" /\ Drop(old.found) /\ late' = late \ old.found
      /\ Deletes(e) /\ Overtakes /\ UNCHANGED <<family, content>>
  BY DEF DeleteKeys
<1>2. ReadersFit /\ EditorsFit /\ PagesFit /\ FamilyKept
  BY DEF CacheInv
<1>3. /\ EditorsFit' /\ editor'[e].at # "listed" /\ \A o \in Editor : o # e => editor'[o] = editor[o]
      /\ \A key : Due(key) => Due(key)' \/ key \in Head(old.todo)
  BY <1>1, <1>2, DeletesIs
<1>4. ReadersFit'
  BY <1>1, <1>2, OvertakesFits
<1>5. DOMAIN kept' = DOMAIN kept \ old.found /\ \A k \in DOMAIN kept' : kept'[k] = kept[k]
  BY <1>1 DEF Drop
<1>6. \A key \in Head(old.todo) \cap DOMAIN kept' : key \in late'
  BY <1>1, <1>2, <1>5 DEF PagesFit, ListedFit
<1>7. ListedFit'
  BY <1>1, <1>2, <1>3, <1>5 DEF PagesFit, ListedFit
<1>8. StaleOnlyWhenOvertaken'
  <2> SUFFICES ASSUME NEW key \in DOMAIN kept' \ {OgPage.key}, Stale(key)' PROVE Due(key)' \/ key \in late'
    BY DEF StaleOnlyWhenOvertaken
  <2>1. Stale(key) /\ key \in DOMAIN kept
    BY <1>1, <1>5 DEF Stale
  <2>2. Due(key) \/ key \in late'
    BY <1>1, <1>2, <1>5, <2>1 DEF PagesFit, StaleOnlyWhenOvertaken
  <2>3. QED
    BY <1>3, <1>6, <2>2
<1>9. KeptFit' /\ FamilyKept'
  BY <1>1, <1>2, <1>5 DEF PagesFit, KeptFit, Held, Docs, KeysOf, FamilyKept
<1>10. QED
  BY <1>3, <1>4, <1>7, <1>8, <1>9 DEF CacheInv, PagesFit

LEMMA DeleteFailsFits ==
  ASSUME CacheInv, NEW e \in Editor, DeleteFails(e)
  PROVE  CacheInv'
<1> DEFINE old == editor[e]
<1>1. /\ old.at \in {"deleting", "listed"} /\ late' = late \cup Head(old.todo)
      /\ Deletes(e) /\ Overtakes /\ UNCHANGED <<family, content, kept>>
  BY DEF DeleteFails
<1>2. ReadersFit /\ EditorsFit /\ PagesFit /\ FamilyKept
  BY DEF CacheInv
<1>3. /\ EditorsFit' /\ editor'[e].at # "listed" /\ \A o \in Editor : o # e => editor'[o] = editor[o]
      /\ \A key : Due(key) => Due(key)' \/ key \in Head(old.todo)
  BY <1>1, <1>2, DeletesIs
<1>4. ReadersFit'
  BY <1>1, <1>2, OvertakesFits
<1>5. ListedFit'
  BY <1>1, <1>2, <1>3 DEF PagesFit, ListedFit
<1>6. StaleOnlyWhenOvertaken'
  BY <1>1, <1>2, <1>3 DEF PagesFit, StaleOnlyWhenOvertaken, Stale
<1>7. KeptFit' /\ FamilyKept'
  BY <1>1, <1>2 DEF PagesFit, KeptFit, Held, Docs, KeysOf, FamilyKept
<1>8. QED
  BY <1>3, <1>4, <1>5, <1>6, <1>7 DEF CacheInv, PagesFit

LEMMA RestoreEndsFits ==
  ASSUME CacheInv, NEW e \in Editor, RestoreEnds(e)
  PROVE  CacheInv'
<1> DEFINE old == editor[e]
           me == [old EXCEPT !.at = "deleting"]
<1>1. /\ old.at = "restoring" /\ editor' = [editor EXCEPT ![e] = me]
      /\ UNCHANGED <<family, content, kept, late, reader>>
  BY DEF RestoreEnds
<1>2. ReadersFit /\ EditorsFit /\ PagesFit /\ FamilyKept /\ Left(old)
  BY DEF CacheInv, EditorsFit
<1>3. DOMAIN me = {"at", "todo", "found"} /\ me.at = "deleting" /\ me.todo = <<KeysOf(family)>>
  BY <1>1, <1>2 DEF Left
<1> HIDE DEF me
<1>4. IsSeq(<<KeysOf(family)>>) /\ DOMAIN <<KeysOf(family)>> = {1}
  BY OneIs
<1>5. Left(me)
  BY <1>1, <1>2, <1>3, <1>4 DEF Left
<1>6. EditorsFit' /\ editor'[e] = me /\ \A o \in Editor : o # e => editor'[o] = editor[o]
  BY <1>1, <1>2, <1>5, EditorsStep
<1>7. \A key \in KeysOf(family) : Due(key) => Due(key)'
  BY <1>3, <1>4, <1>6 DEF Due
<1>8. ReadersFit'
  <2> SUFFICES ASSUME NEW r \in Reader PROVE Asked(reader[r])' /\ InTime(reader[r])'
    BY <1>1, <1>2 DEF ReadersFit
  <2>1. Asked(reader[r]) /\ InTime(reader[r])
    BY <1>2 DEF ReadersFit
  <2>2. Asked(reader[r])'
    BY <1>1, <2>1 DEF Asked, Held, Docs
  <2>3. InTime(reader[r])'
    <3>1. reader[r].at # "idle" => reader[r].page.key \in KeysOf(family)
      BY <2>1, KeysAre DEF Asked
    <3>2. QED
      BY <1>1, <1>7, <2>1, <3>1 DEF InTime
  <2>4. QED
    BY <2>2, <2>3
<1>9. ListedFit'
  BY <1>1, <1>2, <1>3, <1>6 DEF PagesFit, ListedFit
<1>10. StaleOnlyWhenOvertaken'
  BY <1>1, <1>2, <1>7 DEF PagesFit, StaleOnlyWhenOvertaken, Stale, KeptFit
<1>11. KeptFit' /\ FamilyKept'
  BY <1>1, <1>2 DEF PagesFit, KeptFit, Held, Docs, KeysOf, FamilyKept
<1>12. QED
  BY <1>6, <1>8, <1>9, <1>10, <1>11 DEF CacheInv, PagesFit

LEMMA RestoreFailsFits ==
  ASSUME CacheInv, NEW e \in Editor, RestoreFails(e)
  PROVE  CacheInv'
<1>1. /\ late' = late \cup KeysOf(family) /\ editor' = [editor EXCEPT ![e] = NotEditing]
      /\ Overtakes /\ UNCHANGED <<family, content, kept>>
  BY DEF RestoreFails
<1>2. ReadersFit /\ EditorsFit /\ PagesFit /\ FamilyKept
  BY DEF CacheInv
<1>3. Left(NotEditing) /\ NotEditing.at = "idle"
  BY EmptyIs DEF NotEditing, Left, PageFollows
<1>4. EditorsFit' /\ editor'[e] = NotEditing /\ \A o \in Editor : o # e => editor'[o] = editor[o]
  BY <1>1, <1>2, <1>3, EditorsStep
<1>5. ReadersFit'
  BY <1>1, <1>2, OvertakesFits
<1>6. ListedFit' /\ StaleOnlyWhenOvertaken'
  BY <1>1, <1>2 DEF PagesFit, ListedFit, StaleOnlyWhenOvertaken, KeptFit
<1>7. KeptFit' /\ FamilyKept'
  BY <1>1, <1>2 DEF PagesFit, KeptFit, Held, Docs, KeysOf, FamilyKept
<1>8. QED
  BY <1>4, <1>5, <1>6, <1>7 DEF CacheInv, PagesFit

(* Steps that leave documents, readers and editors alone.                  *)
LEMMA WorkersRest ==
  ASSUME CacheInv, UNCHANGED <<family, content, reader, editor>>
  PROVE  FamilyKept' /\ ReadersFit' /\ EditorsFit'
<1>1. FamilyKept' /\ EditorsFit'
  BY DEF CacheInv, FamilyKept, Docs, EditorsFit, Left, PageFollows, KeysOf
<1>2. ASSUME NEW r \in Reader PROVE Asked(reader[r])' /\ InTime(reader[r])'
  <2>1. Asked(reader[r]) /\ InTime(reader[r])
    BY DEF CacheInv, ReadersFit
  <2>2. Asked(reader[r])'
    BY <2>1 DEF Asked, Held, Docs
  <2>3. InTime(reader[r])'
    BY <2>1 DEF InTime, Due
  <2>4. QED
    BY <2>2, <2>3
<1>3. QED
  BY <1>1, <1>2 DEF CacheInv, ReadersFit

LEMMA CacheInductive == CacheInv /\ [CacheNext]_cacheVars => CacheInv'
<1> SUFFICES ASSUME CacheInv, [CacheNext]_cacheVars PROVE CacheInv'
  OBVIOUS
<1>1. ASSUME NEW key \in DOMAIN kept, CacheLapses(key) PROVE CacheInv'
  <2>1. Drop({key}) /\ late' = late \ {key} /\ UNCHANGED <<family, content, reader, editor>>
    BY <1>1 DEF CacheLapses
  <2>2. PagesFit'
    BY <2>1, DropFits DEF CacheInv
  <2>3. QED
    BY <2>1, <2>2, WorkersRest DEF CacheInv
<1>2. ASSUME NEW r \in Reader, ReaderSteps(r) PROVE CacheInv'
  BY <1>2, FindSourceFits, MissSourceFits, ReadSourceFits, KeepSourceFits, KeepPageFits DEF ReaderSteps
<1>3. ASSUME NEW r \in Reader, NEW p \in family.pages, MissPage(r, p) PROVE CacheInv'
  BY <1>3, MissPageFits
<1>4. ASSUME NEW e \in Editor, EditorSteps(e) \/ DeleteFails(e) \/ RestoreFails(e) PROVE CacheInv'
  BY <1>4, ListKeysFits, DeleteKeysFits, RestoreEndsFits, DeleteFailsFits, RestoreFailsFits DEF EditorSteps
<1>5. ASSUME NEW e \in Editor, NEW d \in Docs, NEW v \in Version, Write(e, d, v) \/ Restore(e, d, v) PROVE CacheInv'
  BY <1>5, WriteFits, RestoreFits
<1>6. CASE UNCHANGED cacheVars
  BY <1>6, WorkersRest, ReadersOnly DEF cacheVars
<1>7. QED
  BY <1>1, <1>2, <1>3, <1>4, <1>5, <1>6 DEF CacheNext

(* What a write deletes is the key of a page or of a source.               *)
Shown(f, key) == \E p \in f.pages : key = p.key \/ \E i \in DOMAIN p.from : key = p.from[i].key
Tidy(f) == \A d \in DOMAIN f.deletes : \A j \in DOMAIN f.deletes[d] : \A key \in f.deletes[d][j] : Shown(f, key)

LEMMA ShownIs == ASSUME NEW f, NEW key, Shown(f, key) PROVE key \in KeysOf(f)
<1>1. PICK p \in f.pages : key = p.key \/ \E i \in DOMAIN p.from : key = p.from[i].key
  BY DEF Shown
<1>2. CASE key = p.key
  BY <1>2 DEF KeysOf
<1>3. CASE \E i \in DOMAIN p.from : key = p.from[i].key
  <2>1. PICK i \in DOMAIN p.from : key = p.from[i].key
    BY <1>3
  <2>2. p.from[i] \in UNION {{q.from[j] : j \in DOMAIN q.from} : q \in f.pages}
    OBVIOUS
  <2>3. QED
    BY <2>1, <2>2 DEF KeysOf
<1>4. QED
  BY <1>1, <1>2, <1>3

LEMMA ScreenTidy ==
  ASSUME NEW d, NEW service, NEW pages, NEW route,
         \A key \in service \cup route : \E p \in pages : key = p.key \/ \E s : p.from = <<Source(d, s)>> /\ key = s
  PROVE  Tidy(Screen(d, service, pages, route))
<1> DEFINE f == Screen(d, service, pages, route)
<1>1. f.pages = pages /\ f.deletes = [x \in {d} |-> <<service, route>>]
  BY DEF Screen, Family
<1> HIDE DEF f
<1>2. DOMAIN f.deletes = {d} /\ f.deletes[d] = <<service, route>> /\ DOMAIN f.deletes[d] = {1, 2}
  BY <1>1, TwoIs
<1>3. ASSUME NEW key \in service \cup route PROVE Shown(f, key)
  <2>1. PICK p \in pages : key = p.key \/ \E s : p.from = <<Source(d, s)>> /\ key = s
    OBVIOUS
  <2>2. CASE key = p.key
    BY <1>1, <2>2 DEF Shown
  <2>3. CASE \E s : p.from = <<Source(d, s)>> /\ key = s
    <3>1. p.from = <<Source(d, key)>>
      BY <2>3
    <3>2. DOMAIN p.from = {1} /\ p.from[1] = Source(d, key) /\ Source(d, key).key = key
      BY <3>1, OneIs DEF Source
    <3>3. QED
      BY <1>1, <3>2 DEF Shown
  <2>4. QED
    BY <2>1, <2>2, <2>3
<1>4. QED
  BY <1>2, <1>3 DEF Tidy, f

LEMMA SettingsTidy ==
  ASSUME NEW key, NEW s
  PROVE  Tidy(SettingsScreen(SettingsPage(key, Source("settings", s))))
<1> DEFINE p == SettingsPage(key, Source("settings", s))
<1>1. p.key = key /\ p.from = <<Source("settings", s)>>
  BY DEF SettingsPage, PageOf
<1>2. p.from[1].key = s
  BY <1>1 DEF Source
<1> HIDE DEF p
<1>3. Tidy(Screen("settings", {p.from[1].key}, {p}, {p.key}))
  BY <1>1, <1>2, ScreenTidy
<1>4. QED
  BY <1>3 DEF SettingsScreen, p

LEMMA ProductsTidy == Tidy(ProductScreen)
<1> DEFINE f == ProductScreen
<1>1. /\ f.pages = ProductPages \cup {OgPage} /\ DOMAIN f.deletes = {"product"}
      /\ f.deletes["product"] = <<{"products"}, {"product"}>>
  BY DEF ProductScreen, Family
<1> HIDE DEF f
<1>2. DOMAIN f.deletes["product"] = {1, 2} /\ f.deletes["product"][1] = {"products"} /\ f.deletes["product"][2] = {"product"}
  BY <1>1, TwoIs
<1>3. (\E p \in f.pages : p.key = "products") /\ \E p \in f.pages : p.key = "product"
  BY <1>1 DEF ProductPages, PageOf
<1>4. QED
  BY <1>1, <1>2, <1>3 DEF Tidy, Shown, f

LEMMA CategoriesTidy == Tidy(CategoryScreen)
<1> DEFINE f == CategoryScreen
<1>1. /\ f.pages = CategoryPages /\ DOMAIN f.deletes = {"category"}
      /\ f.deletes["category"] = <<{"categories"}, {"category"}>>
  BY DEF CategoryScreen, Family
<1> HIDE DEF f
<1>2. /\ DOMAIN f.deletes["category"] = {1, 2}
      /\ f.deletes["category"][1] = {"categories"} /\ f.deletes["category"][2] = {"category"}
  BY <1>1, TwoIs
<1>3. (\E p \in f.pages : p.key = "categories") /\ \E p \in f.pages : p.key = "category"
  BY <1>1 DEF CategoryPages, PageOf
<1>4. QED
  BY <1>1, <1>2, <1>3 DEF Tidy, Shown, f

LEMMA JournalTidy == Tidy(JournalScreen)
<1> DEFINE f == JournalScreen
           js == f.deletes["journal"]
           ps == f.deletes["post"]
<1>1. /\ f.pages = {JournalPage} /\ DOMAIN f.deletes = {"journal", "post"}
      /\ js = <<{"journal_page"}, {"blog_posts"}, {"journal"}>>
      /\ ps = <<{"blog_posts"}, {"journal"}>>
  BY DEF JournalScreen, Family
<1> HIDE DEF f
<1>2. /\ DOMAIN js = {1, 2, 3} /\ js[1] = {"journal_page"} /\ js[2] = {"blog_posts"} /\ js[3] = {"journal"}
      /\ DOMAIN ps = {1, 2} /\ ps[1] = {"blog_posts"} /\ ps[2] = {"journal"}
  BY <1>1, ThreeIs, TwoIs
<1>3. JournalPage.key = "journal" /\ JournalPage.from = <<JournalMeta, BlogPosts>>
  BY DEF JournalPage, PageOf
<1>4. DOMAIN JournalPage.from = {1, 2} /\ JournalPage.from[1].key = "journal_page" /\ JournalPage.from[2].key = "blog_posts"
  BY <1>3, TwoIs DEF JournalMeta, BlogPosts, Source
<1>5. \A key \in {"journal", "journal_page", "blog_posts"} : Shown(f, key)
  BY <1>1, <1>3, <1>4 DEF Shown
<1>6. QED
  BY <1>1, <1>2, <1>5 DEF Tidy, f

LEMMA FamiliesTidy ==
  ASSUME NEW name \in Screens
  PROVE  Tidy(FamilyOf(name))
<1>1. CASE name \in {"products", "categories", "journal"}
  <2>1. CASE name = "products"
    BY <2>1, ProductsTidy, NamesOfScreens DEF FamilyOf
  <2>2. CASE name = "categories"
    BY <2>2, CategoriesTidy, NamesOfScreens DEF FamilyOf
  <2>3. CASE name = "journal"
    BY <2>3, JournalTidy, NamesOfScreens DEF FamilyOf
  <2>4. QED
    BY <1>1, <2>1, <2>2, <2>3
<1>2. CASE name \in {"testimonials", "hero", "slides", "policies"}
  <2>1. /\ TestimonialPage.key = "testimonials" /\ TestimonialPage.from = <<Source("testimonial", "testimonials:list")>>
        /\ HeroPage.key = "hero" /\ HeroPage.from = <<Source("hero", "hero_config:active")>>
        /\ SlidesPage.key = "collection-slides" /\ SlidesPage.from = <<Source("slide", "collection_slides:True")>>
        /\ PoliciesPage.key = "policies" /\ PoliciesPage.from = <<Source("policies", "policies")>>
    BY DEF TestimonialPage, Testimonials, HeroPage, HeroConfig, SlidesPage, CollectionSlides, PoliciesPage, PolicyContent,
           PageOf
  <2>2. Tidy(TestimonialScreen)
    BY <2>1, ScreenTidy DEF TestimonialScreen
  <2>3. Tidy(HeroScreen)
    BY <2>1, ScreenTidy DEF HeroScreen
  <2>4. Tidy(SlidesScreen)
    BY <2>1, ScreenTidy DEF SlidesScreen
  <2>5. Tidy(PolicyScreen)
    BY <2>1, ScreenTidy DEF PolicyScreen
  <2>6. QED
    BY <1>2, <2>2, <2>3, <2>4, <2>5, NamesOfScreens DEF FamilyOf
<1>3. CASE name \in {"assets", "faq"}
  <2>1. FaqPage.key = "faq:all" /\ FaqPage.from = <<Source("faq", "faq:all:True")>>
    BY DEF FaqPage, FaqItems, PageOf
  <2>2. /\ \E p \in AssetPages : p.key = "site-assets" /\ p.from = <<Source("asset", "site_assets:list")>>
        /\ \E p \in AssetPages : p.key = "site-asset" /\ p.from = <<Source("asset", "site_assets:key")>>
    BY DEF AssetPages, SiteAssets, SiteAssetByKey, PageOf
  <2>3. Tidy(FaqScreen)
    BY <2>1, ScreenTidy DEF FaqScreen
  <2>4. Tidy(AssetScreen)
    BY <2>2, ScreenTidy DEF AssetScreen
  <2>5. QED
    BY <1>3, <2>3, <2>4, NamesOfScreens DEF FamilyOf
<1>4. CASE name \in {"studio", "shop", "home", "story", "navigation", "contact"}
  <2>1. FamilyOf(name) = SettingsScreen(SettingsPages[name])
    BY <1>4, NamesOfScreens DEF FamilyOf, SettingsScreens
  <2>2. \E key, s : SettingsPages[name] = SettingsPage(key, Source("settings", s))
    BY <1>4 DEF SettingsPages, StudioSettings, ShopPageSettings, HomePageSettings, StoryPageSettings, NavigationSettings,
                ContactPageSettings
  <2>3. QED
    BY <2>1, <2>2, SettingsTidy
<1>5. CASE name \in {"account", "history", "product_page"}
  <2>1. FamilyOf(name) = SettingsScreen(MorePages[name])
    BY <1>5, NamesOfScreens DEF FamilyOf, MoreScreens
  <2>2. \E key, s : MorePages[name] = SettingsPage(key, Source("settings", s))
    BY <1>5 DEF MorePages, AccountPageSettings, HistoryPageSettings, ProductPageSettings
  <2>3. QED
    BY <2>1, <2>2, SettingsTidy
<1>6. QED
  BY <1>1, <1>2, <1>3, <1>4, <1>5, CacheAssumption DEF CacheAssumption

(* Types: the versions a cached answer or a reader holds.                  *)
Versions(of) == of \in [DOMAIN of -> Version]

CacheTyped ==
  /\ Tidy(family) /\ content \in [Docs -> Version] /\ writes \in 0 .. MaxWrites
  /\ late \subseteq KeysOf(family)
  /\ \A key \in DOMAIN kept : Versions(kept[key].of)
  /\ \A r \in Reader : reader[r].at \in {"idle", "asking", "reading", "keeping"} /\ Versions(reader[r].has)
  /\ \A e \in Editor : \A i \in DOMAIN editor[e].todo : editor[e].todo[i] \subseteq KeysOf(family)

LEMMA CacheTypes == CacheInv /\ CacheTyped => CacheTypeOK
BY DEF CacheInv, CacheTyped, CacheTypeOK, PagesFit, KeptFit, Versions, EditorsFit, Left

LEMMA NoVersions == Versions(<<>>)
BY DEF Versions

LEMMA VersionsOne == ASSUME NEW d, NEW v \in Version PROVE Versions([x \in {d} |-> v])
BY DEF Versions

LEMMA VersionsWith == ASSUME NEW of, NEW has, Versions(of), Versions(has) PROVE Versions(With(of, has))
BY DEF Versions, With

LEMMA CacheTypedInitially == CacheInit => CacheTyped
<1> SUFFICES ASSUME CacheInit PROVE CacheTyped
  OBVIOUS
<1>1. Tidy(family)
  BY FamiliesTidy DEF CacheInit
<1>2. MaxWrites \in Nat \ {0}
  BY CacheAssumption DEF CacheAssumption
<1>3. content \in [Docs -> Version] /\ writes \in 0 .. MaxWrites
  <2>1. 0 .. 1 \subseteq Version
    BY <1>2 DEF Version
  <2>2. content \in [Docs -> 0 .. 1]
    BY DEF CacheInit
  <2>3. \A d \in Docs : content[d] \in Version
    BY <2>1, <2>2
  <2>4. QED
    BY <1>2, <2>2, <2>3 DEF CacheInit
<1>4. \A r \in Reader : reader[r].at = "idle" /\ reader[r].has = <<>>
  BY DEF CacheInit, AtRest
<1>5. \A e \in Editor : editor[e].todo = <<>>
  BY DEF CacheInit, NotEditing
<1>6. DOMAIN kept = {} /\ late = {}
  BY DEF CacheInit
<1>7. QED
  BY <1>1, <1>3, <1>4, <1>5, <1>6, NoVersions DEF CacheTyped

(* A step of a reader.                                                     *)
ReaderTyped(me) == me.at \in {"idle", "asking", "reading", "keeping"} /\ Versions(me.has)

LEMMA ReaderGoes ==
  ASSUME CacheInv, CacheTyped, NEW r \in Reader, NEW me, reader' = [reader EXCEPT ![r] = me], ReaderTyped(me)
  PROVE  \A s \in Reader : ReaderTyped(reader'[s])
BY DEF CacheInv, CacheTyped, ReadersFit, ReaderTyped

LEMMA ReaderGets ==
  ASSUME CacheInv, CacheTyped, NEW r \in Reader, NEW of, Versions(of), NEW wraps, NEW passed, Gets(r, of, wraps, passed)
  PROVE  \A s \in Reader : ReaderTyped(reader'[s])
<1> DEFINE old == reader[r]
           has == With(of, old.has)
           me == [old EXCEPT !.at = "asking", !.todo = Tail(old.todo), !.has = has, !.wraps = wraps, !.overtaken = passed]
<1>1. DOMAIN old = {"at", "page", "todo", "has", "wraps", "overtaken"}
  BY DEF CacheInv, ReadersFit, Asked
<1>2. reader' = [reader EXCEPT ![r] = me]
  BY DEF Gets, CacheInv, ReadersFit
<1>3. Versions(has)
  BY VersionsWith DEF CacheTyped
<1> HIDE DEF has
<1>4. me.at = "asking" /\ me.has = has
  BY <1>1
<1> HIDE DEF me
<1>5. QED
  BY <1>2, <1>3, <1>4, ReaderGoes DEF ReaderTyped

LEMMA ReaderTypes ==
  ASSUME CacheInv, CacheTyped, NEW r \in Reader, ReaderSteps(r) \/ \E p \in family.pages : MissPage(r, p)
  PROVE  \A s \in Reader : ReaderTyped(reader'[s])
<1> DEFINE old == reader[r]
           source == Head(old.todo)
           one(v) == [d \in {source.doc} |-> v]
<1>1. /\ DOMAIN old = {"at", "page", "todo", "has", "wraps", "overtaken"} /\ ReaderTyped(old) /\ Asked(old) /\ FamilyKept
      /\ \A d \in DOMAIN old.has : old.has[d] \in Version
  BY DEF CacheInv, ReadersFit, Asked, CacheTyped, ReaderTyped, Versions
<1>2. old.at \in {"reading", "keeping"} => source.doc \in Docs /\ content[source.doc] \in Version
  <2> SUFFICES ASSUME old.at \in {"reading", "keeping"} PROVE source.doc \in Docs
    BY DEF CacheTyped
  <2>1. old.todo # <<>> /\ old.at # "idle"
    BY <1>1 DEF Asked
  <2>2. QED
    BY <1>1, <2>1, HeadAsked DEF SourceFits, Docs
<1>3. CASE FindSource(r)
  <2> DEFINE key == source.key
  <2>1. key \in DOMAIN kept /\ Gets(r, kept[key].of, kept[key].wraps, old.overtaken \/ key \in late)
    BY <1>3 DEF FindSource
  <2>2. Versions(kept[key].of)
    BY <2>1 DEF CacheTyped
  <2> HIDE DEF key
  <2>3. QED
    BY <2>1, <2>2, ReaderGets
<1>4. CASE MissSource(r)
  <2> DEFINE me == [old EXCEPT !.at = "reading"]
  <2>1. reader' = [reader EXCEPT ![r] = me]
    BY <1>4 DEF MissSource
  <2>2. me.at = "reading" /\ me.has = old.has
    BY <1>1
  <2> HIDE DEF me
  <2>3. ReaderTyped(me)
    BY <1>1, <2>2 DEF ReaderTyped
  <2>4. QED
    BY <2>1, <2>3, ReaderGoes
<1>5. CASE ReadSource(r)
  <2> DEFINE of == one(content[source.doc])
             has == With(of, old.has)
             me == [old EXCEPT !.at = "keeping", !.has = has]
  <2>1. /\ old.at = "reading"
        /\ Gets(r, of, 0, old.overtaken) \/ reader' = [reader EXCEPT ![r].at = "keeping", ![r].has = has]
    BY <1>5 DEF ReadSource
  <2>2. Versions(of)
    BY <1>2, <2>1, VersionsOne
  <2> HIDE DEF of
  <2>3. Versions(has)
    BY <1>1, <2>2, VersionsWith DEF ReaderTyped
  <2> HIDE DEF has
  <2>4. me.at = "keeping" /\ me.has = has
    BY <1>1
  <2>5. reader' = [reader EXCEPT ![r].at = "keeping", ![r].has = has] => reader' = [reader EXCEPT ![r] = me]
    BY DEF CacheInv, ReadersFit
  <2> HIDE DEF me
  <2>6. ReaderTyped(me)
    BY <2>3, <2>4 DEF ReaderTyped
  <2>7. QED
    BY <2>1, <2>2, <2>5, <2>6, ReaderGets, ReaderGoes
<1>6. CASE KeepSource(r)
  <2> DEFINE of == one(old.has[source.doc])
  <2>1. old.at = "keeping" /\ Gets(r, of, 0, old.overtaken)
    BY <1>6 DEF KeepSource
  <2>2. Versions(of)
    BY <1>1, <2>1, VersionsOne DEF Asked
  <2> HIDE DEF of
  <2>3. QED
    BY <2>1, <2>2, ReaderGets
<1>7. CASE KeepPage(r)
  <2>1. reader' = [reader EXCEPT ![r] = AtRest]
    BY <1>7 DEF KeepPage
  <2>2. ReaderTyped(AtRest)
    BY NoVersions DEF ReaderTyped, AtRest
  <2>3. QED
    BY <2>1, <2>2, ReaderGoes
<1>8. ASSUME NEW p \in family.pages, MissPage(r, p) PROVE \A s \in Reader : ReaderTyped(reader'[s])
  <2> DEFINE me == [AtRest EXCEPT !.at = "asking", !.page = p, !.todo = p.from]
  <2>1. reader' = [reader EXCEPT ![r] = me]
    BY <1>8 DEF MissPage
  <2>2. me.at = "asking" /\ me.has = <<>>
    BY DEF AtRest
  <2> HIDE DEF me
  <2>3. QED
    BY <2>1, <2>2, NoVersions, ReaderGoes DEF ReaderTyped
<1>9. QED
  BY <1>3, <1>4, <1>5, <1>6, <1>7, <1>8 DEF ReaderSteps

(* A key is filled, and keys are dropped.                                  *)
LEMMA KeepTypes ==
  ASSUME CacheTyped, NEW key \in KeysOf(family), NEW of, Versions(of), NEW wraps, NEW isLate,
         Keep(key, of, wraps), Marked(key, isLate), UNCHANGED family
  PROVE  (\A k \in DOMAIN kept' : Versions(kept'[k].of)) /\ late' \subseteq KeysOf(family)
<1>1. /\ DOMAIN kept' = DOMAIN kept \cup {key} /\ kept'[key].of = of
      /\ \A k \in DOMAIN kept' : k # key => kept'[k] = kept[k]
  BY DEF Keep
<1>2. late' \subseteq late \cup {key}
  BY DEF Marked
<1>3. QED
  BY <1>1, <1>2 DEF CacheTyped

LEMMA DropTypes ==
  ASSUME CacheTyped, NEW keys, Drop(keys)
  PROVE  \A k \in DOMAIN kept' : Versions(kept'[k].of)
<1>1. DOMAIN kept' = DOMAIN kept \ keys /\ \A k \in DOMAIN kept' : kept'[k] = kept[k]
  BY DEF Drop
<1>2. QED
  BY <1>1 DEF CacheTyped

(* What a reader keeps.                                                    *)
LEMMA KeepsTypes ==
  ASSUME CacheInv, CacheTyped, NEW r \in Reader, ReaderSteps(r) \/ \E p \in family.pages : MissPage(r, p)
  PROVE  (\A k \in DOMAIN kept' : Versions(kept'[k].of)) /\ late' \subseteq KeysOf(family)
<1> DEFINE old == reader[r]
           source == Head(old.todo)
           Kept == (\A k \in DOMAIN kept' : Versions(kept'[k].of)) /\ late' \subseteq KeysOf(family)
<1>1. Asked(old) /\ FamilyKept /\ Versions(old.has) /\ \A d \in DOMAIN old.has : old.has[d] \in Version
  BY DEF CacheInv, ReadersFit, CacheTyped, Versions
<1>2. CASE UNCHANGED <<kept, late>>
  BY <1>2 DEF CacheTyped
<1>3. CASE KeepSource(r)
  <2> DEFINE of == [d \in {source.doc} |-> old.has[source.doc]]
  <2>1. old.at = "keeping" /\ Keep(source.key, of, 0) /\ Marked(source.key, old.overtaken) /\ UNCHANGED family
    BY <1>3 DEF KeepSource
  <2>2. Versions(of)
    BY <1>1, <2>1, VersionsOne DEF Asked
  <2>3. source.key \in KeysOf(family)
    BY <1>1, <2>1, HeadAsked DEF Asked
  <2> HIDE DEF of
  <2>4. QED
    BY <2>1, <2>2, <2>3, KeepTypes
<1>4. CASE KeepPage(r)
  <2>1. /\ UNCHANGED <<kept, late>> \/ \E wraps : Keep(old.page.key, old.has, wraps) /\ Marked(old.page.key, old.overtaken)
        /\ UNCHANGED family /\ old.at = "asking"
    BY <1>4 DEF KeepPage
  <2>2. old.page.key \in KeysOf(family)
    BY <1>1, <2>1, KeysAre DEF Asked
  <2>3. QED
    BY <1>1, <1>2, <2>1, <2>2, KeepTypes
<1>5. CASE FindSource(r) \/ MissSource(r) \/ ReadSource(r) \/ \E p \in family.pages : MissPage(r, p)
  BY <1>2, <1>5 DEF FindSource, MissSource, ReadSource, MissPage
<1>6. QED
  BY <1>3, <1>4, <1>5 DEF ReaderSteps

(* What an editor has left to delete are keys.                             *)
Todos == \A e \in Editor : \A i \in DOMAIN editor[e].todo : editor[e].todo[i] \subseteq KeysOf(family)

LEMMA EditorGoes ==
  ASSUME CacheInv, CacheTyped, NEW e \in Editor, NEW me, editor' = [editor EXCEPT ![e] = me], UNCHANGED family,
         \A i \in DOMAIN me.todo : me.todo[i] \subseteq KeysOf(family)
  PROVE  Todos'
<1>1. DOMAIN editor = Editor
  BY DEF CacheInv, EditorsFit
<1>2. \A o \in Editor : \A i \in DOMAIN editor'[o].todo : editor'[o].todo[i] \subseteq KeysOf(family)
  BY <1>1 DEF CacheTyped
<1>3. QED
  BY <1>2 DEF Todos, KeysOf

LEMMA HeadsAreKeys ==
  ASSUME CacheInv, CacheTyped, NEW e \in Editor, editor[e].at \in {"deleting", "listed"}
  PROVE  Head(editor[e].todo) \subseteq KeysOf(family)
<1>1. IsSeq(editor[e].todo) /\ editor[e].todo # <<>>
  BY DEF CacheInv, EditorsFit, Left
<1>2. Head(editor[e].todo) = editor[e].todo[1] /\ 1 \in DOMAIN editor[e].todo
  BY <1>1, TailIs
<1>3. QED
  BY <1>2 DEF CacheTyped

LEMMA DeletesTypes ==
  ASSUME CacheInv, CacheTyped, NEW e \in Editor, editor[e].at \in {"deleting", "listed"}, Deletes(e), UNCHANGED family
  PROVE  Todos'
<1> DEFINE old == editor[e]
           me == IF Len(old.todo) = 1 THEN NotEditing
                 ELSE [NotEditing EXCEPT !.at = "deleting", !.todo = Tail(old.todo)]
<1>1. IsSeq(old.todo) /\ old.todo # <<>>
  BY DEF CacheInv, EditorsFit, Left
<1>2. \A i \in DOMAIN Tail(old.todo) : i + 1 \in DOMAIN old.todo /\ Tail(old.todo)[i] = old.todo[i + 1]
  BY <1>1, TailIs
<1>3. me.todo = <<>> \/ me.todo = Tail(old.todo)
  BY DEF NotEditing
<1>4. editor' = [editor EXCEPT ![e] = me]
  BY DEF Deletes
<1> HIDE DEF me
<1>5. \A i \in DOMAIN me.todo : me.todo[i] \subseteq KeysOf(family)
  <2>1. CASE me.todo = <<>>
    BY <2>1
  <2>2. CASE me.todo = Tail(old.todo)
    BY <1>2, <2>2 DEF CacheTyped
  <2>3. QED
    BY <1>3, <2>1, <2>2
<1>6. QED
  BY <1>4, <1>5, EditorGoes

LEMMA CacheTypedInductive == CacheInv /\ CacheTyped /\ [CacheNext]_cacheVars => CacheTyped'
<1> SUFFICES ASSUME CacheInv, CacheTyped, [CacheNext]_cacheVars PROVE CacheTyped'
  OBVIOUS
<1> DEFINE Edits == Tidy(family)' /\ (content \in [Docs -> Version])' /\ (writes \in 0 .. MaxWrites)'
           Late == late' \subseteq KeysOf(family)
           Kept == \A k \in DOMAIN kept' : Versions(kept'[k].of)
           Readers == \A r \in Reader : ReaderTyped(reader'[r])
<1>1. UNCHANGED family
  BY DEF CacheNext, CacheLapses, ReaderSteps, FindSource, MissSource, ReadSource, KeepSource, KeepPage, MissPage, EditorSteps,
         ListKeys, DeleteKeys, RestoreEnds, DeleteFails, RestoreFails, Write, Restore, cacheVars
<1>2. UNCHANGED <<content, writes>> => Edits
  BY <1>1 DEF CacheTyped, Tidy, Shown, Docs
<1>3. UNCHANGED late => Late
  BY DEF CacheTyped
<1>4. UNCHANGED kept => Kept
  BY DEF CacheTyped
<1>5. UNCHANGED reader => Readers
  BY DEF CacheTyped, ReaderTyped
<1>6. UNCHANGED editor => Todos'
  BY <1>1 DEF CacheTyped, Todos, KeysOf
<1>7. Edits /\ Late /\ Kept /\ Readers /\ Todos' => CacheTyped'
  <2> SUFFICES ASSUME Edits, Late, Kept, Readers, Todos' PROVE CacheTyped'
    OBVIOUS
  <2>1. KeysOf(family') = KeysOf(family)
    BY <1>1
  <2>2. (late \subseteq KeysOf(family))'
    BY <2>1
  <2>3. (\A key \in DOMAIN kept : Versions(kept[key].of))'
    BY DEF Versions
  <2>4. (\A r \in Reader : reader[r].at \in {"idle", "asking", "reading", "keeping"} /\ Versions(reader[r].has))'
    BY DEF Versions, ReaderTyped
  <2>5. QED
    BY <2>2, <2>3, <2>4 DEF CacheTyped, Todos
<1>8. Overtakes => Readers
  <2> SUFFICES ASSUME Overtakes, NEW r \in Reader PROVE ReaderTyped(reader'[r])
    OBVIOUS
  <2>1. DOMAIN reader[r] = {"at", "page", "todo", "has", "wraps", "overtaken"}
    BY DEF CacheInv, ReadersFit, Asked
  <2>2. reader'[r].at = reader[r].at /\ reader'[r].has = reader[r].has
    BY <2>1 DEF Overtakes
  <2>3. QED
    BY <2>2 DEF CacheTyped, ReaderTyped
<1>9. ASSUME NEW key \in DOMAIN kept, CacheLapses(key) PROVE CacheTyped'
  <2>1. Drop({key}) /\ late' \subseteq late /\ UNCHANGED <<content, reader, editor, writes>>
    BY <1>9 DEF CacheLapses
  <2>2. Kept /\ Late
    BY <2>1, DropTypes DEF CacheTyped
  <2>3. QED
    BY <1>2, <1>5, <1>6, <1>7, <2>1, <2>2
<1>10. ASSUME NEW r \in Reader, ReaderSteps(r) \/ \E p \in family.pages : MissPage(r, p) PROVE CacheTyped'
  <2>1. UNCHANGED <<content, editor, writes>>
    BY <1>10 DEF ReaderSteps, FindSource, MissSource, ReadSource, KeepSource, KeepPage, MissPage
  <2>2. Kept /\ Late /\ Readers
    BY <1>10, KeepsTypes, ReaderTypes
  <2>3. QED
    BY <1>2, <1>6, <1>7, <2>1, <2>2
<1>11. ASSUME NEW e \in Editor, ListKeys(e) \/ RestoreEnds(e) PROVE CacheTyped'
  <2> DEFINE old == editor[e]
  <2>1. DOMAIN old = {"at", "todo", "found"} /\ \A i \in DOMAIN old.todo : old.todo[i] \subseteq KeysOf(family)
    BY DEF CacheInv, EditorsFit, Left, CacheTyped
  <2>2. UNCHANGED <<content, writes, kept, late>> /\ (Overtakes \/ UNCHANGED reader)
    BY <1>11 DEF ListKeys, RestoreEnds
  <2>3. Todos'
    <3>1. CASE ListKeys(e)
      <4> DEFINE found == Head(old.todo) \cap (DOMAIN kept \cup NamedInFull)
                 me == [old EXCEPT !.at = "listed", !.found = found]
      <4>1. editor' = [editor EXCEPT ![e] = me]
        BY <3>1 DEF ListKeys, CacheInv, EditorsFit
      <4> HIDE DEF found
      <4>2. me.todo = old.todo
        BY <2>1
      <4> HIDE DEF me
      <4>3. QED
        BY <1>1, <2>1, <4>1, <4>2, EditorGoes
    <3>2. CASE RestoreEnds(e)
      <4> DEFINE me == [old EXCEPT !.at = "deleting"]
      <4>1. editor' = [editor EXCEPT ![e] = me]
        BY <3>2 DEF RestoreEnds
      <4>2. me.todo = old.todo
        BY <2>1
      <4> HIDE DEF me
      <4>3. QED
        BY <1>1, <2>1, <4>1, <4>2, EditorGoes
    <3>3. QED
      BY <1>11, <3>1, <3>2
  <2>4. QED
    BY <1>2, <1>3, <1>4, <1>5, <1>7, <1>8, <2>2, <2>3
<1>12. ASSUME NEW e \in Editor, DeleteKeys(e) PROVE CacheTyped'
  <2>1. /\ editor[e].at = "listed" /\ Drop(editor[e].found) /\ late' \subseteq late /\ Deletes(e) /\ Overtakes
        /\ UNCHANGED <<content, writes>>
    BY <1>12 DEF DeleteKeys
  <2>2. Kept /\ Late /\ Todos'
    BY <1>1, <2>1, DropTypes, DeletesTypes DEF CacheTyped
  <2>3. QED
    BY <1>2, <1>7, <1>8, <2>1, <2>2
<1>13. ASSUME NEW e \in Editor, DeleteFails(e) PROVE CacheTyped'
  <2>1. /\ editor[e].at \in {"deleting", "listed"} /\ late' = late \cup Head(editor[e].todo) /\ Deletes(e) /\ Overtakes
        /\ UNCHANGED <<content, writes, kept>>
    BY <1>13 DEF DeleteFails
  <2>2. Late /\ Todos'
    BY <1>1, <2>1, HeadsAreKeys, DeletesTypes DEF CacheTyped
  <2>3. QED
    BY <1>2, <1>4, <1>7, <1>8, <2>1, <2>2
<1>14. ASSUME NEW e \in Editor, RestoreFails(e) PROVE CacheTyped'
  <2>1. /\ late' = late \cup KeysOf(family) /\ editor' = [editor EXCEPT ![e] = NotEditing] /\ Overtakes
        /\ UNCHANGED <<content, writes, kept>>
    BY <1>14 DEF RestoreFails
  <2>2. Late
    BY <2>1 DEF CacheTyped
  <2>3. DOMAIN NotEditing.todo = {}
    BY DEF NotEditing
  <2>4. Todos'
    BY <1>1, <2>1, <2>3, EditorGoes
  <2>5. QED
    BY <1>2, <1>4, <1>7, <1>8, <2>1, <2>2, <2>4
<1>15. ASSUME NEW e \in Editor, NEW d \in Docs, NEW v \in Version, Write(e, d, v) \/ Restore(e, d, v) PROVE CacheTyped'
  <2>1. /\ content' = [content EXCEPT ![d] = v] /\ writes < MaxWrites /\ writes' = writes + 1 /\ Overtakes
        /\ UNCHANGED <<kept, late>>
    BY <1>15 DEF Write, Restore
  <2>2. Edits
    <3>1. MaxWrites \in Nat /\ writes \in 0 .. MaxWrites /\ content \in [Docs -> Version] /\ Tidy(family)
      BY CacheAssumption DEF CacheAssumption, CacheTyped
    <3>2. writes' \in 0 .. MaxWrites
      BY <2>1, <3>1
    <3>3. content' \in [Docs -> Version]
      BY <2>1, <3>1
    <3>4. QED
      BY <1>1, <3>1, <3>2, <3>3 DEF Docs, Tidy, Shown
  <2>3. Todos'
    <3>1. CASE Write(e, d, v)
      <4> DEFINE me == [NotEditing EXCEPT !.at = "deleting", !.todo = family.deletes[d]]
      <4>1. editor' = [editor EXCEPT ![e] = me]
        BY <3>1 DEF Write
      <4>2. me.todo = family.deletes[d]
        BY DEF NotEditing
      <4> HIDE DEF me
      <4>3. \A i \in DOMAIN me.todo : me.todo[i] \subseteq KeysOf(family)
        BY <4>2, ShownIs DEF CacheTyped, Tidy, Docs
      <4>4. QED
        BY <1>1, <4>1, <4>3, EditorGoes
    <3>2. CASE Restore(e, d, v)
      <4> DEFINE me == [NotEditing EXCEPT !.at = "restoring", !.todo = <<KeysOf(family)>>]
      <4>1. editor' = [editor EXCEPT ![e] = me]
        BY <3>2 DEF Restore
      <4>2. me.todo = <<KeysOf(family)>>
        BY DEF NotEditing
      <4> HIDE DEF me
      <4>3. \A i \in DOMAIN me.todo : me.todo[i] \subseteq KeysOf(family)
        BY <4>2, OneIs
      <4>4. QED
        BY <1>1, <4>1, <4>3, EditorGoes
    <3>3. QED
      BY <1>15, <3>1, <3>2
  <2>4. QED
    BY <1>3, <1>4, <1>7, <1>8, <2>1, <2>2, <2>3
<1>16. CASE UNCHANGED cacheVars
  BY <1>2, <1>3, <1>4, <1>5, <1>6, <1>7, <1>16 DEF cacheVars
<1>17. QED
  BY <1>9, <1>10, <1>11, <1>12, <1>13, <1>14, <1>15, <1>16 DEF CacheNext, EditorSteps

-----------------------------------------------------------------------------
(* Pricing: a request's lines carry on from the preview's, at its prices   *)
(* while nothing was edited in between                                     *)

(* What the market is now asked for a line, and the price of a preview of  *)
(* some goods: of the coupon and the prices there are.                     *)
GoodsOf(line) == [product |-> line.product, quantity |-> line.quantity]
PricedNow(good, country) ==
  [product |-> good.product, quantity |-> good.quantity,
   price |-> UnitPrice(prices[good.product], Assortment[good.product].legacy, country),
   currency |-> Currency(prices[good.product], country)]
TotalNow(goods, country) ==
  LET lines == [i \in DOMAIN goods |-> PricedNow(goods[i], country)]
  IN  Priced(lines, ComputeDiscount(coupon, lines), 0).total

(* A request's lines and the rest of its cart are the goods of a preview.  *)
Continues(me, goods) ==
  /\ DOMAIN goods = 1 .. (Len(me.lines) + Len(me.cart)) /\ goods = [i \in DOMAIN goods |-> goods[i]]
  /\ \A i \in DOMAIN me.lines : GoodsOf(me.lines[i]) = goods[i]
  /\ \A i \in DOMAIN me.cart : GoodsOf(me.cart[i]) = goods[Len(me.lines) + i]

(* A request while no edit came in between has the prices there are.       *)
Current(me) ==
  me.since = edits => \A i \in DOMAIN me.lines : me.lines[i] = PricedNow(GoodsOf(me.lines[i]), me.country)

(* A request at work: its lines are those of its market, if it began after *)
(* the last edit.                                                          *)
Shops(me) ==
  /\ DOMAIN me = {"at", "for", "cart", "country", "asked", "coded", "place", "shipping", "lines", "since"}
  /\ IsSeq(me.cart) /\ IsSeq(me.lines)
  /\ me.since \in Nat /\ me.since <= edits /\ Current(me)
  /\ me.for \in {"preview", "checkout"} => me.asked = me.country /\ me.shipping = 0
  /\ me.for = "preview" => me.coded = TRUE

ShoppersFit ==
  /\ DOMAIN shopping = Shopper /\ DOMAIN preview = Shopper /\ DOMAIN ordered = Shopper
  /\ \A s \in Shopper :
       /\ shopping[s].at \in {"idle", "lines"}
       /\ shopping[s].at = "lines" =>
            /\ Shops(shopping[s])
            /\ shopping[s].for = "preview" => ordered[s] = Nothing
            /\ shopping[s].for = "checkout" /\ preview[s] # Nothing =>
                 preview[s].since <= shopping[s].since /\ Continues(shopping[s], preview[s].cart)

(* A preview since which there was no edit says what is asked now.         *)
PreviewsFit ==
  \A s \in Shopper : preview[s] # Nothing =>
    /\ preview[s].since \in Nat /\ preview[s].since <= edits
    /\ DOMAIN preview[s].cart \subseteq Nat /\ preview[s].cart = [i \in DOMAIN preview[s].cart |-> preview[s].cart[i]]
    /\ preview[s].since = edits => preview[s].total = TotalNow(preview[s].cart, preview[s].country)

PricingTyped ==
  /\ DOMAIN prices = Product /\ onSale \subseteq Product
  /\ edits \in 0 .. MaxEdits
  /\ DOMAIN editing = CouponEditor
  /\ \A e \in CouponEditor : editing[e].at \in {"idle", "opened", "checked"} /\ (editing[e].at = "opened" => DOMAIN editing[e] = {"at", "patch"})

(* The invariant of the prices.                                            *)
PricingInv == PricingTyped /\ ShoppersFit /\ PreviewsFit /\ ChargedAsPreviewed

LEMMA SequenceIs ==
  ASSUME NEW s, IsSeq(s)
  PROVE  Len(s) \in Nat /\ DOMAIN s = 1 .. Len(s) /\ s = [i \in DOMAIN s |-> s[i]]
<1> DEFINE S == {s[i] : i \in DOMAIN s}
<1>1. s \in Seq(S)
  BY DEF IsSeq
<1> HIDE DEF S
<1>2. Len(s) \in Nat /\ DOMAIN s = 1 .. Len(s) /\ s \in [1 .. Len(s) -> S]
  BY <1>1
<1>3. QED
  BY <1>2

LEMMA AppendIs ==
  ASSUME NEW s, IsSeq(s), NEW x
  PROVE  /\ IsSeq(Append(s, x)) /\ Len(Append(s, x)) = Len(s) + 1 /\ DOMAIN Append(s, x) = 1 .. (Len(s) + 1)
         /\ Append(s, x)[Len(s) + 1] = x /\ \A i \in DOMAIN s : i \in DOMAIN Append(s, x) /\ Append(s, x)[i] = s[i]
<1> DEFINE S == {s[i] : i \in DOMAIN s} \cup {x}
           n == Len(s)
           t == Append(s, x)
           T == {t[i] : i \in DOMAIN t}
<1>1. s \in Seq({s[i] : i \in DOMAIN s}) /\ n \in Nat /\ DOMAIN s = 1 .. n
  BY SequenceIs DEF IsSeq
<1>2. s \in Seq(S) /\ x \in S
  BY <1>1
<1> HIDE DEF S
<1>3. /\ t \in Seq(S) /\ Len(t) = n + 1 /\ DOMAIN t = 1 .. (n + 1) /\ t[n + 1] = x
      /\ \A i \in 1 .. n : t[i] = s[i]
  BY <1>1, <1>2
<1> HIDE DEF t
<1>4. t = [i \in 1 .. (n + 1) |-> t[i]] /\ \A i \in 1 .. (n + 1) : t[i] \in T
  BY <1>3
<1> HIDE DEF T, n
<1>5. n + 1 \in Nat
  BY <1>1
<1>6. t \in Seq(T)
  BY <1>4, <1>5
<1>7. IsSeq(t)
  BY <1>6 DEF IsSeq, T
<1>8. QED
  BY <1>1, <1>3, <1>7 DEF t, n

LEMMA PricingInitially == PricingInit => PricingInv
<1> SUFFICES ASSUME PricingInit PROVE PricingInv
  OBVIOUS
<1>1. /\ shopping = [s \in Shopper |-> NotShopping] /\ preview = [s \in Shopper |-> Nothing]
      /\ ordered = [s \in Shopper |-> Nothing] /\ NotShopping.at = "idle"
  BY DEF PricingInit, NotShopping
<1>2. PricingTyped
  BY PricingAssumption DEF PricingTyped, PricingInit, Quiet
<1>3. ShoppersFit /\ PreviewsFit /\ ChargedAsPreviewed
  BY <1>1 DEF ShoppersFit, PreviewsFit, ChargedAsPreviewed
<1>4. QED
  BY <1>2, <1>3 DEF PricingInv

(* A shopper's request, preview and order, taken one by one.                *)
ShopperFits(s) ==
  /\ shopping[s].at \in {"idle", "lines"}
  /\ shopping[s].at = "lines" =>
       /\ Shops(shopping[s])
       /\ shopping[s].for = "preview" => ordered[s] = Nothing
       /\ shopping[s].for = "checkout" /\ preview[s] # Nothing =>
            preview[s].since <= shopping[s].since /\ Continues(shopping[s], preview[s].cart)
PreviewFits(s) ==
  preview[s] # Nothing =>
    /\ preview[s].since \in Nat /\ preview[s].since <= edits
    /\ DOMAIN preview[s].cart \subseteq Nat /\ preview[s].cart = [i \in DOMAIN preview[s].cart |-> preview[s].cart[i]]
    /\ preview[s].since = edits => preview[s].total = TotalNow(preview[s].cart, preview[s].country)
Charged(s) ==
  (/\ preview[s] # Nothing /\ ordered[s] # Nothing
   /\ ordered[s].for = "checkout" /\ ordered[s].coded
   /\ ordered[s].country = preview[s].country /\ ordered[s].at = preview[s].since)
  => ordered[s].total = preview[s].total

LEMMA ShopperHolds ==
  ASSUME PricingInv, NEW s \in Shopper
  PROVE  ShopperFits(s) /\ PreviewFits(s) /\ Charged(s)
BY DEF PricingInv, ShoppersFit, ShopperFits, PreviewsFit, PreviewFits, ChargedAsPreviewed, Charged

(* A step of another's, or an edit, after which a request at work and a     *)
(* preview are behind.                                                     *)
LEMMA ShopperStays ==
  ASSUME PricingInv, NEW s \in Shopper, shopping'[s] = shopping[s], preview'[s] = preview[s], ordered'[s] = ordered[s],
         UNCHANGED <<prices, coupon, edits>> \/ edits' = edits + 1
  PROVE  ShopperFits(s)' /\ PreviewFits(s)' /\ Charged(s)'
<1>1. ShopperFits(s) /\ PreviewFits(s) /\ Charged(s) /\ edits \in Nat
  BY ShopperHolds DEF PricingInv, PricingTyped
<1>2. ASSUME shopping[s].at = "lines" PROVE Shops(shopping[s])'
  <2>1. Shops(shopping[s])
    BY <1>1, <1>2 DEF ShopperFits
  <2>2. Current(shopping[s])'
    <3>1. shopping[s].since \in Nat /\ shopping[s].since <= edits /\ Current(shopping[s])
      BY <2>1 DEF Shops
    <3>2. CASE UNCHANGED <<prices, coupon, edits>>
      BY <3>1, <3>2 DEF Current, PricedNow, GoodsOf
    <3>3. CASE edits' = edits + 1
      <4>1. shopping[s].since # edits'
        BY <1>1, <3>1, <3>3
      <4>2. QED
        BY <4>1 DEF Current
    <3>4. QED
      BY <3>2, <3>3
  <2>3. shopping[s].since <= edits'
    BY <1>1, <2>1 DEF Shops
  <2>4. QED
    BY <2>1, <2>2, <2>3 DEF Shops
<1>3. ASSUME Continues(shopping[s], preview[s].cart) PROVE Continues(shopping[s], preview[s].cart)'
  BY <1>3 DEF Continues
<1>4. ShopperFits(s)'
  BY <1>1, <1>2, <1>3 DEF ShopperFits
<1>5. PreviewFits(s)'
  <2>1. CASE edits' = edits + 1
    BY <1>1, <2>1 DEF PreviewFits
  <2>2. CASE UNCHANGED <<prices, coupon, edits>>
    BY <1>1, <2>2 DEF PreviewFits, TotalNow, PricedNow
  <2>3. QED
    BY <2>1, <2>2
<1>6. Charged(s)'
  BY <1>1 DEF Charged
<1>7. QED
  BY <1>4, <1>5, <1>6

LEMMA EditFits ==
  ASSUME PricingInv, Edited, UNCHANGED <<shopping, preview, ordered>>
  PROVE  ShoppersFit' /\ PreviewsFit' /\ ChargedAsPreviewed'
<1>1. /\ DOMAIN shopping' = Shopper /\ DOMAIN preview' = Shopper /\ DOMAIN ordered' = Shopper
      /\ \A s \in Shopper : ShopperFits(s)' /\ PreviewFits(s)' /\ Charged(s)'
  BY ShopperStays DEF PricingInv, ShoppersFit, Edited
<1>2. QED
  BY <1>1 DEF ShoppersFit, ShopperFits, PreviewsFit, PreviewFits, ChargedAsPreviewed, Charged

LEMMA AsideFits ==
  ASSUME PricingInv, UNCHANGED <<prices, coupon, edits, shopping, preview, ordered>>
  PROVE  ShoppersFit' /\ PreviewsFit' /\ ChargedAsPreviewed'
<1>1. /\ DOMAIN shopping' = Shopper /\ DOMAIN preview' = Shopper /\ DOMAIN ordered' = Shopper
      /\ \A s \in Shopper : ShopperFits(s)' /\ PreviewFits(s)' /\ Charged(s)'
  BY ShopperStays DEF PricingInv, ShoppersFit
<1>2. QED
  BY <1>1 DEF ShoppersFit, ShopperFits, PreviewsFit, PreviewFits, ChargedAsPreviewed, Charged

(* What a shopper's own step must keep: the others are as they were.       *)
Only(s) ==
  /\ DOMAIN shopping' = Shopper /\ DOMAIN preview' = Shopper /\ DOMAIN ordered' = Shopper
  /\ \A o \in Shopper : o # s => shopping'[o] = shopping[o] /\ preview'[o] = preview[o] /\ ordered'[o] = ordered[o]
  /\ UNCHANGED <<prices, onSale, coupon, editing, edits>>

LEMMA ShopperStep ==
  ASSUME PricingInv, NEW s \in Shopper, Only(s), ShopperFits(s)', PreviewFits(s)', Charged(s)'
  PROVE  PricingInv'
<1>1. PricingTyped'
  BY DEF PricingInv, PricingTyped, Only
<1>2. \A o \in Shopper : ShopperFits(o)' /\ PreviewFits(o)' /\ Charged(o)'
  BY ShopperStays DEF Only
<1>3. ShoppersFit'
  BY <1>2 DEF ShoppersFit, ShopperFits, Only
<1>4. PreviewsFit' /\ ChargedAsPreviewed'
  BY <1>2 DEF PreviewsFit, PreviewFits, ChargedAsPreviewed, Charged
<1>5. QED
  BY <1>1, <1>3, <1>4 DEF PricingInv

(* The goods of a cart, as a sequence.                                     *)
GoodsFits(cart) ==
  /\ DOMAIN Goods(cart) = DOMAIN cart /\ Goods(cart) = [i \in DOMAIN Goods(cart) |-> Goods(cart)[i]]
  /\ \A i \in DOMAIN cart : Goods(cart)[i] = GoodsOf(cart[i])

LEMMA GoodsAre == ASSUME NEW cart PROVE GoodsFits(cart)
BY DEF GoodsFits, Goods, GoodsOf

(* A request begins.                                                       *)
LEMMA BeginFits ==
  ASSUME PricingInv, NEW s \in Shopper, NEW cart \in Carts, NEW for, NEW country, NEW asked, NEW coded, NEW place, NEW shipping,
         BeginShopping(s, for, cart, country, asked, coded, place, shipping),
         UNCHANGED <<prices, onSale, coupon, editing, edits, preview, ordered>>,
         for \in {"preview", "checkout"} => asked = country /\ shipping = 0,
         for = "preview" => coded = TRUE /\ ordered[s] = Nothing,
         for = "checkout" /\ preview[s] # Nothing => preview[s].cart = Goods(cart)
  PROVE  PricingInv'
<1> DEFINE me == [at |-> "lines", for |-> for, cart |-> cart, country |-> country, asked |-> asked, coded |-> coded,
                  place |-> place, shipping |-> shipping, lines |-> <<>>, since |-> edits]
<1>1. shopping' = [shopping EXCEPT ![s] = me]
  BY DEF BeginShopping
<1>2. Only(s) /\ shopping'[s] = me /\ preview'[s] = preview[s] /\ ordered'[s] = ordered[s]
  BY <1>1 DEF Only, PricingInv, ShoppersFit
<1>3. /\ DOMAIN me = {"at", "for", "cart", "country", "asked", "coded", "place", "shipping", "lines", "since"}
      /\ me.at = "lines" /\ me.for = for /\ me.cart = cart /\ me.country = country /\ me.asked = asked /\ me.coded = coded
      /\ me.shipping = shipping /\ me.lines = <<>> /\ me.since = edits
  OBVIOUS
<1> HIDE DEF me
<1>4. IsSeq(cart) /\ IsSeq(me.lines) /\ Len(me.lines) = 0 /\ DOMAIN me.lines = {}
  BY <1>3, EmptyIs, PricingAssumption DEF IsSeq
<1>5. edits \in Nat
  BY DEF PricingInv, PricingTyped
<1>6. Shops(me)
  BY <1>3, <1>4, <1>5 DEF Shops, Current
<1>7. ShopperFits(s) /\ PreviewFits(s) /\ Charged(s)
  BY ShopperHolds
<1>8. ASSUME for = "checkout", preview[s] # Nothing
      PROVE  preview[s].since <= me.since /\ Continues(me, preview[s].cart)
  <2>1. preview[s].since <= me.since
    BY <1>3, <1>7, <1>8 DEF PreviewFits
  <2>2. Len(cart) \in Nat /\ DOMAIN cart = 1 .. Len(cart)
    BY <1>4, SequenceIs
  <2>3. preview[s].cart = Goods(cart) /\ GoodsFits(cart)
    BY <1>8, GoodsAre
  <2>4. Continues(me, Goods(cart))
    BY <1>3, <1>4, <2>2, <2>3 DEF Continues, GoodsFits
  <2>5. QED
    BY <2>1, <2>3, <2>4
<1>9. ShopperFits(s)'
  BY <1>2, <1>3, <1>6, <1>8 DEF ShopperFits, Shops, Current, PricedNow, Continues
<1>10. PreviewFits(s)' /\ Charged(s)'
  BY <1>2, <1>7 DEF PreviewFits, Charged, TotalNow, PricedNow
<1>11. QED
  BY <1>2, <1>9, <1>10, ShopperStep

(* A request takes the next line of its cart, or ends.                     *)
LEMMA PriceLineFits ==
  ASSUME PricingInv, NEW s \in Shopper, PriceLine(s)
  PROVE  PricingInv'
<1> DEFINE old == shopping[s]
           line == Head(old.cart)
           p == prices[line.product]
           x == [product |-> line.product, quantity |-> line.quantity,
                 price |-> UnitPrice(p, Assortment[line.product].legacy, old.country),
                 currency |-> Currency(p, old.country)]
           cart == Tail(old.cart)
           lines == Append(old.lines, x)
           me == [old EXCEPT !.cart = cart, !.lines = lines]
<1>1. /\ old.at = "lines" /\ old.cart # <<>> /\ UNCHANGED <<prices, onSale, coupon, editing, edits, preview, ordered>>
      /\ shopping' = [shopping EXCEPT ![s] = IF Takes(old.for, line, old.country) THEN me ELSE NotShopping]
  BY DEF PriceLine
<1>2. ShopperFits(s) /\ PreviewFits(s) /\ Charged(s) /\ DOMAIN shopping = Shopper
  BY ShopperHolds DEF PricingInv, ShoppersFit
<1>3. Only(s) /\ shopping'[s] \in {me, NotShopping} /\ preview'[s] = preview[s] /\ ordered'[s] = ordered[s]
  BY <1>1, <1>2 DEF Only, PricingInv, ShoppersFit
<1>4. PreviewFits(s)' /\ Charged(s)'
  BY <1>1, <1>2, <1>3 DEF PreviewFits, Charged, TotalNow, PricedNow
<1>5. CASE shopping'[s] = NotShopping
  <2>1. ShopperFits(s)'
    BY <1>5 DEF ShopperFits, NotShopping
  <2>2. QED
    BY <1>3, <1>4, <2>1, ShopperStep
<1>6. CASE shopping'[s] = me
  <2>1. Shops(old)
    BY <1>1, <1>2 DEF ShopperFits
  <2>2. x = PricedNow(GoodsOf(line), old.country) /\ GoodsOf(x) = GoodsOf(line)
    BY DEF PricedNow, GoodsOf
  <2> HIDE DEF x
  <2>3. /\ IsSeq(cart) /\ Len(old.cart) \in Nat \ {0} /\ DOMAIN old.cart = 1 .. Len(old.cart)
        /\ line = old.cart[1] /\ 1 \in DOMAIN old.cart
        /\ DOMAIN cart = 1 .. (Len(old.cart) - 1) /\ Len(cart) = Len(old.cart) - 1
        /\ \A i \in DOMAIN cart : i + 1 \in DOMAIN old.cart /\ cart[i] = old.cart[i + 1]
    BY <1>1, <2>1, TailIs DEF Shops
  <2>4. /\ IsSeq(lines) /\ Len(lines) = Len(old.lines) + 1 /\ DOMAIN lines = 1 .. (Len(old.lines) + 1)
        /\ lines[Len(old.lines) + 1] = x /\ \A i \in DOMAIN old.lines : i \in DOMAIN lines /\ lines[i] = old.lines[i]
        /\ Len(old.lines) \in Nat /\ DOMAIN old.lines = 1 .. Len(old.lines)
    BY <2>1, AppendIs, SequenceIs DEF Shops
  <2> DEFINE n == Len(old.lines)
             m == Len(old.cart)
  <2> HIDE DEF cart, lines
  <2>5. /\ DOMAIN me = DOMAIN old /\ me.cart = cart /\ me.lines = lines /\ me.at = "lines"
        /\ me.for = old.for /\ me.country = old.country /\ me.asked = old.asked /\ me.coded = old.coded
        /\ me.shipping = old.shipping /\ me.since = old.since
    BY <1>1, <2>1 DEF Shops
  <2> HIDE DEF me, n, m, line
  <2>6. /\ n \in Nat /\ m \in Nat \ {0} /\ DOMAIN cart = 1 .. (m - 1) /\ Len(cart) = m - 1 /\ DOMAIN old.cart = 1 .. m
        /\ DOMAIN lines = 1 .. (n + 1) /\ Len(lines) = n + 1 /\ DOMAIN old.lines = 1 .. n /\ lines[n + 1] = x
        /\ \A i \in 1 .. n : lines[i] = old.lines[i]
        /\ \A i \in 1 .. (m - 1) : cart[i] = old.cart[i + 1]
    BY <2>3, <2>4 DEF n, m
  <2>7. \A i \in DOMAIN lines : i = n + 1 \/ i \in 1 .. n
    BY <2>6
  <2>8. Current(me)
    <3> SUFFICES ASSUME me.since = edits, NEW i \in DOMAIN lines PROVE lines[i] = PricedNow(GoodsOf(lines[i]), me.country)
      BY <2>5 DEF Current
    <3>1. CASE i = n + 1
      BY <2>2, <2>5, <2>6, <3>1
    <3>2. CASE i \in 1 .. n
      BY <2>1, <2>5, <2>6, <3>2 DEF Shops, Current
    <3>3. QED
      BY <2>7, <3>1, <3>2
  <2>9. Shops(me)
    BY <2>1, <2>3, <2>4, <2>5, <2>8 DEF Shops
  <2>10. ASSUME NEW goods, Continues(old, goods) PROVE Continues(me, goods)
    <3>1. /\ DOMAIN goods = 1 .. (n + m) /\ goods = [i \in DOMAIN goods |-> goods[i]]
          /\ \A i \in 1 .. n : GoodsOf(old.lines[i]) = goods[i]
          /\ \A i \in 1 .. m : GoodsOf(old.cart[i]) = goods[n + i]
      BY <2>6, <2>10 DEF Continues, n, m
    <3>2. (n + 1) + (m - 1) = n + m
      BY <2>6
    <3>3. ASSUME NEW i \in DOMAIN lines PROVE GoodsOf(lines[i]) = goods[i]
      <4>1. CASE i = n + 1
        BY <2>2, <2>3, <2>6, <3>1, <4>1
      <4>2. CASE i \in 1 .. n
        BY <2>6, <3>1, <4>2
      <4>3. QED
        BY <2>7, <4>1, <4>2
    <3>4. ASSUME NEW i \in DOMAIN cart PROVE GoodsOf(cart[i]) = goods[(n + 1) + i]
      <4>1. i \in 1 .. (m - 1) /\ n \in Nat /\ m \in Nat
        BY <2>6
      <4>2. i + 1 \in 1 .. m /\ n + (i + 1) = (n + 1) + i
        BY <4>1
      <4>3. cart[i] = old.cart[i + 1]
        BY <2>6, <4>1
      <4>4. QED
        BY <3>1, <4>2, <4>3
    <3>5. QED
      BY <2>5, <2>6, <3>1, <3>2, <3>3, <3>4 DEF Continues
  <2>11. ShopperFits(s)'
    <3>1. me.for = "checkout" /\ preview[s] # Nothing => preview[s].since <= me.since /\ Continues(me, preview[s].cart)
      BY <1>1, <1>2, <2>5, <2>10 DEF ShopperFits
    <3>2. me.for = "preview" => ordered[s] = Nothing
      BY <1>1, <1>2, <2>5 DEF ShopperFits
    <3>3. Shops(shopping[s])'
      <4>1. UNCHANGED <<prices, edits>> /\ shopping'[s] = me
        BY <1>1, <1>6
      <4>2. Current(shopping[s])'
        BY <2>9, <4>1 DEF Shops, Current, PricedNow
      <4>3. QED
        BY <2>9, <4>1, <4>2 DEF Shops
    <3>4. shopping[s].for' = "checkout" /\ preview'[s] # Nothing => Continues(shopping[s], preview[s].cart)'
      BY <1>3, <1>6, <3>1 DEF Continues
    <3> HIDE DEF old, x
    <3>5. QED
      BY <1>3, <1>6, <2>5, <3>1, <3>2, <3>3, <3>4 DEF ShopperFits
  <2>12. QED
    BY <1>3, <1>4, <2>11, ShopperStep
<1>7. QED
  BY <1>3, <1>5, <1>6

(* A request ends, and leaves a preview, or an order, of what it priced.   *)
LEMMA FinishFits ==
  ASSUME PricingInv, NEW s \in Shopper, shopping[s].at = "lines", shopping[s].cart = <<>>,
         NEW discount, NEW applied, Finish(s, discount, applied), UNCHANGED <<prices, onSale, coupon, editing, edits>>,
         shopping[s].coded => discount = ComputeDiscount(coupon, shopping[s].lines)
  PROVE  PricingInv'
<1> DEFINE me == shopping[s]
           priced == Priced(me.lines, discount, me.shipping)
           now == [cart |-> Goods(me.lines), country |-> me.asked, since |-> me.since, total |-> priced.total]
           order == [lines |-> me.lines, country |-> me.country, place |-> me.place, for |-> me.for,
                     coded |-> me.coded, applied |-> applied, at |-> edits, subtotal |-> priced.subtotal,
                     discount |-> priced.discount, shipping |-> priced.shipping, total |-> priced.total]
<1>1. ShopperFits(s) /\ PreviewFits(s) /\ Charged(s) /\ Shops(me)
  BY ShopperHolds DEF ShopperFits
<1>2. IsSeq(me.lines) /\ Len(me.lines) \in Nat /\ DOMAIN me.lines = 1 .. Len(me.lines) /\ Len(me.cart) = 0
  BY <1>1, SequenceIs DEF Shops
<1>3. /\ DOMAIN Goods(me.lines) = DOMAIN me.lines /\ Goods(me.lines) = [i \in DOMAIN Goods(me.lines) |-> Goods(me.lines)[i]]
      /\ \A i \in DOMAIN me.lines : Goods(me.lines)[i] = GoodsOf(me.lines[i])
  BY GoodsAre DEF GoodsFits
<1>4. me.lines = [i \in DOMAIN me.lines |-> me.lines[i]]
  BY <1>2, SequenceIs
(* A coded request at present prices: what it totals.                      *)
<1>5. ASSUME me.since = edits, me.coded, me.shipping = 0 PROVE priced.total = TotalNow(Goods(me.lines), me.country)
  <2> DEFINE goods == Goods(me.lines)
             lines == [i \in DOMAIN goods |-> PricedNow(goods[i], me.country)]
  <2>1. \A i \in DOMAIN me.lines : me.lines[i] = PricedNow(goods[i], me.country)
    BY <1>1, <1>3, <1>5 DEF Shops, Current
  <2>2. DOMAIN goods = DOMAIN me.lines
    BY <1>3
  <2> HIDE DEF goods
  <2>3. me.lines = lines
    BY <1>4, <2>1, <2>2
  <2>4. priced = Priced(me.lines, ComputeDiscount(coupon, me.lines), 0)
    BY <1>5
  <2>5. TotalNow(goods, me.country) = Priced(lines, ComputeDiscount(coupon, lines), 0).total
    BY DEF TotalNow
  <2> HIDE DEF lines, priced
  <2>6. QED
    BY <2>3, <2>4, <2>5 DEF goods
<1> HIDE DEF priced
<1>6. /\ shopping' = [shopping EXCEPT ![s] = NotShopping]
      /\ IF me.for = "preview" THEN preview' = [preview EXCEPT ![s] = now] /\ UNCHANGED ordered
         ELSE ordered' = [ordered EXCEPT ![s] = order] /\ UNCHANGED preview
  BY DEF Finish, priced
<1>7. Only(s) /\ shopping'[s] = NotShopping
  BY <1>6 DEF Only, PricingInv, ShoppersFit
<1>8. ShopperFits(s)'
  BY <1>7 DEF ShopperFits, NotShopping
<1>9. CASE me.for = "preview"
  <2>1. preview'[s] = now /\ ordered'[s] = Nothing
    BY <1>1, <1>6, <1>9 DEF ShopperFits, PricingInv, ShoppersFit
  <2>2. now.cart = Goods(me.lines) /\ now.country = me.asked /\ now.since = me.since /\ now.total = priced.total
    OBVIOUS
  <2> HIDE DEF now
  <2>3. me.asked = me.country /\ me.shipping = 0 /\ me.coded
    BY <1>1, <1>9 DEF Shops
  <2>4. me.since = edits => now.total = TotalNow(now.cart, now.country)
    BY <1>5, <2>2, <2>3
  <2>5. me.since \in Nat /\ me.since <= edits /\ DOMAIN Goods(me.lines) \subseteq Nat
    BY <1>1, <1>2, <1>3 DEF Shops
  <2>6. PreviewFits(s)'
    BY <1>3, <2>1, <2>2, <2>4, <2>5 DEF PreviewFits, TotalNow, PricedNow
  <2>7. Charged(s)'
    BY <2>1 DEF Charged
  <2>8. QED
    BY <1>7, <1>8, <2>6, <2>7, ShopperStep
<1>10. CASE me.for # "preview"
  <2>1. preview'[s] = preview[s] /\ ordered'[s] = order
    BY <1>6, <1>10 DEF PricingInv, ShoppersFit
  <2>2. /\ order.for = me.for /\ order.coded = me.coded /\ order.country = me.country /\ order.at = edits
        /\ order.total = priced.total
    OBVIOUS
  <2> HIDE DEF order
  <2>3. PreviewFits(s)'
    BY <1>1, <2>1 DEF PreviewFits, TotalNow, PricedNow
  <2>4. ASSUME preview[s] # Nothing, me.for = "checkout", me.coded, me.country = preview[s].country, edits = preview[s].since
        PROVE  priced.total = preview[s].total
    <3>1. preview[s].since <= me.since /\ Continues(me, preview[s].cart)
      BY <1>1, <2>4 DEF ShopperFits
    <3>2. me.since = edits /\ me.shipping = 0
      <4>1. me.since \in Nat /\ edits \in Nat /\ me.since <= edits /\ me.shipping = 0
        BY <1>1, <2>4 DEF Shops, PricingInv, PricingTyped
      <4>2. QED
        BY <2>4, <3>1, <4>1
    <3>3. Goods(me.lines) = preview[s].cart
      <4> DEFINE goods == Goods(me.lines)
                 cart == preview[s].cart
      <4>1. DOMAIN cart = DOMAIN goods /\ cart = [i \in DOMAIN cart |-> cart[i]] /\ goods = [i \in DOMAIN goods |-> goods[i]]
        BY <1>2, <1>3, <3>1 DEF Continues
      <4>2. \A i \in DOMAIN goods : goods[i] = cart[i]
        BY <1>3, <3>1 DEF Continues
      <4> HIDE DEF goods, cart
      <4>3. goods = cart
        BY <4>1, <4>2
      <4>4. QED
        BY <4>3 DEF goods, cart
    <3>4. preview[s].total = TotalNow(preview[s].cart, preview[s].country)
      BY <1>1, <2>4 DEF PreviewFits
    <3>5. QED
      BY <1>5, <2>4, <3>2, <3>3, <3>4
  <2>5. Charged(s)'
    BY <2>1, <2>2, <2>4 DEF Charged
  <2>6. QED
    BY <1>7, <1>8, <2>3, <2>5, ShopperStep
<1>11. QED
  BY <1>9, <1>10

LEMMA ApplyCouponFits ==
  ASSUME PricingInv, NEW s \in Shopper, ApplyCoupon(s)
  PROVE  PricingInv'
<1> DEFINE me == shopping[s]
<1>1. me.at = "lines" /\ me.cart = <<>> /\ UNCHANGED <<prices, onSale, coupon, editing, edits>>
  BY DEF ApplyCoupon
<1>2. CASE ~me.coded /\ Finish(s, 0, NoCoupon)
  BY <1>1, <1>2, FinishFits
<1>3. CASE Finish(s, ComputeDiscount(coupon, me.lines), coupon)
  <2> DEFINE discount == ComputeDiscount(coupon, me.lines)
  <2>1. discount = ComputeDiscount(coupon, me.lines) /\ Finish(s, discount, coupon)
    BY <1>3
  <2> HIDE DEF discount
  <2>2. QED
    BY <1>1, <2>1, FinishFits
<1>4. CASE shopping' = [shopping EXCEPT ![s] = NotShopping] /\ UNCHANGED <<preview, ordered>>
  <2>1. Only(s) /\ shopping'[s] = NotShopping
    BY <1>1, <1>4 DEF Only, PricingInv, ShoppersFit
  <2>2. ShopperFits(s)'
    BY <2>1 DEF ShopperFits, NotShopping
  <2>3. PreviewFits(s) /\ Charged(s)
    BY ShopperHolds
  <2>4. PreviewFits(s)' /\ Charged(s)'
    BY <1>1, <1>4, <2>3 DEF PreviewFits, Charged, TotalNow, PricedNow
  <2>5. QED
    BY <2>1, <2>2, <2>4, ShopperStep
<1>5. \/ ~me.coded /\ Finish(s, 0, NoCoupon)
      \/ Finish(s, ComputeDiscount(coupon, me.lines), coupon)
      \/ shopping' = [shopping EXCEPT ![s] = NotShopping] /\ UNCHANGED <<preview, ordered>>
  BY DEF ApplyCoupon
<1>6. QED
  BY <1>2, <1>3, <1>4, <1>5

(* An edit of a price, of what is sold or of the coupon.                   *)
LEMMA EditsFit ==
  ASSUME PricingInv, Edited, UNCHANGED <<shopping, preview, ordered>>, PricingTyped'
  PROVE  PricingInv'
BY EditFits DEF PricingInv

LEMMA EditedFits == ASSUME PricingInv, Edited PROVE edits' \in 0 .. MaxEdits
BY PricingAssumption DEF PricingInv, PricingTyped, Edited

LEMMA CouponStepFits ==
  ASSUME PricingInv, NEW e \in CouponEditor,
         \/ CheckCoupon(e) \/ WriteCoupon(e) \/ DeleteCoupon(e)
         \/ \E c \in Coupons \ {NoCoupon} : CreateCoupon(e, c)
         \/ \E patch \in Patches : OpenCoupon(e, patch)
  PROVE  PricingInv'
<1>1. PricingTyped
  BY DEF PricingInv
<1>2. CASE \E patch \in Patches : OpenCoupon(e, patch)
  <2>1. PICK patch \in Patches : OpenCoupon(e, patch)
    BY <1>2
  <2>2. PricingTyped'
    BY <1>1, <2>1 DEF OpenCoupon, PricingTyped
  <2>3. QED
    BY <2>1, <2>2, AsideFits DEF OpenCoupon, PricingInv
<1>3. CASE CheckCoupon(e)
  <2>1. editing[e].at = "opened" /\ UNCHANGED <<prices, onSale, coupon, edits, shopping, preview, ordered>>
    BY <1>3 DEF CheckCoupon
  <2>2. editing' = [editing EXCEPT ![e] = [editing[e] EXCEPT !.at = "checked"]] \/ editing' = [editing EXCEPT ![e] = Quiet]
    BY <1>3 DEF CheckCoupon
  <2>3. PricingTyped'
    BY <1>1, <2>1, <2>2 DEF PricingTyped, Quiet
  <2>4. QED
    BY <2>1, <2>3, AsideFits DEF PricingInv
<1>4. CASE WriteCoupon(e)
  <2>1. PricingTyped'
    BY <1>1, <1>4, EditedFits DEF WriteCoupon, PricingTyped, Quiet
  <2>2. QED
    BY <1>4, <2>1, EditsFit DEF WriteCoupon
<1>5. CASE DeleteCoupon(e) \/ \E c \in Coupons \ {NoCoupon} : CreateCoupon(e, c)
  <2>1. Edited /\ UNCHANGED <<prices, onSale, editing, shopping, preview, ordered>>
    BY <1>5 DEF DeleteCoupon, CreateCoupon
  <2>2. PricingTyped'
    BY <1>1, <2>1, EditedFits DEF PricingTyped
  <2>3. QED
    BY <2>1, <2>2, EditsFit
<1>6. QED
  BY <1>2, <1>3, <1>4, <1>5

LEMMA PricingInductive == PricingInv /\ [PricingNext]_pricingVars => PricingInv'
<1> SUFFICES ASSUME PricingInv, [PricingNext]_pricingVars PROVE PricingInv'
  OBVIOUS
<1>1. PricingTyped
  BY DEF PricingInv
<1>2. ASSUME NEW p, NEW m, NEW v, EditPrice(p, m, v) PROVE PricingInv'
  <2>1. PricingTyped'
    BY <1>1, <1>2, EditedFits DEF EditPrice, PricingTyped
  <2>2. QED
    BY <1>2, <2>1, EditsFit DEF EditPrice
<1>3. ASSUME NEW p \in Product, Retire(p) PROVE PricingInv'
  <2>1. PricingTyped'
    BY <1>1, <1>3, EditedFits DEF Retire, PricingTyped
  <2>2. QED
    BY <1>3, <2>1, EditsFit DEF Retire
<1>4. ASSUME NEW s \in Shopper, PriceLine(s) \/ ApplyCoupon(s) PROVE PricingInv'
  BY <1>4, PriceLineFits, ApplyCouponFits
<1>5. ASSUME NEW s \in Shopper, NEW cart \in Carts, NEW country \in Countries, BeginPreview(s, cart, country)
      PROVE  PricingInv'
  <2>1. /\ BeginShopping(s, "preview", cart, country, country, TRUE, Nothing, 0) /\ ordered[s] = Nothing
        /\ UNCHANGED <<prices, onSale, coupon, editing, edits, preview, ordered>>
    BY <1>5 DEF BeginPreview
  <2>2. QED
    BY <2>1, BeginFits
<1>6. ASSUME NEW s \in Shopper, NEW cart \in Carts, NEW selected, NEW geo, NEW coded, NEW place, NEW payment,
             BeginCheckout(s, cart, selected, geo, coded, place, payment)
      PROVE  PricingInv'
  <2> DEFINE country == ResolveCountry(selected, geo)
  <2>1. /\ BeginShopping(s, "checkout", cart, country, country, coded, place, 0)
        /\ preview[s] # Nothing => preview[s].cart = Goods(cart)
        /\ UNCHANGED <<prices, onSale, coupon, editing, edits, preview, ordered>>
    BY <1>6 DEF BeginCheckout
  <2> HIDE DEF country
  <2>2. QED
    BY <2>1, BeginFits
<1>7. ASSUME NEW s \in Shopper, NEW cart \in Carts, NEW country, NEW coded, NEW place, NEW shipping,
             BeginDesk(s, cart, country, coded, place, shipping)
      PROVE  PricingInv'
  <2>1. /\ BeginShopping(s, "desk", cart, country, None, coded, place, shipping)
        /\ UNCHANGED <<prices, onSale, coupon, editing, edits, preview, ordered>>
    BY <1>7 DEF BeginDesk
  <2>2. QED
    BY <2>1, BeginFits
<1>8. CASE UNCHANGED pricingVars
  <2>1. PricingTyped'
    BY <1>1, <1>8 DEF pricingVars, PricingTyped
  <2>2. QED
    BY <1>8, <2>1, AsideFits DEF pricingVars, PricingInv
<1>9. QED
  BY <1>2, <1>3, <1>4, <1>5, <1>6, <1>7, <1>8, CouponStepFits DEF PricingNext

-----------------------------------------------------------------------------
(* Sums: what the recursive function of a sum is, of every finite set, by  *)
(* the smallest set for which it is not                                     *)

(* Among some finite sets one has no other within it.                      *)
LEMMA SmallestSet ==
  ASSUME NEW U, NEW T \in SUBSET FiniteSubsetsOf(U), T # {}
  PROVE  \E X \in T : \A Y \in T : Y \subseteq X => Y = X
<1>1. IsWellFoundedOn(StrictSubsetOrdering(U), FiniteSubsetsOf(U))
  BY FS_StrictSubsetOrderingWellFounded
<1>2. PICK X \in T : \A Y \in T : ~(<<Y, X>> \in StrictSubsetOrdering(U))
  BY <1>1, WFMin, Zenon
<1>3. \A Y \in T : Y \in SUBSET U
  BY DEF FiniteSubsetsOf
<1>4. ASSUME NEW Y \in T, Y \subseteq X PROVE Y = X
  BY <1>2, <1>3, <1>4 DEF StrictSubsetOrdering
<1>5. QED
  BY <1>4

(* What is left when the first element of a set is taken out.              *)
First(S) == CHOOSE x \in S : TRUE
Rest(S) == S \ {First(S)}

LEMMA RestIsLess == ASSUME NEW S, S # {} PROVE First(S) \in S /\ Rest(S) \subseteq S /\ Rest(S) # S
BY DEF First, Rest

(* The function a sum is read from, on every subset of its set.            *)
Counts(f, S, g) == g = [s \in SUBSET S |-> IF s = {} THEN 0 ELSE f[First(s)] + g[Rest(s)]]
Counting(f, S) == CHOOSE g : Counts(f, S, g)

LEMMA SumIsCounted == ASSUME NEW f, NEW S PROVE Sum(f, S) = Counting(f, S)[S]
BY DEF Sum, MapThenSumSet, MapThenFoldSet, Counting, Counts, First, Rest

(* A function that counts one set counts each of its subsets the same.     *)
LEMMA CountedAlike ==
  ASSUME NEW f, NEW S, IsFiniteSet(S), NEW R \in SUBSET S, NEW g, NEW h, Counts(f, S, g), Counts(f, R, h)
  PROVE  \A s \in SUBSET R : g[s] = h[s]
<1> DEFINE Differ == {s \in SUBSET R : g[s] # h[s]}
<1>1. SUFFICES ASSUME Differ # {} PROVE FALSE
  OBVIOUS
<1>2. Differ \in SUBSET FiniteSubsetsOf(S)
  BY FS_Subset DEF FiniteSubsetsOf
<1>3. PICK X \in Differ : \A Y \in Differ : Y \subseteq X => Y = X
  <2> HIDE DEF Differ
  <2>1. QED
    BY <1>1, <1>2, SmallestSet
<1>4. CASE X = {}
  BY <1>4 DEF Counts
<1>5. CASE X # {}
  <2>1. Rest(X) \in SUBSET R /\ Rest(X) # X /\ Rest(X) \subseteq X
    BY <1>5, RestIsLess
  <2>2. g[Rest(X)] = h[Rest(X)]
    BY <2>1, <1>3
  <2>3. g[X] = f[First(X)] + g[Rest(X)] /\ h[X] = f[First(X)] + h[Rest(X)]
    BY <1>5 DEF Counts
  <2>4. QED
    BY <2>2, <2>3
<1>6. QED
  BY <1>4, <1>5

(* Every finite set has such a function.                                   *)
LEMMA CountingExists == ASSUME NEW f, NEW S, IsFiniteSet(S) PROVE Counts(f, S, Counting(f, S))
<1> DEFINE Uncounted == {R \in SUBSET S : ~Counts(f, R, Counting(f, R))}
<1>1. SUFFICES ASSUME Uncounted # {} PROVE FALSE
  OBVIOUS
<1>2. Uncounted \in SUBSET FiniteSubsetsOf(S)
  BY FS_Subset DEF FiniteSubsetsOf
<1>3. PICK R \in Uncounted : \A Y \in Uncounted : Y \subseteq R => Y = R
  <2> HIDE DEF Uncounted
  <2>1. QED
    BY <1>1, <1>2, SmallestSet
<1> DEFINE of(s) == Counting(f, s)[s]
           g == [s \in SUBSET R |-> IF s = {} THEN 0 ELSE f[First(s)] + of(Rest(s))]
<1>4. \A t \in SUBSET R : t # R => Counts(f, t, Counting(f, t))
  BY <1>3
<1>5. ASSUME NEW t \in SUBSET R, t # R PROVE g[t] = of(t)
  <2>1. Counts(f, t, Counting(f, t))
    BY <1>4, <1>5
  <2>2. CASE t = {}
    <3>1. of(t) = 0
      BY <2>1, <2>2 DEF Counts
    <3>2. QED
      BY <3>1, <2>2
  <2>3. CASE t # {}
    <3>1. Rest(t) \in SUBSET t /\ Rest(t) # R /\ Rest(t) \in SUBSET R
      BY <2>3, RestIsLess, <1>5
    <3>2. Counts(f, Rest(t), Counting(f, Rest(t)))
      BY <3>1, <1>4
    <3>3. IsFiniteSet(t)
      BY FS_Subset
    <3>4. Counting(f, t)[Rest(t)] = of(Rest(t))
      BY <2>1, <3>1, <3>2, <3>3, CountedAlike
    <3>5. of(t) = f[First(t)] + Counting(f, t)[Rest(t)]
      BY <2>1, <2>3 DEF Counts
    <3>6. QED
      BY <3>4, <3>5, <2>3
  <2>4. QED
    BY <2>2, <2>3
<1>6. ASSUME NEW s \in SUBSET R, s # {} PROVE g[Rest(s)] = of(Rest(s))
  <2>1. Rest(s) \in SUBSET R /\ Rest(s) # R
    BY <1>6, RestIsLess
  <2>2. QED
    BY <2>1, <1>5
<1>7. g = [s \in SUBSET R |-> IF s = {} THEN 0 ELSE f[First(s)] + g[Rest(s)]]
  BY <1>6
<1>8. Counts(f, R, g)
  BY <1>7 DEF Counts
<1>9. Counts(f, R, Counting(f, R))
  BY <1>8 DEF Counting
<1>10. QED
  BY <1>9, <1>3

LEMMA SumOfNone == ASSUME NEW f PROVE Sum(f, {}) = 0
<1>1. Counts(f, {}, Counting(f, {}))
  BY CountingExists, FS_EmptySet
<1>2. QED
  BY <1>1, SumIsCounted DEF Counts

LEMMA SumByFirst ==
  ASSUME NEW f, NEW S, IsFiniteSet(S), S # {}
  PROVE  Sum(f, S) = f[First(S)] + Sum(f, Rest(S))
<1>1. Rest(S) \in SUBSET S /\ IsFiniteSet(Rest(S))
  BY RestIsLess, FS_Subset
<1>2. Counts(f, S, Counting(f, S)) /\ Counts(f, Rest(S), Counting(f, Rest(S)))
  BY <1>1, CountingExists
<1>3. Counting(f, S)[S] = f[First(S)] + Counting(f, S)[Rest(S)]
  BY <1>2 DEF Counts
<1>4. Counting(f, S)[Rest(S)] = Counting(f, Rest(S))[Rest(S)]
  BY <1>1, <1>2, CountedAlike
<1>5. QED
  BY <1>3, <1>4, SumIsCounted

(* A sum of integers is one. *)
LEMMA SumIsInt == ASSUME NEW f, NEW S, IsFiniteSet(S), \A i \in S : f[i] \in Int PROVE Sum(f, S) \in Int
<1> DEFINE Bad == {R \in SUBSET S : Sum(f, R) \notin Int}
<1>1. SUFFICES ASSUME Bad # {} PROVE FALSE
  OBVIOUS
<1>2. Bad \in SUBSET FiniteSubsetsOf(S)
  BY FS_Subset DEF FiniteSubsetsOf
<1>3. PICK R \in Bad : \A Y \in Bad : Y \subseteq R => Y = R
  <2> HIDE DEF Bad
  <2>1. QED
    BY <1>1, <1>2, SmallestSet
<1>4. R # {}
  <2>1. Sum(f, R) \notin Int
    BY <1>3
  <2>2. Sum(f, {}) \in Int
    BY SumOfNone
  <2>3. QED
    BY <2>1, <2>2
<1>5. First(R) \in S /\ Rest(R) \in SUBSET S /\ Rest(R) \notin Bad
  BY <1>3, <1>4, RestIsLess
<1>6. Sum(f, R) = f[First(R)] + Sum(f, Rest(R))
  BY <1>4, SumByFirst, FS_Subset
<1>7. QED
  BY <1>5, <1>6, <1>3

(* The element that is taken out first makes no difference.                *)
LEMMA SumWithout ==
  ASSUME NEW f, NEW S, IsFiniteSet(S), \A i \in S : f[i] \in Int, NEW x \in S
  PROVE  Sum(f, S) = f[x] + Sum(f, S \ {x})
<1> DEFINE Bad == {R \in SUBSET S : \E y \in R : Sum(f, R) # f[y] + Sum(f, R \ {y})}
<1>1. SUFFICES ASSUME Bad # {} PROVE FALSE
  OBVIOUS
<1>2. Bad \in SUBSET FiniteSubsetsOf(S)
  BY FS_Subset DEF FiniteSubsetsOf
<1>3. PICK R \in Bad : \A Y \in Bad : Y \subseteq R => Y = R
  <2> HIDE DEF Bad
  <2>1. QED
    BY <1>1, <1>2, SmallestSet
<1>4. R \in SUBSET S /\ IsFiniteSet(R) /\ \E y \in R : Sum(f, R) # f[y] + Sum(f, R \ {y})
  BY <1>3, FS_Subset
<1>5. \A Y \in SUBSET R : Y # R => \A y \in Y : Sum(f, Y) = f[y] + Sum(f, Y \ {y})
  BY <1>3, <1>4
<1> HIDE DEF Bad
<1>6. PICK y \in R : Sum(f, R) # f[y] + Sum(f, R \ {y})
  BY <1>4
<1>7. PICK z \in R : Sum(f, R) = f[z] + Sum(f, R \ {z})
  <2>1. R # {}
    BY <1>6
  <2>2. First(R) \in R
    BY <2>1, RestIsLess
  <2>3. Sum(f, R) = f[First(R)] + Sum(f, R \ {First(R)})
    BY <2>1, <1>4, SumByFirst DEF Rest
  <2>4. QED
    BY <2>2, <2>3
<1>8. z # y
  BY <1>6, <1>7
<1>9. PICK T \in SUBSET R : T = R \ {y, z}
  OBVIOUS
<1>10. Sum(f, R \ {z}) = f[y] + Sum(f, T)
  <2>1. R \ {z} \in SUBSET R /\ R \ {z} # R /\ y \in R \ {z} /\ (R \ {z}) \ {y} = T
    BY <1>8, <1>9
  <2>2. QED
    BY <2>1, <1>5
<1>11. Sum(f, R \ {y}) = f[z] + Sum(f, T)
  <2>1. R \ {y} \in SUBSET R /\ R \ {y} # R /\ z \in R \ {y} /\ (R \ {y}) \ {z} = T
    BY <1>8, <1>9
  <2>2. QED
    BY <2>1, <1>5
<1>12. Sum(f, T) \in Int /\ f[y] \in Int /\ f[z] \in Int
  <2>1. IsFiniteSet(T) /\ T \in SUBSET S
    BY <1>4, <1>9, FS_Subset
  <2>2. QED
    BY <2>1, <1>4, SumIsInt
<1>13. QED
  BY <1>6, <1>7, <1>10, <1>11, <1>12

(* Sums of the same numbers are the same.                                  *)
LEMMA SumOfEquals ==
  ASSUME NEW f, NEW g, NEW S, IsFiniteSet(S), \A i \in S : f[i] = g[i]
  PROVE  Sum(f, S) = Sum(g, S)
<1> DEFINE Bad == {R \in SUBSET S : Sum(f, R) # Sum(g, R)}
<1>1. SUFFICES ASSUME Bad # {} PROVE FALSE
  OBVIOUS
<1>2. Bad \in SUBSET FiniteSubsetsOf(S)
  BY FS_Subset DEF FiniteSubsetsOf
<1>3. PICK R \in Bad : \A Y \in Bad : Y \subseteq R => Y = R
  <2> HIDE DEF Bad
  <2>1. QED
    BY <1>1, <1>2, SmallestSet
<1>4. R # {}
  <2>1. Sum(f, R) # Sum(g, R)
    BY <1>3
  <2>2. Sum(f, {}) = Sum(g, {})
    BY SumOfNone
  <2>3. QED
    BY <2>1, <2>2
<1>5. First(R) \in S /\ Rest(R) \in SUBSET S /\ Rest(R) \notin Bad
  BY <1>3, <1>4, RestIsLess
<1>6. IsFiniteSet(R)
  BY FS_Subset
<1>7. Sum(f, R) = f[First(R)] + Sum(f, Rest(R)) /\ Sum(g, R) = g[First(R)] + Sum(g, Rest(R))
  BY <1>4, <1>6, SumByFirst
<1>8. QED
  BY <1>5, <1>7, <1>3

(* Sums add up like what they sum.                                         *)
LEMMA SumOfSums ==
  ASSUME NEW f, NEW g, NEW h, NEW S, IsFiniteSet(S),
         \A i \in S : f[i] \in Int /\ g[i] \in Int /\ h[i] = f[i] + g[i]
  PROVE  Sum(h, S) = Sum(f, S) + Sum(g, S)
<1> DEFINE Bad == {R \in SUBSET S : Sum(h, R) # Sum(f, R) + Sum(g, R)}
<1>1. SUFFICES ASSUME Bad # {} PROVE FALSE
  OBVIOUS
<1>2. Bad \in SUBSET FiniteSubsetsOf(S)
  BY FS_Subset DEF FiniteSubsetsOf
<1>3. PICK R \in Bad : \A Y \in Bad : Y \subseteq R => Y = R
  <2> HIDE DEF Bad
  <2>1. QED
    BY <1>1, <1>2, SmallestSet
<1>4. R # {}
  <2>1. Sum(h, R) # Sum(f, R) + Sum(g, R)
    BY <1>3
  <2>2. Sum(h, {}) = Sum(f, {}) + Sum(g, {})
    BY SumOfNone
  <2>3. QED
    BY <2>1, <2>2
<1>5. First(R) \in S /\ Rest(R) \in SUBSET S /\ Rest(R) \notin Bad
  BY <1>3, <1>4, RestIsLess
<1>6. IsFiniteSet(R) /\ IsFiniteSet(Rest(R))
  BY <1>5, FS_Subset
<1>7. /\ Sum(f, R) = f[First(R)] + Sum(f, Rest(R))
      /\ Sum(g, R) = g[First(R)] + Sum(g, Rest(R))
      /\ Sum(h, R) = h[First(R)] + Sum(h, Rest(R))
  BY <1>4, <1>6, SumByFirst
<1>8. Sum(f, Rest(R)) \in Int /\ Sum(g, Rest(R)) \in Int
  BY <1>5, <1>6, SumIsInt
<1>9. Sum(h, Rest(R)) = Sum(f, Rest(R)) + Sum(g, Rest(R))
  BY <1>5
<1>10. Sum(h, R) # Sum(f, R) + Sum(g, R)
  BY <1>3
<1> HIDE DEF Bad
<1>11. f[First(R)] \in Int /\ g[First(R)] \in Int /\ h[First(R)] = f[First(R)] + g[First(R)]
  BY <1>5
<1>12. QED
  BY <1>7, <1>8, <1>9, <1>10, <1>11

(* A sum of what is not negative is not, and is no less over more.         *)
LEMMA SumIsNat == ASSUME NEW f, NEW S, IsFiniteSet(S), \A i \in S : f[i] \in Nat PROVE Sum(f, S) \in Nat
<1> DEFINE Bad == {R \in SUBSET S : Sum(f, R) \notin Nat}
<1>1. SUFFICES ASSUME Bad # {} PROVE FALSE
  OBVIOUS
<1>2. Bad \in SUBSET FiniteSubsetsOf(S)
  BY FS_Subset DEF FiniteSubsetsOf
<1>3. PICK R \in Bad : \A Y \in Bad : Y \subseteq R => Y = R
  <2> HIDE DEF Bad
  <2>1. QED
    BY <1>1, <1>2, SmallestSet
<1>4. R # {}
  <2>1. Sum(f, R) \notin Nat
    BY <1>3
  <2>2. Sum(f, {}) \in Nat
    BY SumOfNone
  <2>3. QED
    BY <2>1, <2>2
<1>5. First(R) \in S /\ Rest(R) \in SUBSET S /\ Rest(R) \notin Bad
  BY <1>3, <1>4, RestIsLess
<1>6. Sum(f, R) = f[First(R)] + Sum(f, Rest(R))
  BY <1>4, SumByFirst, FS_Subset
<1>7. QED
  BY <1>5, <1>6, <1>3

(* Numbers that are each within e of the share c / a of another: their     *)
(* sums are within e for each of them.                                     *)
LEMMA SumNearShare ==
  ASSUME NEW f, NEW g, NEW S, IsFiniteSet(S), NEW a \in Int, NEW c \in Int, NEW e \in Int,
         \A i \in S : f[i] \in Int /\ g[i] \in Int /\ -e <= a * f[i] - c * g[i] /\ a * f[i] - c * g[i] <= e
  PROVE  /\ -(Cardinality(S) * e) <= a * Sum(f, S) - c * Sum(g, S)
         /\ a * Sum(f, S) - c * Sum(g, S) <= Cardinality(S) * e
<1> DEFINE Off(R) == a * Sum(f, R) - c * Sum(g, R)
           Near(R) == -(Cardinality(R) * e) <= Off(R) /\ Off(R) <= Cardinality(R) * e
           Bad == {R \in SUBSET S : ~Near(R)}
<1>1. SUFFICES ASSUME Bad # {} PROVE FALSE
  OBVIOUS
<1>2. Bad \in SUBSET FiniteSubsetsOf(S)
  BY FS_Subset DEF FiniteSubsetsOf
<1>3. PICK R \in Bad : \A Y \in Bad : Y \subseteq R => Y = R
  <2> HIDE DEF Bad
  <2>1. QED
    BY <1>1, <1>2, SmallestSet
<1>4. R # {}
  <2>1. ~Near(R)
    BY <1>3
  <2>2. Near({})
    <3>1. Sum(f, {}) = 0 /\ Sum(g, {}) = 0 /\ Cardinality({}) = 0
      BY SumOfNone, FS_EmptySet
    <3>2. a * 0 = 0 /\ c * 0 = 0 /\ 0 * e = 0
      OBVIOUS
    <3>3. QED
      BY <3>1, <3>2
  <2>3. QED
    BY <2>1, <2>2
<1>5. First(R) \in S /\ First(R) \in R /\ Rest(R) \in SUBSET S /\ Near(Rest(R))
  BY <1>3, <1>4, RestIsLess
<1>6. IsFiniteSet(R) /\ IsFiniteSet(Rest(R))
  BY <1>5, FS_Subset
<1> DEFINE x == First(R)
           n == Cardinality(Rest(R))
           F == Sum(f, Rest(R))
           G == Sum(g, Rest(R))
<1>7. Sum(f, R) = f[x] + F /\ Sum(g, R) = g[x] + G
  BY <1>4, <1>6, SumByFirst
<1>8. F \in Int /\ G \in Int /\ f[x] \in Int /\ g[x] \in Int
  BY <1>5, <1>6, SumIsInt
<1>9. n \in Nat /\ Cardinality(R) = n + 1
  <2>1. n \in Nat /\ Cardinality(R) \in Nat
    BY <1>6, FS_CardinalityType
  <2>2. Cardinality(R \ {First(R)}) = Cardinality(R) - 1
    BY <1>5, <1>6, FS_RemoveElement
  <2>3. QED
    BY <2>1, <2>2 DEF Rest
<1>10. -e <= a * f[x] - c * g[x] /\ a * f[x] - c * g[x] <= e
  BY <1>5
<1>11. -(n * e) <= a * F - c * G /\ a * F - c * G <= n * e
  BY <1>5
<1>12. ~(-((n + 1) * e) <= a * (f[x] + F) - c * (g[x] + G) /\ a * (f[x] + F) - c * (g[x] + G) <= (n + 1) * e)
  BY <1>3, <1>7, <1>9
<1> HIDE DEF x, n, F, G, Bad, Near, Off
<1>13. a * (f[x] + F) = a * f[x] + a * F /\ c * (g[x] + G) = c * g[x] + c * G /\ (n + 1) * e = n * e + e
  BY <1>8, <1>9
<1>14. a * f[x] \in Int /\ a * F \in Int /\ c * g[x] \in Int /\ c * G \in Int /\ n * e \in Int
  BY <1>8, <1>9
<1>15. QED
  BY <1>10, <1>11, <1>12, <1>13, <1>14

(* A sum is the sum of a part of it and of the others.                     *)
LEMMA SumInParts ==
  ASSUME NEW f, NEW S, IsFiniteSet(S), \A i \in S : f[i] \in Int, NEW M \in SUBSET S
  PROVE  Sum(f, S) = Sum(f, M) + Sum(f, S \ M)
<1> DEFINE Bad == {R \in SUBSET S : Sum(f, S) # Sum(f, R) + Sum(f, S \ R)}
<1>1. SUFFICES ASSUME Bad # {} PROVE FALSE
  OBVIOUS
<1>2. Bad \in SUBSET FiniteSubsetsOf(S)
  BY FS_Subset DEF FiniteSubsetsOf
<1>3. PICK R \in Bad : \A Y \in Bad : Y \subseteq R => Y = R
  <2> HIDE DEF Bad
  <2>1. QED
    BY <1>1, <1>2, SmallestSet
<1>4. Sum(f, S) \in Int
  BY SumIsInt
<1>5. R # {}
  <2>1. Sum(f, S) # Sum(f, R) + Sum(f, S \ R)
    BY <1>3
  <2>2. S \ {} = S /\ Sum(f, {}) = 0
    BY SumOfNone
  <2> HIDE DEF Bad
  <2>3. SUFFICES ASSUME R = {} PROVE FALSE
    OBVIOUS
  <2>4. Sum(f, S) # 0 + Sum(f, S)
    BY <2>1, <2>2, <2>3
  <2>5. QED
    BY <1>4, <2>4
<1>6. PICK x \in R : x = First(R)
  BY <1>5, RestIsLess
<1>7. R \in SUBSET S /\ Sum(f, S) # Sum(f, R) + Sum(f, S \ R)
  BY <1>3
<1>8. R \ {x} \in SUBSET S /\ R \ {x} # R /\ R \ {x} \subseteq R
  BY <1>6, <1>7
<1>9. Sum(f, S) = Sum(f, R \ {x}) + Sum(f, S \ (R \ {x}))
  BY <1>3, <1>8
<1> HIDE DEF Bad
<1>10. IsFiniteSet(R) /\ IsFiniteSet(S \ R) /\ IsFiniteSet(S \ (R \ {x})) /\ IsFiniteSet(R \ {x})
  BY <1>7, <1>8, FS_Subset
<1>11. Sum(f, R) = f[x] + Sum(f, R \ {x})
  BY <1>6, <1>7, <1>10, SumWithout
<1>12. Sum(f, S \ (R \ {x})) = f[x] + Sum(f, S \ R)
  <2>1. (S \ (R \ {x})) \ {x} = S \ R /\ x \in S \ (R \ {x}) /\ \A i \in S \ (R \ {x}) : f[i] \in Int
    BY <1>6, <1>7
  <2>2. QED
    BY <2>1, <1>10, SumWithout
<1>13. Sum(f, R \ {x}) \in Int /\ Sum(f, S \ R) \in Int /\ f[x] \in Int
  <2>1. (\A i \in R \ {x} : f[i] \in Int) /\ (\A i \in S \ R : f[i] \in Int) /\ f[x] \in Int
    BY <1>7
  <2>2. QED
    BY <2>1, <1>10, SumIsInt
<1>14. QED
  BY <1>7, <1>9, <1>11, <1>12, <1>13

LEMMA SumOfZeros == ASSUME NEW f, NEW S, IsFiniteSet(S), \A i \in S : f[i] = 0 PROVE Sum(f, S) = 0
<1> DEFINE Bad == {R \in SUBSET S : Sum(f, R) # 0}
<1>1. SUFFICES ASSUME Bad # {} PROVE FALSE
  OBVIOUS
<1>2. Bad \in SUBSET FiniteSubsetsOf(S)
  BY FS_Subset DEF FiniteSubsetsOf
<1>3. PICK R \in Bad : \A Y \in Bad : Y \subseteq R => Y = R
  <2> HIDE DEF Bad
  <2>1. QED
    BY <1>1, <1>2, SmallestSet
<1>4. R # {}
  <2>1. Sum(f, R) # 0
    BY <1>3
  <2>2. QED
    BY <2>1, SumOfNone
<1>5. First(R) \in S /\ Rest(R) \in SUBSET S /\ Rest(R) \notin Bad
  BY <1>3, <1>4, RestIsLess
<1>6. Sum(f, R) = f[First(R)] + Sum(f, Rest(R))
  BY <1>4, SumByFirst, FS_Subset
<1>7. QED
  BY <1>5, <1>6, <1>3

LEMMA SumOfOne == ASSUME NEW f, NEW a, f[a] \in Int PROVE Sum(f, {a}) = f[a]
<1>1. IsFiniteSet({a}) /\ {a} \ {a} = {}
  BY FS_Singleton
<1>2. Sum(f, {a}) = f[a] + Sum(f, {a} \ {a})
  BY <1>1, SumWithout
<1>3. QED
  BY <1>1, <1>2, SumOfNone

LEMMA SumOfTwo == ASSUME NEW f, NEW a, NEW b, a # b, f[a] \in Int, f[b] \in Int PROVE Sum(f, {a, b}) = f[a] + f[b]
<1>1. IsFiniteSet({a, b}) /\ {a, b} \ {a} = {b}
  <2>1. IsFiniteSet({a}) /\ {a, b} = {a} \cup {b}
    BY FS_Singleton
  <2>2. IsFiniteSet({a} \cup {b})
    BY <2>1, FS_AddElement
  <2>3. QED
    BY <2>1, <2>2
<1>2. Sum(f, {a, b}) = f[a] + Sum(f, {a, b} \ {a})
  BY <1>1, SumWithout
<1>3. QED
  BY <1>1, <1>2, SumOfOne

-----------------------------------------------------------------------------
(* Money: shares, discounts and taxes are rounded, and add up still         *)

(* Rounding is off by a half at most.                                      *)
LEMMA RoundedIs ==
  ASSUME NEW n \in Nat, NEW d \in Nat \ {0}
  PROVE  /\ Rounded(n, d) \in Nat
         /\ (2 * d) * Rounded(n, d) <= 2 * n + d /\ 2 * n + d < (2 * d) * Rounded(n, d) + 2 * d
<1> DEFINE a == 2 * n + d
           b == 2 * d
<1>1. a \in Nat /\ b \in Nat \ {0} /\ Rounded(n, d) = a \div b
  BY DEF Rounded
<1> HIDE DEF a, b
<1>2. a \div b \in Int /\ b * (a \div b) <= a /\ a < b * (a \div b) + b
  BY <1>1
<1>3. a \div b >= 0
  BY <1>1, <1>2
<1>4. QED
  BY <1>1, <1>2, <1>3 DEF a, b

LEMMA HalfUpIsInt == ASSUME NEW n \in Int, NEW d \in Nat \ {0} PROVE HalfUp(n, d) \in Int
<1>1. CASE n < 0
  <2>1. -n \in Nat
    BY <1>1
  <2>2. Rounded(-n, d) \in Nat
    BY <2>1, RoundedIs
  <2>3. QED
    BY <1>1, <2>2 DEF HalfUp
<1>2. CASE ~(n < 0)
  <2>1. Rounded(n, d) \in Nat
    BY <1>2, RoundedIs
  <2>2. QED
    BY <1>2, <2>1 DEF HalfUp
<1>3. QED
  BY <1>1, <1>2

(* A part of a whole, rounded, is of the whole still.                       *)
LEMMA PartIs ==
  ASSUME NEW v \in Nat, NEW cap \in Nat, NEW all \in Nat \ {0}, cap <= all
  PROVE  /\ HalfUp(cap * v, all) \in 0 .. v
         /\ -all <= (2 * all) * HalfUp(cap * v, all) - (2 * cap) * v
         /\ (2 * all) * HalfUp(cap * v, all) - (2 * cap) * v <= all
<1> DEFINE n == cap * v
           q == HalfUp(n, all)
<1>1. n \in Nat
  OBVIOUS
<1>2. n <= all * v
  OBVIOUS
<1> HIDE DEF n
<1>3. q = Rounded(n, all)
  BY <1>1 DEF HalfUp
<1>4. q \in Nat /\ (2 * all) * q <= 2 * n + all /\ 2 * n + all < (2 * all) * q + 2 * all
  BY <1>1, <1>3, RoundedIs
<1> HIDE DEF q
<1>5. (2 * all) * q \in Int /\ (2 * cap) * v = 2 * n
  BY <1>4 DEF n
<1>6. q <= v
  <2>1. SUFFICES ASSUME q >= v + 1 PROVE FALSE
    BY <1>4
  <2>2. (2 * all) * q >= (2 * all) * (v + 1)
    BY <1>4, <2>1
  <2>3. (2 * all) * (v + 1) = 2 * (all * v) + 2 * all /\ all * v \in Nat
    OBVIOUS
  <2>4. QED
    BY <1>1, <1>2, <1>4, <1>5, <2>2, <2>3
<1>7. QED
  BY <1>1, <1>4, <1>5, <1>6 DEF q, n

(* The greatest of some indices.                                           *)
LEMMA GreatestExists ==
  ASSUME NEW n \in Nat, NEW S \in SUBSET (1 .. n), S # {}
  PROVE  Max(S) \in S /\ \A y \in S : y <= Max(S)
<1> DEFINE Back == {n - i : i \in S}
<1>1. Back \in SUBSET Nat /\ Back # {}
  <2>1. \A i \in S : n - i \in Nat
    OBVIOUS
  <2>2. QED
    BY <2>1
<1>2. Min(Back) \in Back /\ \A y \in Back : Min(Back) <= y
  BY <1>1, LeastExists
<1>3. PICK i \in S : Min(Back) = n - i
  BY <1>2
<1>4. \A y \in S : i >= y
  <2> TAKE y \in S
  <2>1. n - i <= n - y
    BY <1>2, <1>3
  <2>2. i \in Int /\ y \in Int
    OBVIOUS
  <2>3. QED
    BY <2>1, <2>2
<1>5. QED
  BY <1>4 DEF Max

LEMMA Cancelled == ASSUME NEW a \in Nat \ {0}, NEW x \in Int, NEW y \in Int, a * x <= a * y PROVE x <= y
<1>1. SUFFICES ASSUME x >= y + 1 PROVE FALSE
  OBVIOUS
<1>2. a * x >= a * (y + 1)
  BY <1>1
<1>3. a * (y + 1) = a * y + a /\ a * y \in Int /\ a * x \in Int
  OBVIOUS
<1>4. QED
  BY <1>2, <1>3

LEMMA HalfOf == ASSUME NEW n \in Nat \ {0} PROVE (n - 1) \div 2 \in Nat /\ n - 1 <= 2 * ((n - 1) \div 2) + 1
OBVIOUS

LEMMA AtLeastOne == ASSUME NEW S, IsFiniteSet(S), NEW x \in S PROVE Cardinality(S) \in Nat \ {0}
BY FS_EmptySet, FS_CardinalityType

LEMMA ValuesLess ==
  ASSUME NEW values, NEW mask, IsFiniteSet(mask), \A i \in mask : values[i] \in Int, NEW last \in mask
  PROVE  Sum(values, mask) = values[last] + Sum(values, mask \ {last})
BY SumWithout

(* The shares of a discount that is not more than what it is for: they add *)
(* up to it, and none is further from its line than the lines before may   *)
(* have been rounded.                                                      *)
LEMMA SharesAddUp ==
  ASSUME NEW n \in Nat, NEW D, IsFiniteSet(D), Cardinality(D) = n,
         NEW values, DOMAIN values = D, \A i \in D : values[i] \in Nat,
         NEW mask \in SUBSET D, mask # {} => Max(mask) \in mask, NEW share \in Nat, share <= Sum(values, mask)
  PROVE  LET shares == AllocateShares(values, share, mask)
         IN  /\ DOMAIN shares = D /\ Sum(shares, D) = share
             /\ \A i \in D : /\ shares[i] \in Int /\ -((n - 1) \div 2) <= shares[i]
                                  /\ shares[i] <= values[i] + (n - 1) \div 2
<1> DEFINE all == Sum(values, mask)
           cap == Least(AtLeastZero(share), all)
           parts == SharesRounded(values, share, mask)
           last == Max(mask)
           shares == AllocateShares(values, share, mask)
           others == mask \ {last}
           slack == (n - 1) \div 2
<1>1. IsFiniteSet(D) /\ IsFiniteSet(mask) /\ IsFiniteSet(others)
  BY FS_Subset
<1>2. all \in Nat
  BY <1>1, SumIsNat
<1>3. cap = share
  BY <1>2 DEF Least, AtLeastZero
<1>4. CASE mask = {} \/ share = 0
  <2>1. share = 0
    <3>1. mask = {} => all = 0
      BY SumOfNone
    <3>2. share <= all
      OBVIOUS
    <3> HIDE DEF all
    <3>3. QED
      BY <1>4, <3>1, <3>2
  <2>2. shares = [i \in D |-> 0]
    BY <1>3, <2>1 DEF AllocateShares
  <2>3. Sum(shares, D) = 0
    BY <1>1, <2>2, SumOfZeros
  <2>4. ASSUME NEW i \in D PROVE shares[i] = 0 /\ -slack <= 0 /\ 0 <= values[i] + slack
    <3>1. slack \in Nat /\ values[i] \in Nat
      BY AtLeastOne, HalfOf
    <3>2. QED
      BY <2>2, <3>1
  <2>5. QED
    BY <2>1, <2>2, <2>3, <2>4
<1>5. CASE mask # {} /\ share > 0
  <2>1. /\ DOMAIN shares = D /\ \A i \in D : shares[i] = IF i = last THEN share - Sum(parts, others) ELSE parts[i]
    <3>1. DOMAIN parts = D
      BY DEF SharesRounded
    <3>2. shares = IF mask = {} \/ cap <= 0 THEN [i \in DOMAIN values |-> 0]
                   ELSE [parts EXCEPT ![last] = cap - Sum(parts, others)]
      BY DEF AllocateShares
    <3> HIDE DEF parts, shares, last, others, cap
    <3>3. QED
      BY <1>3, <1>5, <3>1, <3>2
  <2>2. last \in mask /\ last \in D
    BY <1>5
  <2>3. all \in Nat \ {0} /\ share <= all
    BY <1>2, <1>5
  <2>4. /\ \A i \in D \ mask : parts[i] = 0
        /\ \A i \in mask : parts[i] = HalfUp(share * values[i], all)
    BY <1>3, <1>5 DEF SharesRounded
  <2> HIDE DEF shares, parts, all, cap, last, slack, others
  <2>5. ASSUME NEW i \in mask
        PROVE  /\ parts[i] \in 0 .. values[i]
               /\ -all <= (2 * all) * parts[i] - (2 * share) * values[i]
               /\ (2 * all) * parts[i] - (2 * share) * values[i] <= all
    <3>1. values[i] \in Nat
      OBVIOUS
    <3>2. QED
      BY <2>3, <2>4, <3>1, PartIs
  <2>6. \A i \in others : i # last /\ i \in mask /\ parts[i] \in Int /\ values[i] \in Int
    BY <2>5 DEF others
  <2>7. Sum(parts, others) \in Int /\ Sum(values, others) \in Int
    BY <1>1, <2>6, SumIsInt
  <2>8. \A i \in D : shares[i] \in Int
    BY <2>1, <2>4, <2>5, <2>7
  <2>9. Sum(shares, D) = share
    <3>1. IsFiniteSet(D \ mask) /\ \A i \in D \ mask : shares[i] = 0
      BY <1>1, <2>1, <2>2, <2>4, FS_Subset
    <3>2. \A i \in others : shares[i] = parts[i]
      BY <2>1 DEF others
    <3>3. shares[last] = share - Sum(parts, others)
      BY <2>1, <2>2
    <3>4. Sum(shares, D) = Sum(shares, mask) + Sum(shares, D \ mask)
      BY <1>1, <2>8, SumInParts
    <3>5. Sum(shares, D \ mask) = 0
      BY <3>1, SumOfZeros
    <3>6. Sum(shares, mask) = shares[last] + Sum(shares, others)
      <4>1. \A i \in mask : shares[i] \in Int
        BY <2>8
      <4>2. QED
        BY <1>1, <2>2, <4>1, SumWithout DEF others
    <3>7. Sum(shares, others) = Sum(parts, others)
      BY <1>1, <3>2, SumOfEquals
    <3>8. QED
      BY <2>7, <3>3, <3>4, <3>5, <3>6, <3>7
  <2>10. slack \in Nat /\ n - 1 <= 2 * slack + 1
    BY <2>2, AtLeastOne, HalfOf DEF slack
  <2>11. ASSUME NEW i \in D, i # last PROVE -slack <= shares[i] /\ shares[i] <= values[i] + slack
    <3>1. shares[i] = parts[i] /\ values[i] \in Nat /\ (parts[i] = 0 \/ parts[i] \in 0 .. values[i])
      BY <2>1, <2>4, <2>5, <2>11
    <3>2. QED
      BY <2>10, <3>1
  <2>12. -slack <= shares[last] /\ shares[last] <= values[last] + slack
    <3> DEFINE k == Cardinality(others)
               v == values[last]
               p == shares[last]
               P == Sum(parts, others)
               V == Sum(values, others)
    <3>1. k \in Nat /\ k <= n - 1
      <4>1. Cardinality(mask \ {last}) = Cardinality(mask) - 1 /\ Cardinality(mask) \in Nat /\ k \in Nat
        BY <1>1, <2>2, FS_RemoveElement, FS_CardinalityType DEF others
      <4>2. IsFiniteSet(D) /\ mask \in SUBSET (D)
        BY <1>1
      <4>3. Cardinality(mask) <= Cardinality(D)
        BY <4>2, FS_Subset
      <4>4. QED
        BY <1>1, <4>1, <4>3 DEF others
    <3>2. -(k * all) <= (2 * all) * P - (2 * share) * V /\ (2 * all) * P - (2 * share) * V <= k * all
      <4>1. \A i \in others : /\ parts[i] \in Int /\ values[i] \in Int
                              /\ -all <= (2 * all) * parts[i] - (2 * share) * values[i]
                              /\ (2 * all) * parts[i] - (2 * share) * values[i] <= all
        BY <2>5, <2>6
      <4>2. 2 * all \in Int /\ 2 * share \in Int /\ all \in Int
        BY <2>3
      <4>3. QED
        BY <1>1, <4>1, <4>2, SumNearShare
    <3>3. p = share - P /\ all = v + V /\ v \in Nat /\ p \in Int /\ P \in Int /\ V \in Int
      <4>1. all = v + V
        <5>1. \A i \in mask : values[i] \in Int
          OBVIOUS
        <5>2. QED
          BY <1>1, <2>2, <5>1, ValuesLess DEF all, others
      <4>2. p = share - P /\ v \in Nat /\ P \in Int /\ V \in Int
        BY <2>1, <2>2, <2>7
      <4>3. QED
        BY <4>1, <4>2
    <3> HIDE DEF k, v, p, P, V
    <3>4. (2 * all) * P = (2 * all) * share - (2 * all) * p
      <4>1. P = share - p
        BY <3>3
      <4>2. QED
        BY <2>3, <3>3, <4>1
    <3>5. (2 * share) * V = (2 * all) * share - (2 * share) * v
      <4>1. V = all - v
        BY <2>3, <3>3
      <4>2. (2 * share) * (all - v) = (2 * share) * all - (2 * share) * v /\ (2 * share) * all = (2 * all) * share
        BY <2>3, <3>3
      <4>3. QED
        BY <4>1, <4>2
    <3>6. (2 * share) * v \in Nat /\ (2 * share) * v <= (2 * all) * v
      BY <2>3, <3>3
    <3>7. /\ (2 * all) * P \in Int /\ (2 * all) * p \in Int /\ (2 * all) * share \in Int /\ (2 * share) * V \in Int
          /\ (2 * all) * v \in Int /\ k * all \in Int
      BY <2>3, <3>1, <3>3
    <3>8. -(k * all) <= (2 * all) * p /\ (2 * all) * p <= (2 * all) * v + k * all
      BY <3>2, <3>4, <3>5, <3>6, <3>7
    <3>9. all * (-k) <= all * (2 * p) /\ all * (2 * p) <= all * (2 * v + k)
      <4>1. all * (-k) = -(k * all) /\ all * (2 * p) = (2 * all) * p /\ all * (2 * v + k) = (2 * all) * v + k * all
        BY <2>3, <3>1, <3>3
      <4>2. QED
        BY <3>8, <4>1
    <3>10. -k <= 2 * p /\ 2 * p <= 2 * v + k
      BY <2>3, <3>1, <3>3, <3>9, Cancelled
    <3>11. -slack <= p /\ p <= v + slack
      BY <2>10, <3>1, <3>3, <3>10
    <3>12. QED
      BY <3>11 DEF p, v
  <2>13. QED
    BY <2>1, <2>8, <2>9, <2>11, <2>12 DEF slack, shares
<1>6. QED
  BY <1>4, <1>5

(* What the lines of an order are worth.                                   *)
Worth(lines) == [i \in DOMAIN lines |-> lines[i].price * lines[i].quantity]
Whole(lines) == IsSeq(lines) /\ \A i \in DOMAIN lines : lines[i].price \in Nat /\ lines[i].quantity \in Nat

LEMMA WorthIs ==
  ASSUME NEW lines, Whole(lines)
  PROVE  /\ IsFiniteSet(DOMAIN lines) /\ Cardinality(DOMAIN lines) \in Nat
         /\ DOMAIN Worth(lines) = DOMAIN lines /\ \A i \in DOMAIN lines : Worth(lines)[i] \in Nat
<1>1. Len(lines) \in Nat /\ DOMAIN lines = 1 .. Len(lines)
  BY SequenceIs DEF Whole
<1>2. IsFiniteSet(DOMAIN lines) /\ Cardinality(DOMAIN lines) \in Nat
  BY <1>1, FS_Interval, FS_CardinalityType
<1>3. ASSUME NEW i \in DOMAIN lines PROVE Worth(lines)[i] \in Nat
  <2>1. lines[i].price \in Nat /\ lines[i].quantity \in Nat
    BY DEF Whole
  <2>2. QED
    BY <2>1 DEF Worth
<1>4. QED
  BY <1>2, <1>3 DEF Worth

LEMMA TotalsAreOfWorth ==
  ASSUME NEW lines, NEW c
  PROVE  /\ Subtotal(lines) = Sum(Worth(lines), DOMAIN lines)
         /\ Eligible(c, lines) = Sum(Worth(lines), MaskOf(c, lines)) /\ MaskOf(c, lines) \in SUBSET DOMAIN lines
BY DEF Subtotal, Eligible, Worth, MaskOf

LEMMA MaskHasGreatest ==
  ASSUME NEW lines, Whole(lines), NEW mask \in SUBSET DOMAIN lines, mask # {}
  PROVE  Max(mask) \in mask
<1>1. Len(lines) \in Nat /\ DOMAIN lines = 1 .. Len(lines)
  BY SequenceIs DEF Whole
<1>2. QED
  BY <1>1, GreatestExists

LEMMA SubtotalIs ==
  ASSUME NEW lines, Whole(lines), NEW c
  PROVE  Subtotal(lines) \in Nat /\ Eligible(c, lines) \in Nat /\ Eligible(c, lines) <= Subtotal(lines)
<1> DEFINE D == DOMAIN lines
           M == MaskOf(c, lines)
           worth == Worth(lines)
<1>1. IsFiniteSet(D) /\ M \in SUBSET D /\ \A i \in D : worth[i] \in Nat
  BY WorthIs, TotalsAreOfWorth
<1>2. IsFiniteSet(M) /\ IsFiniteSet(D \ M)
  BY <1>1, FS_Subset
<1>3. Subtotal(lines) = Sum(worth, D) /\ Eligible(c, lines) = Sum(worth, M)
  BY TotalsAreOfWorth
<1> HIDE DEF D, M, worth
<1>4. Sum(worth, D) \in Nat /\ Sum(worth, M) \in Nat /\ Sum(worth, D \ M) \in Nat
  BY <1>1, <1>2, SumIsNat
<1>5. \A i \in D : worth[i] \in Int
  BY <1>1
<1>6. Sum(worth, D) = Sum(worth, M) + Sum(worth, D \ M)
  BY <1>1, <1>5, SumInParts
<1>7. QED
  BY <1>3, <1>4, <1>6

(* A coupon that an edit may make gives no more than what it is for.       *)
LEMMA DiscountIsWithin ==
  ASSUME NEW lines, Whole(lines), NEW c, ValidCoupon(c), c.amount \in Int
  PROVE  ComputeDiscount(c, lines) \in Nat /\ ComputeDiscount(c, lines) <= Eligible(c, lines)
<1> DEFINE E == Eligible(c, lines)
           S == Subtotal(lines)
           a == c.amount
           first == IF c.indicator = "PERCENT" THEN HalfUp(E * a, 100) ELSE Least(100 * a, E)
<1>1. E \in Nat /\ S \in Nat /\ E <= S
  BY SubtotalIs
<1>2. a \in Nat \ {0} /\ (c.indicator = "PERCENT" => a <= 100)
  BY DEF ValidCoupon
<1> HIDE DEF E, S, a
<1>3. first \in Nat /\ first <= E
  <2>1. CASE c.indicator = "PERCENT"
    <3>1. HalfUp(a * E, 100) \in 0 .. E
      BY <1>1, <1>2, <2>1, PartIs
    <3>2. a * E = E * a
      BY <1>1, <1>2
    <3>3. QED
      BY <1>1, <2>1, <3>1, <3>2
  <2>2. CASE c.indicator # "PERCENT"
    BY <1>1, <1>2, <2>2 DEF Least
  <2>3. QED
    BY <2>1, <2>2
<1>4. ComputeDiscount(c, lines) = Least(first, S)
  BY DEF ComputeDiscount, E, S, a
<1> HIDE DEF first
<1>5. QED
  BY <1>1, <1>3, <1>4 DEF Least, E

(* What an order says of its lines: it was charged for them.               *)
Costs(o) ==
  /\ Whole(o.lines) /\ o.shipping \in Nat /\ o.subtotal = Subtotal(o.lines)
  /\ o.total = AtLeastZero(Subtotal(o.lines) - o.discount + o.shipping)
  /\ \/ o.applied = NoCoupon /\ o.discount = 0
     \/ o.applied # NoCoupon /\ o.applied.amount \in Int /\ o.discount = ComputeDiscount(o.applied, o.lines)

LEMMA OrderSharesAddUp ==
  ASSUME NEW o, Costs(o), o.applied = NoCoupon \/ ValidCoupon(o.applied)
  PROVE  /\ o.discount \in Nat /\ o.discount <= Subtotal(o.lines)
         /\ DOMAIN LineShares(o) = DOMAIN o.lines /\ Sum(LineShares(o), DOMAIN o.lines) = o.discount
         /\ \A i \in DOMAIN o.lines :
              /\ LineShares(o)[i] \in Int /\ -((Cardinality(DOMAIN o.lines) - 1) \div 2) <= LineShares(o)[i]
              /\ LineShares(o)[i] <= Worth(o.lines)[i] + (Cardinality(DOMAIN o.lines) - 1) \div 2
<1> DEFINE lines == o.lines
           D == DOMAIN lines
           mask == MaskOf(o.applied, lines)
<1>1. Whole(lines) /\ Subtotal(lines) \in Nat /\ Eligible(o.applied, lines) \in Nat /\ Eligible(o.applied, lines) <= Subtotal(lines)
  BY SubtotalIs DEF Costs
<1>2. o.discount \in Nat /\ o.discount <= Eligible(o.applied, lines)
  <2>1. CASE o.applied = NoCoupon /\ o.discount = 0
    BY <1>1, <2>1
  <2>2. CASE o.applied # NoCoupon /\ o.applied.amount \in Int /\ o.discount = ComputeDiscount(o.applied, lines)
    BY <1>1, <2>2, DiscountIsWithin
  <2>3. QED
    BY <2>1, <2>2 DEF Costs
<1>3. Eligible(o.applied, lines) = Sum(Worth(lines), mask) /\ mask \in SUBSET D
  BY TotalsAreOfWorth
<1>4. IsFiniteSet(D) /\ Cardinality(D) \in Nat /\ DOMAIN Worth(lines) = D /\ \A i \in D : Worth(lines)[i] \in Nat
  BY <1>1, WorthIs
<1>5. mask # {} => Max(mask) \in mask
  BY <1>1, <1>3, MaskHasGreatest
<1>6. LineShares(o) = AllocateShares(Worth(lines), o.discount, mask)
  BY DEF LineShares, Worth
<1>7. o.discount <= Sum(Worth(lines), mask)
  BY <1>2, <1>3
<1> HIDE DEF D, mask
<1>8. /\ DOMAIN LineShares(o) = D /\ Sum(LineShares(o), D) = o.discount
      /\ \A i \in D :
           /\ LineShares(o)[i] \in Int /\ -((Cardinality(D) - 1) \div 2) <= LineShares(o)[i]
           /\ LineShares(o)[i] <= Worth(lines)[i] + (Cardinality(D) - 1) \div 2
  BY <1>2, <1>3, <1>4, <1>5, <1>6, <1>7, SharesAddUp
<1>9. QED
  BY <1>1, <1>2, <1>8 DEF D

LEMMA RateIs == ASSUME NEW region PROVE RateFor(region) \in Nat
BY PricingAssumption DEF RateFor

(* A row of a document: what is left of the line is the taxable value and   *)
(* the taxes of the columns there are.                                     *)
LEMMA RowAddsUp ==
  ASSUME NEW o, NEW document \in Documents, NEW i \in DOMAIN o.lines,
         Worth(o.lines)[i] \in Int, LineShares(o)[i] \in Int
  PROVE  LET row == TaxLines(o, document)[i]
         IN  /\ row.gross = Worth(o.lines)[i] /\ row.net = Worth(o.lines)[i] - LineShares(o)[i]
             /\ row.taxable + Sum(row, TaxColumns(o, document)) = row.net
<1> DEFINE region == TaxRegion(o.place)
           rate == RateFor(region)
           split == document # "bill_of_supply" /\ rate > 0
           india == split /\ region = "IN"
           intra == IntraState(o.place)
           gross == Worth(o.lines)[i]
           net == gross - LineShares(o)[i]
           taxable == IF split THEN HalfUp(1000 * net, 1000 + rate) ELSE net
           tax == net - taxable
           half == HalfUp(tax, 2)
           row == TaxLines(o, document)[i]
<1>1. row = [gross |-> gross, net |-> net, taxable |-> taxable,
             cgst |-> IF india /\ intra THEN half ELSE 0,
             sgst |-> IF india /\ intra THEN tax - half ELSE 0,
             igst |-> IF india /\ ~intra THEN tax ELSE 0,
             gst |-> IF split /\ ~india THEN tax ELSE 0]
  BY SMTT(30) DEF TaxLines, Worth
<1>2. rate \in Nat /\ net \in Int
  BY RateIs
<1> HIDE DEF rate, net, row
<1>3. taxable \in Int
  BY <1>2, HalfUpIsInt
<1> HIDE DEF taxable
<1>4. tax \in Int
  BY <1>2, <1>3
<1> HIDE DEF tax
<1>5. half \in Int
  BY <1>4, HalfUpIsInt
<1> HIDE DEF half
<1>6. /\ row.gross = gross /\ row.net = net /\ row.taxable = taxable
      /\ row["cgst"] = IF india /\ intra THEN half ELSE 0
      /\ row["sgst"] = IF india /\ intra THEN tax - half ELSE 0
      /\ row["igst"] = IF india /\ ~intra THEN tax ELSE 0
      /\ row["gst"] = IF split /\ ~india THEN tax ELSE 0
  BY <1>1
<1>7. ~split => taxable = net
  BY DEF taxable
<1>8. taxable + tax = net
  BY <1>2, <1>3 DEF tax
<1> DEFINE columns == TaxColumns(o, document)
<1>9. \/ columns = {} /\ ~split
      \/ columns = {"cgst", "sgst"} /\ region = "IN" /\ intra
      \/ columns = {"igst"} /\ region = "IN" /\ ~intra
      \/ columns = {"gst"} /\ region # "IN"
  <2> DEFINE show == document # "bill_of_supply" /\
                     (rate > 0 \/ (document = "tax_invoice" /\ TaxInvoiceEligible(o.place)))
  <2>1. columns = CASE ~show -> {}
                    [] show /\ region = "IN" /\ intra -> {"cgst", "sgst"}
                    [] show /\ region = "IN" /\ ~intra -> {"igst"}
                    [] show /\ region # "IN" -> {"gst"}
    BY DEF TaxColumns, rate
  <2>2. ~show => ~split
    OBVIOUS
  <2> HIDE DEF show, columns, split, intra, region
  <2>3. QED
    BY <2>1, <2>2
<1> HIDE DEF columns, region, intra, gross
<1>10. CASE columns = {} /\ ~split
  BY <1>2, <1>6, <1>7, <1>10, SumOfNone DEF row, columns, net, gross
<1>11. CASE columns = {"cgst", "sgst"} /\ region = "IN" /\ intra
  <2>1. row["cgst"] \in Int /\ row["sgst"] \in Int /\ row["cgst"] + row["sgst"] = IF split THEN tax ELSE 0
    BY <1>4, <1>5, <1>6, <1>11
  <2>2. Sum(row, {"cgst", "sgst"}) = row["cgst"] + row["sgst"]
    BY <2>1, SumOfTwo
  <2>3. taxable + Sum(row, columns) = net
    BY <1>2, <1>7, <1>8, <1>11, <2>1, <2>2
  <2>4. QED
    BY <1>6, <2>3 DEF row, columns, net, gross
<1>12. CASE columns = {"igst"} /\ region = "IN" /\ ~intra
  <2>1. row["igst"] \in Int /\ row["igst"] = IF split THEN tax ELSE 0
    BY <1>4, <1>6, <1>12
  <2>2. Sum(row, {"igst"}) = row["igst"]
    BY <2>1, SumOfOne
  <2>3. taxable + Sum(row, columns) = net
    BY <1>2, <1>7, <1>8, <1>12, <2>1, <2>2
  <2>4. QED
    BY <1>6, <2>3 DEF row, columns, net, gross
<1>13. CASE columns = {"gst"} /\ region # "IN"
  <2>1. row["gst"] \in Int /\ row["gst"] = IF split THEN tax ELSE 0
    BY <1>4, <1>6, <1>13
  <2>2. Sum(row, {"gst"}) = row["gst"]
    BY <2>1, SumOfOne
  <2>3. taxable + Sum(row, columns) = net
    BY <1>2, <1>7, <1>8, <1>13, <2>1, <2>2
  <2>4. QED
    BY <1>6, <2>3 DEF row, columns, net, gross
<1>14. QED
  BY <1>9, <1>10, <1>11, <1>12, <1>13

LEMMA CostsAddUp ==
  ASSUME NEW o, Costs(o), o.applied = NoCoupon \/ ValidCoupon(o.applied), NEW document \in Documents
  PROVE  AddsUp([order |-> o, rows |-> TaxLines(o, document), columns |-> TaxColumns(o, document)])
<1> DEFINE D == DOMAIN o.lines
           rows == TaxLines(o, document)
           worth == Worth(o.lines)
           shares == LineShares(o)
           nets == [i \in DOMAIN rows |-> rows[i]["net"]]
           slack == (Cardinality(D) - 1) \div 2
<1>1. /\ o.discount \in Nat /\ o.discount <= Subtotal(o.lines) /\ Sum(shares, D) = o.discount
      /\ \A i \in D : shares[i] \in Int /\ -slack <= shares[i] /\ shares[i] <= worth[i] + slack
  BY OrderSharesAddUp
<1>2. IsFiniteSet(D) /\ \A i \in D : worth[i] \in Nat
  BY WorthIs DEF Costs
<1>3. DOMAIN rows = D
  BY DEF TaxLines
<1>4. ASSUME NEW i \in D
      PROVE  /\ rows[i].gross = worth[i] /\ rows[i].net = worth[i] - shares[i]
             /\ rows[i].taxable + Sum(rows[i], TaxColumns(o, document)) = rows[i].net
  <2>1. worth[i] \in Int /\ shares[i] \in Int
    BY <1>1, <1>2
  <2>2. QED
    BY <2>1, RowAddsUp
<1>5. Subtotal(o.lines) = Sum(worth, D) /\ Subtotal(o.lines) \in Nat
  BY TotalsAreOfWorth, SubtotalIs DEF Costs
<1>6. /\ o.subtotal = Subtotal(o.lines) /\ o.shipping \in Nat
      /\ o.total = AtLeastZero(Subtotal(o.lines) - o.discount + o.shipping)
  BY DEF Costs
<1>7. CommercialTotal(rows, "gross") = o.subtotal
  <2>1. CommercialTotal(rows, "gross") = Sum([i \in D |-> rows[i]["gross"]], D)
    BY <1>3 DEF CommercialTotal
  <2>2. \A i \in D : [j \in D |-> rows[j]["gross"]][i] = worth[i]
    BY <1>4
  <2>3. Sum([i \in D |-> rows[i]["gross"]], D) = Sum(worth, D)
    BY <1>2, <2>2, SumOfEquals
  <2>4. QED
    BY <1>5, <1>6, <2>1, <2>3
<1>8. CommercialTotal(rows, "net") + o.shipping = o.total
  <2>1. CommercialTotal(rows, "net") = Sum(nets, D)
    BY <1>3 DEF CommercialTotal
  <2>2. \A i \in D : nets[i] \in Int /\ shares[i] \in Int /\ worth[i] = nets[i] + shares[i]
    <3> TAKE i \in D
    <3>1. nets[i] = rows[i].net
      BY <1>3
    <3>2. shares[i] \in Int /\ worth[i] \in Nat /\ rows[i].net = worth[i] - shares[i]
      BY <1>1, <1>2, <1>4
    <3> HIDE DEF nets, shares, worth, rows
    <3>3. QED
      BY <3>1, <3>2
  <2> HIDE DEF nets, shares, worth, rows, D
  <2>3. Sum(worth, D) = Sum(nets, D) + Sum(shares, D)
    BY <1>2, <2>2, SumOfSums
  <2>4. Sum(nets, D) \in Int
    BY <1>2, <2>2, SumIsInt
  <2>5. o.total = Sum(nets, D) + o.shipping
    BY <1>1, <1>5, <1>6, <2>3, <2>4 DEF AtLeastZero
  <2>6. QED
    BY <2>1, <2>5
<1>9. ASSUME NEW i \in DOMAIN rows
      PROVE  /\ -Slack(rows) <= rows[i].net /\ rows[i].net <= rows[i].gross + Slack(rows)
             /\ rows[i].taxable + Sum(rows[i], TaxColumns(o, document)) = rows[i].net
  <2>1. Slack(rows) = slack /\ slack \in Nat
    BY <1>2, <1>3, AtLeastOne, HalfOf DEF Slack
  <2>2. shares[i] \in Int /\ worth[i] \in Nat /\ -slack <= shares[i] /\ shares[i] <= worth[i] + slack
    BY <1>1, <1>2, <1>3
  <2>3. /\ rows[i].gross = worth[i] /\ rows[i].net = worth[i] - shares[i]
        /\ rows[i].taxable + Sum(rows[i], TaxColumns(o, document)) = rows[i].net
    BY <1>3, <1>4
  <2> HIDE DEF slack, shares, worth, rows
  <2>4. -slack <= worth[i] - shares[i] /\ worth[i] - shares[i] <= worth[i] + slack
    BY <2>1, <2>2
  <2>5. QED
    BY <2>1, <2>3, <2>4
<1>10. QED
  BY <1>7, <1>8, <1>9 DEF AddsUp

(* No price is below zero, a coupon's amount is a number, a request that   *)
(* is to order has priced its lines in full, and an order was charged for  *)
(* its lines.                                                              *)
MayEdit(entry) == entry.at # "idle" /\ "amount" \in DOMAIN entry.patch => entry.patch.amount \in Int
IsWhole(me) == me.at = "lines" /\ me.for # "preview" => Whole(me.lines) /\ me.shipping \in Nat

ChargesInv ==
  /\ \A p \in Product : ArePrices(prices[p])
  /\ coupon = NoCoupon \/ IsOffer(coupon)
  /\ \A e \in CouponEditor : MayEdit(editing[e])
  /\ \A s \in Shopper : IsWhole(shopping[s]) /\ (ordered[s] # Nothing => Costs(ordered[s]))

LEMMA ChargesInitially == PricingInit => ChargesInv
<1> SUFFICES ASSUME PricingInit PROVE ChargesInv
  OBVIOUS
<1>1. \A p \in Product : ArePrices(prices[p])
  BY PricingAssumption DEF PricingInit, Product
<1>2. coupon = NoCoupon \/ IsOffer(coupon)
  BY PricingAssumption DEF PricingInit
<1>3. \A e \in CouponEditor : MayEdit(editing[e])
  BY DEF PricingInit, Quiet, MayEdit
<1>4. \A s \in Shopper : IsWhole(shopping[s]) /\ ordered[s] = Nothing
  BY DEF PricingInit, NotShopping, IsWhole
<1>5. QED
  BY <1>1, <1>2, <1>3, <1>4 DEF ChargesInv

LEMMA BoughtWhole ==
  ASSUME NEW lines, Whole(lines), NEW x, x.price \in Nat, x.quantity \in Nat
  PROVE  Whole(Append(lines, x))
<1>1. /\ IsSeq(Append(lines, x)) /\ DOMAIN Append(lines, x) = 1 .. (Len(lines) + 1)
      /\ Append(lines, x)[Len(lines) + 1] = x /\ \A i \in DOMAIN lines : Append(lines, x)[i] = lines[i]
  BY AppendIs DEF Whole
<1>2. Len(lines) \in Nat /\ DOMAIN lines = 1 .. Len(lines)
  BY SequenceIs DEF Whole
<1>3. \A i \in DOMAIN Append(lines, x) : i \in DOMAIN lines \/ i = Len(lines) + 1
  BY <1>1, <1>2
<1>4. \A i \in DOMAIN Append(lines, x) : Append(lines, x)[i].price \in Nat /\ Append(lines, x)[i].quantity \in Nat
  BY <1>1, <1>3 DEF Whole
<1>5. QED
  BY <1>1, <1>4 DEF Whole

LEMMA NothingIsWhole == Whole(<<>>)
<1>1. DOMAIN <<>> = {} /\ <<>> \in Seq({})
  OBVIOUS
<1>2. {(<<>>)[i] : i \in {}} = {}
  OBVIOUS
<1>3. QED
  BY <1>1, <1>2 DEF Whole, IsSeq

(* What a shopper's own step must keep.                                    *)
LEMMA ShopperCharges ==
  ASSUME ChargesInv, NEW s \in Shopper, Only(s), IsWhole(shopping'[s]), ordered'[s] # Nothing => Costs(ordered'[s])
  PROVE  ChargesInv'
<1>1. \A o \in Shopper : IsWhole(shopping'[o]) /\ (ordered'[o] # Nothing => Costs(ordered'[o]))
  <2> TAKE o \in Shopper
  <2>1. CASE o = s
    BY <2>1
  <2>2. CASE o # s
    BY <2>2 DEF Only, ChargesInv
  <2>3. QED
    BY <2>1, <2>2
<1>2. UNCHANGED <<prices, coupon, editing>>
  BY DEF Only
<1>3. QED
  BY <1>1, <1>2 DEF ChargesInv

LEMMA BeginCharges ==
  ASSUME PricingInv, ChargesInv, NEW s \in Shopper, NEW cart \in Carts, NEW for, NEW country, NEW asked, NEW coded, NEW place,
         NEW shipping \in Nat, BeginShopping(s, for, cart, country, asked, coded, place, shipping),
         UNCHANGED <<prices, onSale, coupon, editing, edits, preview, ordered>>
  PROVE  ChargesInv'
<1> DEFINE me == [at |-> "lines", for |-> for, cart |-> cart, country |-> country, asked |-> asked, coded |-> coded,
                  place |-> place, shipping |-> shipping, lines |-> <<>>, since |-> edits]
<1>1. shopping' = [shopping EXCEPT ![s] = me]
  BY DEF BeginShopping
<1>2. me.lines = <<>> /\ me.shipping = shipping
  OBVIOUS
<1> HIDE DEF me
<1>3. Only(s) /\ shopping'[s] = me /\ ordered'[s] = ordered[s]
  BY <1>1 DEF Only, PricingInv, ShoppersFit
<1>4. IsWhole(me)
  BY <1>2, NothingIsWhole DEF IsWhole
<1>5. QED
  BY <1>3, <1>4, ShopperCharges DEF ChargesInv

LEMMA PriceLineCharges ==
  ASSUME PricingInv, ChargesInv, NEW s \in Shopper, PriceLine(s)
  PROVE  ChargesInv'
<1> DEFINE old == shopping[s]
           line == Head(old.cart)
           p == prices[line.product]
           x == [product |-> line.product, quantity |-> line.quantity,
                 price |-> UnitPrice(p, Assortment[line.product].legacy, old.country),
                 currency |-> Currency(p, old.country)]
           cart == Tail(old.cart)
           lines == Append(old.lines, x)
           me == [old EXCEPT !.cart = cart, !.lines = lines]
<1>1. /\ old.at = "lines" /\ UNCHANGED <<prices, onSale, coupon, editing, edits, preview, ordered>>
      /\ shopping' = [shopping EXCEPT ![s] = IF Takes(old.for, line, old.country) THEN me ELSE NotShopping]
  BY DEF PriceLine
<1>2. Only(s) /\ ordered'[s] = ordered[s] /\ shopping'[s] = IF Takes(old.for, line, old.country) THEN me ELSE NotShopping
  BY <1>1 DEF Only, PricingInv, ShoppersFit
<1>3. DOMAIN old = {"at", "for", "cart", "country", "asked", "coded", "place", "shipping", "lines", "since"}
  BY <1>1, ShopperHolds DEF ShopperFits, Shops
<1>4. me.at = old.at /\ me.for = old.for /\ me.lines = lines /\ me.shipping = old.shipping
  BY <1>3
<1>5. x.price = UnitPrice(p, Assortment[line.product].legacy, old.country) /\ x.quantity = line.quantity
  OBVIOUS
<1> HIDE DEF me, x
<1>6. ASSUME Takes(old.for, line, old.country), old.for # "preview" PROVE IsWhole(me)
  <2>1. line.product \in Product /\ line.quantity \in 1 .. MaxQuantity
    BY <1>6 DEF Takes, PricingInv, PricingTyped
  <2>2. line.quantity \in Nat
    BY <2>1, PricingAssumption
  <2>3. ArePrices(p) /\ Assortment[line.product].legacy \in Nat
    BY <2>1, PricingAssumption DEF ChargesInv, Product
  <2> HIDE DEF line, p
  <2>4. UnitPrice(p, Assortment[line.product].legacy, old.country) \in Nat
    BY <2>3 DEF UnitPrice, ArePrices, Bucket
  <2>5. Whole(old.lines) /\ old.shipping \in Nat
    BY <1>1, <1>6 DEF ChargesInv, IsWhole
  <2>6. Whole(lines)
    BY <1>5, <2>2, <2>4, <2>5, BoughtWhole
  <2>7. QED
    BY <1>4, <2>5, <2>6 DEF IsWhole
<1>7. IsWhole(NotShopping)
  BY DEF IsWhole, NotShopping
<1>8. ASSUME old.for = "preview" PROVE IsWhole(me)
  BY <1>4, <1>8 DEF IsWhole
<1>9. IsWhole(shopping'[s])
  BY <1>2, <1>6, <1>7, <1>8
<1>10. QED
  BY <1>2, <1>9, ShopperCharges DEF ChargesInv

LEMMA FinishCharges ==
  ASSUME PricingInv, ChargesInv, NEW s \in Shopper, shopping[s].at = "lines", UNCHANGED <<prices, onSale, coupon, editing, edits>>,
         NEW discount, NEW applied, Finish(s, discount, applied),
         \/ applied = NoCoupon /\ discount = 0
         \/ applied # NoCoupon /\ applied.amount \in Int /\ discount = ComputeDiscount(applied, shopping[s].lines)
  PROVE  ChargesInv'
<1> DEFINE me == shopping[s]
           priced == Priced(me.lines, discount, me.shipping)
           order == [lines |-> me.lines, country |-> me.country, place |-> me.place, for |-> me.for,
                     coded |-> me.coded, applied |-> applied, at |-> edits, subtotal |-> priced.subtotal,
                     discount |-> priced.discount, shipping |-> priced.shipping, total |-> priced.total]
<1>1. /\ shopping' = [shopping EXCEPT ![s] = NotShopping]
      /\ \/ me.for = "preview" /\ (\E now : preview' = [preview EXCEPT ![s] = now]) /\ UNCHANGED ordered
         \/ me.for # "preview" /\ ordered' = [ordered EXCEPT ![s] = order] /\ UNCHANGED preview
  BY DEF Finish
<1>2. Only(s) /\ shopping'[s] = NotShopping /\ (ordered'[s] = ordered[s] \/ (me.for # "preview" /\ ordered'[s] = order))
  BY <1>1 DEF Only, PricingInv, ShoppersFit
<1>3. IsWhole(shopping'[s])
  BY <1>2 DEF IsWhole, NotShopping
<1>4. /\ priced.subtotal = Subtotal(me.lines) /\ priced.discount = discount /\ priced.shipping = me.shipping
      /\ priced.total = AtLeastZero(Subtotal(me.lines) - discount + me.shipping)
  BY DEF Priced
<1> HIDE DEF priced
<1>5. /\ order.lines = me.lines /\ order.applied = applied /\ order.subtotal = Subtotal(me.lines)
      /\ order.discount = discount /\ order.shipping = me.shipping
      /\ order.total = AtLeastZero(Subtotal(me.lines) - discount + me.shipping)
  BY <1>4
<1> HIDE DEF order
<1>6. ASSUME me.for # "preview" PROVE Costs(order)
  <2>1. Whole(me.lines) /\ me.shipping \in Nat
    BY <1>6 DEF ChargesInv, IsWhole
  <2>2. QED
    BY <1>5, <2>1 DEF Costs
<1>7. QED
  BY <1>2, <1>3, <1>6, ShopperCharges DEF ChargesInv

LEMMA ApplyCouponCharges ==
  ASSUME PricingInv, ChargesInv, NEW s \in Shopper, ApplyCoupon(s)
  PROVE  ChargesInv'
<1> DEFINE me == shopping[s]
           discount == ComputeDiscount(coupon, me.lines)
<1>1. me.at = "lines" /\ UNCHANGED <<prices, onSale, coupon, editing, edits>>
  BY DEF ApplyCoupon
<1>2. \/ ~me.coded /\ Finish(s, 0, NoCoupon)
      \/ coupon # NoCoupon /\ Finish(s, discount, coupon)
      \/ shopping' = [shopping EXCEPT ![s] = NotShopping] /\ UNCHANGED <<preview, ordered>>
  BY DEF ApplyCoupon, Applies
<1>3. CASE ~me.coded /\ Finish(s, 0, NoCoupon)
  BY <1>1, <1>3, FinishCharges
<1>4. CASE coupon # NoCoupon /\ Finish(s, discount, coupon)
  <2>1. coupon.amount \in Int
    BY <1>4 DEF ChargesInv, IsOffer
  <2>2. discount = ComputeDiscount(coupon, me.lines)
    OBVIOUS
  <2> HIDE DEF discount
  <2>3. QED
    BY <1>1, <1>4, <2>1, <2>2, FinishCharges
<1>5. CASE shopping' = [shopping EXCEPT ![s] = NotShopping] /\ UNCHANGED <<preview, ordered>>
  <2>1. Only(s) /\ shopping'[s] = NotShopping /\ ordered'[s] = ordered[s]
    BY <1>1, <1>5 DEF Only, PricingInv, ShoppersFit
  <2>2. IsWhole(shopping'[s])
    BY <2>1 DEF IsWhole, NotShopping
  <2>3. QED
    BY <2>1, <2>2, ShopperCharges DEF ChargesInv
<1>6. QED
  BY <1>2, <1>3, <1>4, <1>5

LEMMA CouponCharges ==
  ASSUME PricingInv, ChargesInv, NEW e \in CouponEditor,
         \/ CheckCoupon(e) \/ WriteCoupon(e) \/ DeleteCoupon(e)
         \/ \E c \in Coupons \ {NoCoupon} : CreateCoupon(e, c)
         \/ \E patch \in Patches : OpenCoupon(e, patch)
  PROVE  ChargesInv'
<1>1. /\ DOMAIN editing = CouponEditor /\ editing[e].at \in {"idle", "opened", "checked"}
      /\ editing[e].at = "opened" => DOMAIN editing[e] = {"at", "patch"}
  BY DEF PricingInv, PricingTyped
<1>2. MayEdit(Quiet)
  BY DEF MayEdit, Quiet
<1>3. UNCHANGED <<prices, shopping, ordered>>
  BY DEF CheckCoupon, WriteCoupon, DeleteCoupon, CreateCoupon, OpenCoupon
<1>4. (coupon' = NoCoupon \/ IsOffer(coupon')) /\ \A o \in CouponEditor : MayEdit(editing'[o])
  <2>1. CASE CheckCoupon(e)
    <3>1. MayEdit([editing[e] EXCEPT !.at = "checked"])
      <4>1. [editing[e] EXCEPT !.at = "checked"].patch = editing[e].patch /\ editing[e].at = "opened"
        BY <1>1, <2>1 DEF CheckCoupon
      <4>2. MayEdit(editing[e])
        BY DEF ChargesInv
      <4>3. QED
        BY <4>1, <4>2 DEF MayEdit
    <3>2. editing'[e] = [editing[e] EXCEPT !.at = "checked"] \/ editing'[e] = Quiet
      BY <1>1, <2>1 DEF CheckCoupon
    <3>3. UNCHANGED coupon /\ \A o \in CouponEditor : o # e => editing'[o] = editing[o]
      BY <1>1, <2>1 DEF CheckCoupon
    <3>4. QED
      BY <1>2, <3>1, <3>2, <3>3 DEF ChargesInv
  <2>2. CASE WriteCoupon(e)
    <3>1. editing'[e] = Quiet /\ \A o \in CouponEditor : o # e => editing'[o] = editing[o]
      BY <1>1, <2>2 DEF WriteCoupon
    <3>2. coupon' = NoCoupon \/ (IsOffer(coupon) /\ coupon' = PatchedBy(editing[e].patch))
      BY <2>2 DEF WriteCoupon, ChargesInv
    <3>3. IsOffer(coupon) => IsOffer(PatchedBy(editing[e].patch))
      <4>1. "amount" \in DOMAIN editing[e].patch => editing[e].patch.amount \in Int
        BY <2>2 DEF WriteCoupon, ChargesInv, MayEdit
      <4> DEFINE patch == editing[e].patch
                 new == PatchedBy(patch)
      <4>2. new = [x \in (DOMAIN patch) \cup (DOMAIN coupon) |-> IF x \in DOMAIN patch THEN patch[x] ELSE coupon[x]]
        BY DEF PatchedBy
      <4> HIDE DEF patch, new
      <4>3. ASSUME IsOffer(coupon) PROVE IsOffer(new)
        <5>1. "amount" \in DOMAIN coupon /\ coupon["amount"] \in Int
          BY <4>3 DEF IsOffer
        <5>2. "amount" \in DOMAIN patch => patch["amount"] \in Int
          BY <4>1 DEF patch
        <5>3. "amount" \in DOMAIN new /\ new["amount"] \in Int
          BY <4>2, <5>1, <5>2
        <5>4. QED
          BY <5>3 DEF IsOffer
      <4>4. QED
        BY <4>3 DEF new, patch
    <3>4. QED
      BY <1>2, <3>1, <3>2, <3>3 DEF ChargesInv
  <2>3. CASE DeleteCoupon(e)
    BY <2>3 DEF DeleteCoupon, ChargesInv
  <2>4. CASE \E c \in Coupons \ {NoCoupon} : CreateCoupon(e, c)
    <3>1. PICK c \in Coupons \ {NoCoupon} : CreateCoupon(e, c)
      BY <2>4
    <3>2. IsOffer(c)
      BY PricingAssumption
    <3>3. IsOffer(Normal(c))
      BY <3>2 DEF IsOffer, Normal
    <3>4. QED
      BY <3>1, <3>3 DEF CreateCoupon, ChargesInv
  <2>5. CASE \E patch \in Patches : OpenCoupon(e, patch)
    <3>1. PICK patch \in Patches : OpenCoupon(e, patch)
      BY <2>5
    <3>2. MayEdit([at |-> "opened", patch |-> patch])
      BY PricingAssumption DEF MayEdit
    <3>3. editing'[e] = [at |-> "opened", patch |-> patch] /\ UNCHANGED coupon /\ \A o \in CouponEditor : o # e => editing'[o] = editing[o]
      BY <1>1, <3>1 DEF OpenCoupon
    <3>4. QED
      BY <3>2, <3>3 DEF ChargesInv
  <2>6. QED
    BY <2>1, <2>2, <2>3, <2>4, <2>5
<1>5. QED
  BY <1>3, <1>4 DEF ChargesInv

LEMMA EditPriceCharges ==
  ASSUME PricingInv, ChargesInv, NEW edit \in PriceEdits, EditPrice(edit.product, edit.market, edit.to)
  PROVE  ChargesInv'
<1> DEFINE p == edit.product
           m == edit.market
           v == edit.to
<1>1. /\ m \in DOMAIN prices[p] /\ prices' = [prices EXCEPT ![p][m] = v]
      /\ UNCHANGED <<coupon, editing, shopping, ordered>>
  BY DEF EditPrice
<1>2. DOMAIN prices = Product /\ v \in Nat
  BY PricingAssumption DEF PricingInv, PricingTyped
<1> HIDE DEF p, m, v
<1>3. ASSUME NEW q \in Product PROVE ArePrices(prices'[q])
  <2>1. ArePrices(prices[q])
    BY DEF ChargesInv
  <2>2. CASE q # p
    BY <1>1, <1>2, <2>1, <2>2
  <2>3. CASE q = p
    <3>1. prices'[q] = [prices[q] EXCEPT ![m] = v] /\ m \in DOMAIN prices[q]
      BY <1>1, <1>2, <2>3
    <3>2. prices[q] # <<>>
      BY <3>1
    <3>3. QED
      BY <1>2, <2>1, <3>1, <3>2 DEF ArePrices
  <2>4. QED
    BY <2>2, <2>3
<1>4. QED
  BY <1>1, <1>3 DEF ChargesInv

LEMMA ChargesInductive == PricingInv /\ ChargesInv /\ [PricingNext]_pricingVars => ChargesInv'
<1> SUFFICES ASSUME PricingInv, ChargesInv, [PricingNext]_pricingVars PROVE ChargesInv'
  OBVIOUS
<1>1. ASSUME NEW p \in Product, Retire(p) PROVE ChargesInv'
  <2>1. UNCHANGED <<prices, coupon, editing, shopping, ordered>>
    BY <1>1 DEF Retire
  <2>2. QED
    BY <2>1 DEF ChargesInv
<1>2. ASSUME NEW s \in Shopper, NEW cart \in Carts, NEW country, BeginPreview(s, cart, country) PROVE ChargesInv'
  <2>1. /\ BeginShopping(s, "preview", cart, country, country, TRUE, Nothing, 0)
        /\ UNCHANGED <<prices, onSale, coupon, editing, edits, preview, ordered>>
    BY <1>2 DEF BeginPreview
  <2>2. QED
    BY <2>1, BeginCharges
<1>3. ASSUME NEW s \in Shopper, NEW cart \in Carts, NEW selected, NEW geo, NEW coded, NEW place, NEW payment,
             BeginCheckout(s, cart, selected, geo, coded, place, payment)
      PROVE  ChargesInv'
  <2> DEFINE country == ResolveCountry(selected, geo)
  <2>1. /\ BeginShopping(s, "checkout", cart, country, country, coded, place, 0)
        /\ UNCHANGED <<prices, onSale, coupon, editing, edits, preview, ordered>>
    BY <1>3 DEF BeginCheckout
  <2> HIDE DEF country
  <2>2. QED
    BY <2>1, BeginCharges
<1>4. ASSUME NEW s \in Shopper, NEW cart \in Carts, NEW country, NEW coded, NEW place, NEW shipping \in Shippings,
             BeginDesk(s, cart, country, coded, place, shipping)
      PROVE  ChargesInv'
  <2>1. /\ BeginShopping(s, "desk", cart, country, None, coded, place, shipping)
        /\ UNCHANGED <<prices, onSale, coupon, editing, edits, preview, ordered>>
    BY <1>4 DEF BeginDesk
  <2>2. shipping \in Nat
    BY PricingAssumption
  <2>3. QED
    BY <2>1, <2>2, BeginCharges
<1>5. CASE UNCHANGED pricingVars
  BY <1>5 DEF pricingVars, ChargesInv
<1>6. QED
  BY <1>1, <1>2, <1>3, <1>4, <1>5, EditPriceCharges, CouponCharges, PriceLineCharges, ApplyCouponCharges DEF PricingNext

LEMMA ChargesCorrect == ASSUME ChargesInv PROVE InvoiceAddsUpUnlessTorn
<1>1. ASSUME NEW invoice \in Invoices, invoice.order.applied = NoCoupon \/ ValidCoupon(invoice.order.applied)
      PROVE  AddsUp(invoice)
  <2>1. PICK o \in Orders, document \in Documents :
          invoice = [order |-> o, rows |-> TaxLines(o, document), columns |-> TaxColumns(o, document)]
    BY DEF Invoices
  <2>2. invoice.order = o
    BY <2>1
  <2>3. Costs(o)
    BY DEF Orders, ChargesInv
  <2>4. QED
    BY <1>1, <2>1, <2>2, <2>3, CostsAddUp
<1>2. QED
  BY <1>1 DEF InvoiceAddsUpUnlessTorn

-----------------------------------------------------------------------------
(* The components together *)

CommerceInv == ClickInv /\ LeadsInv /\ GuardInv /\ CatalogueInv

LEMMA CommerceInitially == ASSUME Screened PROVE CommerceInit => CommerceInv
BY ClickInitially, LeadsInitially, GuardInitially, CatalogueInitially DEF CommerceInit, CommerceInv

LEMMA CommerceInductive ==
  ASSUME Screened
  PROVE  CommerceInv /\ [CommerceNext]_commerceVars => CommerceInv'
<1> SUFFICES ASSUME CommerceInv, [CommerceNext]_commerceVars PROVE CommerceInv'
  OBVIOUS
<1>1. [CodNext]_codVars
  BY DEF CommerceNext, commerceVars
<1>2. [LeadsNext]_leadsVars
  BY DEF CommerceNext, commerceVars
<1>3. [GuardNext]_guardVars
  BY DEF CommerceNext, commerceVars
<1>4. [CatalogueNext]_catalogueVars
  BY DEF CommerceNext, commerceVars
<1>5. QED
  BY <1>1, <1>2, <1>3, <1>4, ClickInductive, LeadsInductive, GuardInductive, CatalogueInductive DEF CommerceInv

(* While the rules are on and stop what they cannot judge, the window of   *)
(* the counters is longer than the requests' and shorter of a burst, and   *)
(* no rule outranks the duplicate's: the clicks of one key leave one order *)
(* with the units it took, unless an order was placed and the step after   *)
(* it failed.  And always: one person has one cart that stands, unless two *)
(* forms overtook one another; what was taken down is off Facebook, unless *)
(* calls crossed; and failures counted lapse, unless the process was cut.  *)
THEOREM CommerceAgrees == ASSUME Screened PROVE CommerceSpec => []RecordsAgree
<1>1. CommerceInv => RecordsAgree
  BY ClickCorrect, GuardCorrect, CatalogueCorrect, ApartIsOneCart DEF CommerceInv, LeadsInv, RecordsAgree
<1>2. QED
  BY <1>1, CommerceInitially, CommerceInductive, PTL DEF CommerceSpec

(* What an order closed is not an abandoned cart again, unless one form    *)
(* wrote on what another had changed.                                      *)
THEOREM ClosedCartsStay == CommerceSpec => ConvertedStays
<1>1. CommerceInit => LeadsInv
  BY LeadsInitially DEF CommerceInit
<1>2. [CommerceNext]_commerceVars => [LeadsNext]_leadsVars
  BY DEF CommerceNext, commerceVars
<1> DEFINE Stays == \A i \in Ids : carts[i].status = "converted" => carts'[i].status # "active" \/ overtaken'
<1>3. LeadsInv /\ [LeadsNext]_leadsVars => LeadsInv' /\ Stays
  BY LeadsInductive, ClosedStays DEF LeadsInv
<1> HIDE DEF Stays
<1>4. CommerceSpec => [][Stays]_leadsVars
  BY <1>1, <1>2, <1>3, PTL DEF CommerceSpec
<1>5. QED
  BY <1>4 DEF ConvertedStays, Stays

(* A page or a copy of a source that is not the last saved version, and    *)
(* that no delete still to come removes, was read by a request an edit     *)
(* overtook.                                                               *)
THEOREM PagesStaleOnlyWhenOvertaken == CommerceSpec => []StaleOnlyWhenOvertaken
<1>1. CommerceInit => CacheInv
  BY CacheInitially DEF CommerceInit
<1>2. [CommerceNext]_commerceVars => [CacheNext]_cacheVars
  BY DEF CommerceNext, commerceVars
<1>3. CacheInv => StaleOnlyWhenOvertaken
  BY DEF CacheInv, PagesFit
<1>4. QED
  BY <1>1, <1>2, <1>3, CacheInductive, PTL DEF CommerceSpec

(* An order of the goods, the country and the coupon a preview was for is  *)
(* charged what the preview said, if no price, offer or coupon was edited  *)
(* in between.                                                             *)
THEOREM ChargedAsShown == CommerceSpec => []ChargedAsPreviewed
<1>1. CommerceInit => PricingInv
  BY PricingInitially DEF CommerceInit
<1>2. [CommerceNext]_commerceVars => [PricingNext]_pricingVars
  BY DEF CommerceNext, commerceVars
<1>3. PricingInv => ChargedAsPreviewed
  BY DEF PricingInv
<1>4. QED
  BY <1>1, <1>2, <1>3, PricingInductive, PTL DEF CommerceSpec

(* What every document of an order says adds up to what was charged, to    *)
(* the smallest unit, whatever was edited while the request was at work;   *)
(* and that is what its preview showed.                                    *)
THEOREM InvoicesAddUp == CommerceSpec => []PricesHold
<1> DEFINE MoneyInv == PricingInv /\ ChargesInv
<1>1. CommerceInit => MoneyInv
  BY PricingInitially, ChargesInitially DEF CommerceInit
<1>2. [CommerceNext]_commerceVars => [PricingNext]_pricingVars
  BY DEF CommerceNext, commerceVars
<1>3. MoneyInv /\ [PricingNext]_pricingVars => MoneyInv'
  BY PricingInductive, ChargesInductive
<1>4. MoneyInv => PricesHold
  BY ChargesCorrect DEF PricingInv, PricesHold
<1> HIDE DEF MoneyInv
<1>5. QED
  BY <1>1, <1>2, <1>3, <1>4, PTL DEF CommerceSpec

(* Whatever the rules of fraud say: the units an order took are its own;   *)
(* one person has one cart that stands, unless two forms overtook one      *)
(* another; what was taken down is off Facebook, unless calls crossed; and *)
(* failures counted lapse, unless the process was cut.                     *)
THEOREM RecordsAgreeUnscreened ==
  CommerceSpec => [](UnitsMatchOrders /\ OneCartPerPerson /\ OffUnlessCrossed /\ FailuresLapseUnlessCut)
<1> DEFINE Inv == CodInv /\ LeadsInv /\ GuardInv /\ CatalogueInv
           Agree == UnitsMatchOrders /\ OneCartPerPerson /\ OffUnlessCrossed /\ FailuresLapseUnlessCut
<1>1. CommerceInit => Inv
  BY CodInitially, LeadsInitially, GuardInitially, CatalogueInitially DEF CommerceInit
<1>2. Inv /\ [CommerceNext]_commerceVars => Inv'
  <2>1. [CommerceNext]_commerceVars =>
          [CodNext]_codVars /\ [LeadsNext]_leadsVars /\ [GuardNext]_guardVars /\ [CatalogueNext]_catalogueVars
    BY DEF CommerceNext, commerceVars
  <2>2. QED
    BY <2>1, CodInductive, LeadsInductive, GuardInductive, CatalogueInductive
<1>3. Inv => Agree
  BY CodCorrect, GuardCorrect, CatalogueCorrect, ApartIsOneCart DEF LeadsInv
<1> HIDE DEF Inv, Agree
<1>4. CommerceSpec => []Agree
  BY <1>1, <1>2, <1>3, PTL DEF CommerceSpec
<1>5. QED
  BY <1>4 DEF Agree

(* Every variable of the six components is in its type.                    *)
THEOREM CommerceTyped == CommerceSpec => []CommerceTypeOK
<1> DEFINE TypeInv == /\ CodInv /\ PricingInv /\ CatalogueInv /\ ListingTyped /\ CacheInv /\ CacheTyped
                      /\ LeadsInv /\ GuardInv
<1>1. CommerceInit => TypeInv
  BY CodInitially, PricingInitially, CatalogueInitially, ListingTypedInitially, CacheInitially, CacheTypedInitially,
     LeadsInitially, GuardInitially
     DEF CommerceInit
<1>2. TypeInv /\ [CommerceNext]_commerceVars => TypeInv'
  <2> SUFFICES ASSUME TypeInv, [CommerceNext]_commerceVars PROVE TypeInv'
    OBVIOUS
  <2>1. [CodNext]_codVars /\ [PricingNext]_pricingVars /\ [CatalogueNext]_catalogueVars
    BY DEF CommerceNext, commerceVars
  <2>2. [CacheNext]_cacheVars /\ [LeadsNext]_leadsVars /\ [GuardNext]_guardVars
    BY DEF CommerceNext, commerceVars
  <2>3. CodInv' /\ PricingInv' /\ CatalogueInv'
    BY <2>1, CodInductive, PricingInductive, CatalogueInductive
  <2>4. ListingTyped'
    BY <2>1, ListingTypedInductive DEF CatalogueInv
  <2>5. CacheInv' /\ CacheTyped'
    BY <2>2, CacheInductive, CacheTypedInductive
  <2>6. LeadsInv' /\ GuardInv'
    BY <2>2, LeadsInductive, GuardInductive
  <2>7. QED
    BY <2>3, <2>4, <2>5, <2>6
<1>3. TypeInv => CommerceTypeOK
  <2> SUFFICES ASSUME TypeInv PROVE CommerceTypeOK
    OBVIOUS
  <2>1. CodTypeOK /\ GuardTypeOK
    BY CodCorrect, GuardCorrect
  <2>2. PricingTypeOK
    BY DEF PricingInv, PricingTyped, ShoppersFit, PricingTypeOK
  <2>3. CatalogueTypeOK /\ CacheTypeOK
    BY ListingTypes, CacheTypes DEF CatalogueInv
  <2>4. LeadsTypeOK
    BY TypedCorrectly DEF LeadsInv
  <2>5. QED
    BY <2>1, <2>2, <2>3, <2>4 DEF CommerceTypeOK
<1> HIDE DEF TypeInv
<1>4. QED
  BY <1>1, <1>2, <1>3, PTL DEF CommerceSpec
=============================================================================
