------------------------------- MODULE Catalogue -------------------------------
(***************************************************************************)
(* The catalogue and the admin pages that edit it: products with their     *)
(* variants, gift boxes with the variants they consist of.                 *)
(*                                                                         *)
(* A row of the product page is a variant, or a product without variants   *)
(* ("don").  The page edits a product and one of its variants in two       *)
(* requests, each a transaction of its own.  A SKU that is taken between   *)
(* the check of a request and its commit meets the unique constraint       *)
(* instead, an error either way.  Prices, names and images are left out.   *)
(***************************************************************************)
EXTENDS Naturals, FiniteSets

CONSTANTS
  Products, Variants, Boxes,
  Seeds,          \* products without variants that the seed data brings
  Admins,         \* open admin pages
  Skus,
  None

VARIABLES
  product,  \* table sanpham
  variant,  \* table bienthesanpham
  box,      \* table hopqua
  bom,      \* table hopquabom: the variants of each box
  listed,   \* the rows each product page shows
  call      \* the request each page waits for

tables == <<product, variant, box, bom>>
vars == <<tables, listed, call>>

Rows(table) == {k \in DOMAIN table : table[k] # None}
Free(table, sku) == \A k \in Rows(table) : table[k].sku # sku
Active(table) == {k \in Rows(table) : table[k].active}
VariantsOf(p) == {v \in Rows(variant) : variant[v].of = p}

Init ==
  /\ product \in [Products -> {None} \cup [loai : {"don"}, sku : Skus, active : {TRUE}]]
  /\ Rows(product) = Seeds
  /\ \A p, q \in Seeds : p # q => product[p].sku # product[q].sku
  /\ variant = [v \in Variants |-> None] /\ box = [b \in Boxes |-> None]
  /\ bom = [b \in Boxes |-> {}]
  /\ listed = [s \in Admins |-> {}] /\ call = [s \in Admins |-> None]

----------------------------------------------------------------------------
(* ProductService                                                          *)

create_product(p, sku, active) ==
  /\ product[p] = None /\ Free(product, sku)
  /\ product' = [product EXCEPT ![p] = [loai |-> "bien_the", sku |-> sku, active |-> active]]
  /\ UNCHANGED <<variant, box, bom>>

update_product(p, active) ==
  /\ p \in Rows(product)
  /\ product' = [product EXCEPT ![p].active = active]
  /\ UNCHANGED <<variant, box, bom>>

delete_product(p) == update_product(p, FALSE)

create_variant(v, p, sku, active) ==
  /\ variant[v] = None /\ p \in Rows(product) /\ Free(variant, sku)
  /\ variant' = [variant EXCEPT ![v] = [of |-> p, sku |-> sku, active |-> active]]
  /\ UNCHANGED <<product, box, bom>>

update_variant(v, sku, active) ==
  /\ v \in Rows(variant) /\ (sku = variant[v].sku \/ Free(variant, sku))
  /\ variant' = [variant EXCEPT ![v].sku = sku, ![v].active = active]
  /\ UNCHANGED <<product, box, bom>>

\* The session does not flush before a query, so the variant still counts as active when
\* the others are looked for.
delete_variant(v) ==
  /\ v \in Rows(variant)
  /\ variant' = [variant EXCEPT ![v].active = FALSE]
  /\ product' = IF VariantsOf(variant[v].of) \cap Active(variant) = {}
                  THEN [product EXCEPT ![variant[v].of].active = FALSE] ELSE product
  /\ UNCHANGED <<box, bom>>

\* The rows of the admin's catalogue: both parts of a variant's row must be active.
list_admin_variants ==
  {p \in Active(product) : product[p].loai = "don"}
    \cup {v \in Active(variant) : variant[v].of \in Active(product)
                                    /\ product[variant[v].of].loai = "bien_the"}

----------------------------------------------------------------------------
(* The product page                                                        *)

\* Every load asks for the active rows, so a hidden one is out of the page's reach.
Load(s) ==
  /\ call[s] = None
  /\ listed' = [listed EXCEPT ![s] = list_admin_variants]
  /\ UNCHANGED <<tables, call>>

Waits(s, request) == call' = [call EXCEPT ![s] = request]
Ask(s, request) == call[s] = None /\ Waits(s, request) /\ UNCHANGED <<tables, listed>>

\* handleSubmit and confirmDelete: a new product, a variant of one that has some, or a
\* change to a row of the list as it was loaded.
Forms(s) ==
  [op : {"product"}, own : Skus, sku : Skus, active : BOOLEAN]
    \cup [op : {"variant"}, of : {p \in Rows(product) : product[p].loai = "bien_the"},
          sku : Skus, active : BOOLEAN]
    \cup [op : {"edit"}, row : listed[s], sku : Skus, active : BOOLEAN]
    \cup [op : {"delete"}, row : listed[s]]
Submit(s) == \E form \in Forms(s) : Ask(s, form)

\* createProductVariant: the product, and then its first variant.
CreateProduct(s) ==
  /\ call[s] # None /\ call[s].op = "product"
  /\ \E p \in Products :
       /\ create_product(p, call[s].own, call[s].active)
       /\ Waits(s, [op |-> "variant", of |-> p, sku |-> call[s].sku, active |-> call[s].active])
  /\ UNCHANGED listed
CreateVariant(s) ==
  /\ call[s] # None /\ call[s].op = "variant"
  /\ \E v \in Variants : create_variant(v, call[s].of, call[s].sku, call[s].active)
  /\ Waits(s, None) /\ UNCHANGED listed

\* updateProductVariant: the variant, and then its product with the status of the variant.
EditVariant(s) ==
  /\ call[s] # None /\ call[s].op = "edit" /\ call[s].row \in Variants
  /\ update_variant(call[s].row, call[s].sku, call[s].active)
  /\ Waits(s, [op |-> "edit", row |-> variant[call[s].row].of, sku |-> call[s].sku,
               active |-> call[s].active])
  /\ UNCHANGED listed
EditProduct(s) ==
  /\ call[s] # None /\ call[s].op = "edit" /\ call[s].row \in Products
  /\ update_product(call[s].row, call[s].active)
  /\ Waits(s, None) /\ UNCHANGED listed

\* deleteProductVariant
Delete(s) ==
  /\ call[s] # None /\ call[s].op = "delete"
  /\ IF call[s].row \in Variants THEN delete_variant(call[s].row)
                                 ELSE delete_product(call[s].row)
  /\ Waits(s, None) /\ UNCHANGED listed

\* A refusal or a broken connection ends the operation with an error, half way if need be.
Fails(s) == call[s] # None /\ Waits(s, None) /\ UNCHANGED <<tables, listed>>

----------------------------------------------------------------------------
(* GiftBoxService and its pages                                            *)

\* The SKU may be one the service makes up from the largest id.
create_gift_box(b, sku, active) ==
  /\ box[b] = None /\ Free(box, sku)
  /\ box' = [box EXCEPT ![b] = [sku |-> sku, active |-> active]]
  /\ UNCHANGED <<product, variant, bom>>
update_gift_box(b, sku, active) ==
  /\ b \in Rows(box) /\ (sku = box[b].sku \/ Free(box, sku))
  /\ box' = [box EXCEPT ![b] = [sku |-> sku, active |-> active]]
  /\ UNCHANGED <<product, variant, bom>>
delete_gift_box(b) == b \in Rows(box) /\ update_gift_box(b, box[b].sku, FALSE)

add_bom_item(b, v) ==
  /\ b \in Rows(box) /\ v \in Rows(variant) \ bom[b]
  /\ bom' = [bom EXCEPT ![b] = @ \cup {v}]
  /\ UNCHANGED <<product, variant, box>>

BoxChange ==
  \E b \in Boxes :
    \/ \E sku \in Skus, active \in BOOLEAN : create_gift_box(b, sku, active)
                                              \/ update_gift_box(b, sku, active)
    \/ delete_gift_box(b)
    \/ \E v \in Variants : add_bom_item(b, v)

\* delete_bom_item counts the rows of the box, and deletes its row in the same transaction
\* without a lock, so another deletion may come between.
CountBom(s) ==
  \E b \in Boxes : \E v \in bom[b] :
    /\ Cardinality(bom[b]) > 1
    /\ Ask(s, [op |-> "bom", box |-> b, row |-> v])
DeleteBom(s) ==
  /\ call[s] # None /\ call[s].op = "bom"
  /\ bom' = [bom EXCEPT ![call[s].box] = @ \ {call[s].row}]
  /\ Waits(s, None) /\ UNCHANGED <<product, variant, box, listed>>

Step(s) ==
  \/ Load(s) \/ Submit(s) \/ CreateProduct(s) \/ CreateVariant(s)
  \/ EditVariant(s) \/ EditProduct(s) \/ Delete(s) \/ Fails(s) \/ CountBom(s) \/ DeleteBom(s)

Next == (\E s \in Admins : Step(s)) \/ (BoxChange /\ UNCHANGED <<listed, call>>)
Spec == Init /\ [][Next]_vars

----------------------------------------------------------------------------
(* Properties                                                              *)

\* The types of the tables; a variant belongs to a product that exists.
TypeOK ==
  /\ product \in [Products -> {None} \cup [loai : {"don", "bien_the"}, sku : Skus, active : BOOLEAN]]
  /\ variant \in [Variants -> {None} \cup [of : Products, sku : Skus, active : BOOLEAN]]
  /\ box \in [Boxes -> {None} \cup [sku : Skus, active : BOOLEAN]]
  /\ bom \in [Boxes -> SUBSET Variants]
  /\ \A v \in Rows(variant) : variant[v].of \in Rows(product)
  /\ \A b \in Boxes : bom[b] \subseteq Rows(variant)

\* No two rows of a table share a SKU, however requests meet.
KeysUnique ==
  \A table \in {product, variant, box} :
    \A j, k \in Rows(table) : table[j].sku = table[k].sku => j = k

\* Deleting the last variant of a product that can be ordered hides the product.
LastVariantHidesProduct ==
  [][\A s \in Admins : \A v \in Active(variant) :
       (/\ call[s] # None /\ call[s].op = "delete" /\ call[s].row = v
        /\ call'[s] = None /\ ~variant'[v].active
        /\ \A u \in VariantsOf(variant[v].of) : ~variant'[u].active)
         => ~product'[variant[v].of].active]_vars
=============================================================================
