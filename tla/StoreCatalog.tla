---------------------------- MODULE StoreCatalog -----------------------------
(***************************************************************************)
(* What the pages of a built site list: the products of the latest         *)
(* searches by category (DiscoveryService.categories and featured, and     *)
(* catalog.js of the stock template), and the curated stores with the      *)
(* site's own categories (retailers.js).  A text is known by its slug and  *)
(* its wording; texts of different wordings may have one slug.             *)
(***************************************************************************)
EXTENDS Naturals, Sequences, SequencesExt

CONSTANTS
  Query,        \* texts searched for
  Product,      \* what a search finds: a title (a text) and a link (a number)
  Curated,      \* the stores in the order of their names, each with its category
  Category,     \* the texts a store's category can be changed to
  Hashes,       \* values of shortHash
  MaxFound,     \* bound: products of a search
  MaxRows,      \* rows read: 40 and 60
  LimitCats, PerCat, Featured, Related   \* 12, 24, 12, 8 (and 6 for stores)

VARIABLES
  rows,       \* the fresh rows of the search cache, newest first
  overrides   \* params.retailers: the category of some stores

vars == <<rows, overrides>>

Slugify(text) == text.slug
ShortHash(link) == link % Hashes
ProductSlug(p) == <<Slugify(p.title), ShortHash(p.link)>>

Take(seq, n) == SubSeq(seq, 1, IF Len(seq) < n THEN Len(seq) ELSE n)
Slugs(products) == [i \in DOMAIN products |-> ProductSlug(products[i])]

(* The loops that pass over a list and keep what stands at some places.    *)
Picked(seq, places) ==
  LET picked[n \in 0..Len(seq)] ==
        IF n = 0 THEN <<>>
        ELSE IF n \in places THEN Append(picked[n - 1], seq[n]) ELSE picked[n - 1]
  IN  picked[Len(seq)]

Among(seq, wanted) == Picked(seq, {i \in DOMAIN seq : seq[i] \in wanted})

(* Only the first of what is equal stays.                                  *)
Deduped(seq) == Picked(seq, {i \in DOMAIN seq : \A j \in 1..(i - 1) : seq[j] # seq[i]})

-----------------------------------------------------------------------------
(* DiscoveryService *)

(* featured: no two products of one title.                                 *)
FeaturedOf(found) ==
  Take(Picked(found, {i \in DOMAIN found : \A j \in 1..(i - 1) : found[j].title # found[i].title}),
       Featured)

Found(all) == FlattenSeq([i \in DOMAIN all |-> all[i].products])

(* categories: the newest row of each query, unless it is empty.           *)
Newest(all) == {i \in DOMAIN all : \A j \in 1..(i - 1) : all[j].query # all[i].query}

Categories(all) ==
  LET shown == Picked(all, {i \in Newest(all) : all[i].products # <<>>})
  IN  Take([i \in DOMAIN shown |-> [query |-> shown[i].query,
                                    products |-> Take(shown[i].products, PerCat)]], LimitCats)

-----------------------------------------------------------------------------
(* catalog.js *)

CatalogOnce(categories) ==
  [i \in DOMAIN categories |->
     [slug |-> Slugify(categories[i].query),
      products |-> Among(Slugs(categories[i].products),
        Range(Slugs(categories[i].products))
          \ UNION {Range(Slugs(categories[j].products)) : j \in 1..(i - 1)})]]

(* A product has one page, and stands in every category that found it.     *)
Catalog(categories) ==
  [i \in DOMAIN categories |->
     [slug |-> Slugify(categories[i].query), products |-> Slugs(categories[i].products)]]

CatalogProducts(catalog) == Deduped(FlattenSeq([i \in DOMAIN catalog |-> catalog[i].products]))

(* categorySlug: of the first category that has the product.               *)
CategorySlugOf(catalog, p) ==
  catalog[CHOOSE i \in DOMAIN catalog :
            /\ Contains(catalog[i].products, p)
            /\ \A j \in 1..(i - 1) : ~Contains(catalog[j].products, p)].slug

(* categoryBySlug: the first of that slug.                                 *)
CategoryBySlug(catalog, slug) ==
  catalog[CHOOSE i \in DOMAIN catalog :
            catalog[i].slug = slug /\ \A j \in 1..(i - 1) : catalog[j].slug # slug]

RelatedTo(catalog, p) ==
  LET listed == CategoryBySlug(catalog, CategorySlugOf(catalog, p)).products
      same   == Among(listed, Range(listed) \ {p})
      extra  == Among(CatalogProducts(catalog), Range(CatalogProducts(catalog)) \ ({p} \cup Range(same)))
  IN  Take(same \o extra, Related)

-----------------------------------------------------------------------------
(* retailers.js *)

Stores(changed) ==
  [i \in DOMAIN Curated |->
     IF Curated[i].slug \in DOMAIN changed THEN [Curated[i] EXCEPT !.category = changed[Curated[i].slug]]
     ELSE Curated[i]]

(* retailerCategories and categoryBySlug: the category page found by a     *)
(* slug is that of the first category of the slug, here by its wording.    *)
Named(stores, slug) == {s.category : s \in {t \in Range(stores) : Slugify(t.category) = slug}}
ShopPage(stores, slug) ==
  LET first == CHOOSE c \in Named(stores, slug) : \A d \in Named(stores, slug) : c.wording <= d.wording
  IN  Among(stores, {s \in Range(stores) : s.category = first})

RelatedRetailers(stores, r) ==
  LET others == {s \in Range(stores) : s.slug # r.slug}
  IN  Take(Among(stores, {s \in others : s.category = r.category})
           \o Among(stores, {s \in others : s.category # r.category}), Related)

-----------------------------------------------------------------------------
Init == rows = <<>> /\ overrides = <<>>

(* A search that was not in the cache adds a row; rows grow stale.         *)
Search(q, products) ==
  /\ rows' = Take(<<[query |-> q, products |-> products]>> \o rows, MaxRows)
  /\ UNCHANGED overrides

Expire ==
  /\ rows # <<>> /\ rows' = Front(rows)
  /\ UNCHANGED overrides

SetCategory(s, c) ==
  /\ overrides' = [t \in DOMAIN overrides \cup {s.slug} |-> IF t = s.slug THEN c ELSE overrides[t]]
  /\ UNCHANGED rows

(* BuildService stages the catalog; astro makes the pages of it.           *)
BuiltCatalog == Catalog(Categories(rows))
BuiltStores  == Stores(overrides)

Next ==
  \/ \E q \in Query, products \in SeqOf(Product, MaxFound) : Search(q, products)
  \/ Expire
  \/ \E s \in Range(Curated), c \in Category : SetCategory(s, c)

Spec == Init /\ [][Next]_vars

-----------------------------------------------------------------------------
(* Properties *)

(* The home page shows no title twice and leaves none out while it has     *)
(* room.                                                                   *)
FeaturedAreDistinct ==
  LET shown == FeaturedOf(Found(rows)) IN
  /\ \A i, j \in DOMAIN shown : shown[i].title = shown[j].title => i = j
  /\ Len(shown) < Featured => \A p \in Range(Found(rows)) : \E i \in DOMAIN shown : shown[i].title = p.title

(* From the search to the page: a category page lists what the newest      *)
(* search of its query found, all of it, also what another search found    *)
(* first, and nothing that only an older search did; and the category that *)
(* a product's page leads back to lists the product, as long as no other   *)
(* query has the same slug.                                                *)
CategoriesAreFull ==
  LET newest(i)   == \A j \in 1..(i - 1) : rows[j].query # rows[i].query
      alone(slug) == \A i, j \in DOMAIN BuiltCatalog :
                       BuiltCatalog[i].slug = slug /\ BuiltCatalog[j].slug = slug => i = j
      page(slug)  == Range(CategoryBySlug(BuiltCatalog, slug).products)
  IN  /\ \A c \in Range(Categories(rows)), i \in DOMAIN rows :
           rows[i].query = c.query /\ newest(i) /\ alone(Slugify(c.query))
             => page(Slugify(c.query)) = Range(Slugs(Take(rows[i].products, PerCat)))
      /\ \A p \in Range(CatalogProducts(BuiltCatalog)) :
           alone(CategorySlugOf(BuiltCatalog, p)) => p \in page(CategorySlugOf(BuiltCatalog, p))

(* What a product's page offers next is never itself, and is short only    *)
(* when it is all there is.                                                *)
PagesLeadOn ==
  \A p \in Range(CatalogProducts(BuiltCatalog)) :
    LET next == RelatedTo(BuiltCatalog, p) IN
    /\ p \notin Range(next)
    /\ Len(next) < Related => Range(next) = Range(CatalogProducts(BuiltCatalog)) \ {p}

(* A store's page never offers the store itself, and the category page it  *)
(* links to lists it, unless two categories share a slug.                  *)
StoresLeadOn ==
  \A r \in Range(BuiltStores) :
    /\ \A s \in Range(RelatedRetailers(BuiltStores, r)) : s.slug # r.slug
    /\ Named(BuiltStores, Slugify(r.category)) = {r.category}
         => r \in Range(ShopPage(BuiltStores, Slugify(r.category)))

(* A visitor finds everything there is, and nothing twice.                 *)
CatalogIsSound == FeaturedAreDistinct /\ CategoriesAreFull /\ PagesLeadOn /\ StoresLeadOn
=============================================================================
