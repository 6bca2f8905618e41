---------------------------- MODULE MCDocuments ------------------------------
(* Documents that differ from a good one in up to two places, and a small   *)
(* shop: texts of one slug, products of one page, stores of two categories. *)
EXTENDS Preflight

Good == [dest |-> [kind |-> "https", www |-> FALSE, host |-> "store"],
         hosts |-> {}, category |-> "prelander",
         text |-> [f \in Text |-> 2], email |-> TRUE,
         products |-> << >>, claims |-> <<"free">>, tags |-> {"ga4"}]

MCMaxLength == [f \in Text |-> IF f \in {"title", "slogan"} THEN 2 ELSE 0]

Urls == {[kind |-> "none"], [kind |-> "http", www |-> FALSE, host |-> "store"]}
          \cup [kind : {"https"}, www : BOOLEAN, host : {"store", "other"}]
Safe == [kind |-> "https", www |-> FALSE, host |-> "store"]
Link(u) == [url |-> u, titled |-> TRUE, offers |-> << >>]
Offer(u, n) == [url |-> u, named |-> n, priced |-> n]
Compared(offers) == [url |-> Safe, titled |-> FALSE, offers |-> offers]
ProductLists ==
  {<<Link(u)>> : u \in Urls}
    \cup {<<Compared(<<Offer(u, n)>>)>> : u \in Urls, n \in BOOLEAN}
    \cup {<<Compared(<<Offer(Safe, TRUE), Offer(Safe, TRUE)>>)>>,
          <<Link(Safe), Link(Safe)>>}

Vary(d) ==
  {d} \cup {[d EXCEPT !.text[f] = n] : f \in Text, n \in {0, 1, 3}}
    \cup {[d EXCEPT !.dest = u] : u \in Urls}
    \cup {[d EXCEPT !.products = p] : p \in ProductLists}
    \cup {[d EXCEPT !.hosts = {"other"}], [d EXCEPT !.category = "ecom_showcase"],
          [d EXCEPT !.email = FALSE], [d EXCEPT !.claims = <<"free", NoClaim>>]}

MCDraft == UNION {Vary(d) : d \in Vary(Good)}

(* A second good document with another claim and no tag, a bad one. *)
Other == [Good EXCEPT !.claims = <<"new">>, !.tags = {"pushvault"}]
Bad   == [Good EXCEPT !.text["terms_md"] = 0]
MCDeployed == {Good, Other, Bad}

Worded(slug, wording) == [slug |-> slug, wording |-> wording]
MCQuery   == {Worded("tv", 1), Worded("tv", 2), Worded("fan", 1)}
MCProduct == {[title |-> Worded("a", 1), link |-> 0], [title |-> Worded("a", 2), link |-> 2],
              [title |-> Worded("b", 1), link |-> 1]}
MCCurated == <<[slug |-> "s1", category |-> Worded("home", 1)],
               [slug |-> "s2", category |-> Worded("home", 1)],
               [slug |-> "s3", category |-> Worded("auto", 1)]>>
MCCategory == {Worded("home", 2), Worded("auto", 1)}
=============================================================================
