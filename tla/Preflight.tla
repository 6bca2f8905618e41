------------------------------ MODULE Preflight ------------------------------
(***************************************************************************)
(* The compliance gate of sites/preflight.ts as a pure function of what    *)
(* an operator typed: runPreflight returns the set of its errors.          *)
(*                                                                         *)
(* A document holds                                                        *)
(*   dest      the destination URL, links and offers URLs of the same kind,*)
(*   hosts     extraAllowedHosts,                                          *)
(*   category  the template's category,                                    *)
(*   text      the length of every text parameter, 0 when blank or absent  *)
(*             (lengths are scaled: MinPrivacy stands for 100 characters), *)
(*   email     whether the contact e-mail looks like one,                  *)
(*   products  a sequence of products with the offers of other stores:     *)
(*             titled and priced, which the stock schema requires of them,  *)
(*             are read by nobody, as products are no object block of it,   *)
(*   claims    the ad claims; a blank one is NoClaim.                      *)
(* An error is its field and what is wrong with it, wording left out.      *)
(***************************************************************************)
EXTENDS Naturals, Sequences

CONSTANTS Host,          \* bare host names
          MaxProducts,   \* 12 in the code
          MaxOffers,     \* 6 in the code
          MinPrivacy,    \* 100 characters in the code
          Walked,        \* blocks of the template's schema that are objects and
                         \* list what they require
          Required,      \* text parameters in those lists
          MaxLength      \* text parameter -> its maxLength, 0 when it has none

NoClaim == "blank"

Trust == {"business_name", "contact_email", "contact_phone", "address"}
Legal == {"privacy_policy_md", "terms_md", "affiliate_disclosure_md"}
Seo   == {"title"}
Custom == {"slogan"}     \* of a block that an uploaded template adds
Text  == Trust \cup Legal \cup Seo \cup Custom

BlockOf(f) ==
  CASE f \in Trust -> "trust" [] f \in Legal -> "legal" [] f \in Seo -> "seo" [] OTHER -> "custom"

(* A URL that does not parse has no host; "www." in front of a host is      *)
(* kept apart to be stripped.                                               *)
Url   == [kind : {"none"}] \cup [kind : {"http", "https"}, www : BOOLEAN, host : Host]
Offered == [url : Url, named : BOOLEAN, priced : BOOLEAN]
Listed  == [url : Url, titled : BOOLEAN, offers : Seq(Offered)]

Document ==
  [dest : Url, hosts : SUBSET Host, category : STRING, text : [Text -> Nat], email : BOOLEAN,
   products : Seq(Listed), claims : Seq(STRING), tags : SUBSET STRING]

(* A bare host is never the null of a URL that does not parse, and a list   *)
(* of what is required is what has a block walked.                         *)
ASSUME GateAssumption ==
  /\ "null" \notin Host
  /\ MaxProducts \in Nat /\ MaxOffers \in Nat /\ MinPrivacy \in Nat
  /\ MaxLength \in [Text -> Nat]
  /\ \A f \in Required : f \in Text /\ BlockOf(f) \in Walked

Err(field, what) == [field |-> field, what |-> what]
Raise(cond, field, what) == IF cond THEN {Err(field, what)} ELSE {}

HostOf(url) == IF url.kind = "none" THEN "null" ELSE url.host
IsHttps(url) == url.kind = "https"

(* Every category that advertises other stores' offers. *)
NeedsDisclosure(category) == category \in {"prelander", "comparison"}

DestinationErrors(d) ==
  Raise(HostOf(d.dest) = "null", <<"destination_url">>, "invalid")
    \cup Raise(d.dest.kind = "http", <<"destination_url">>, "insecure")

AllowedHosts(d) == ({HostOf(d.dest)} \cup d.hosts) \ {"null"}

TrustErrors(d) ==
  (UNION {Raise(d.text[f] = 0, <<f>>, "required") : f \in Trust})
    \cup Raise(d.text["contact_email"] > 0 /\ ~d.email, <<"contact_email">>, "invalid")

LegalErrors(d) ==
  Raise(d.text["privacy_policy_md"] < MinPrivacy, <<"privacy_policy_md">>,
        IF d.text["privacy_policy_md"] = 0 THEN "required" ELSE "short")
    \cup Raise(d.text["terms_md"] = 0, <<"terms_md">>, "required")
    \cup Raise(NeedsDisclosure(d.category) /\ d.text["affiliate_disclosure_md"] = 0,
               <<"affiliate_disclosure_md">>, "required")

(* checkOutbound; without a destination there is nothing to compare with. *)
OutboundErrors(d, field, url) ==
  CASE url.kind = "none" -> {Err(field, "required")}
    [] url.kind = "http" -> {Err(field, "insecure")}
    [] OTHER -> Raise(HostOf(d.dest) # "null" /\ HostOf(url) \notin AllowedHosts(d),
                      field, "off-destination")

OfferErrors(d, i) ==
  LET offers == d.products[i].offers
  IN  (UNION {Raise(~offers[j].named, <<i, j, "store_name">>, "required")
                \cup OutboundErrors(d, <<i, j, "target_url">>, offers[j].url) :
              j \in DOMAIN offers})
        \cup Raise(Len(offers) > MaxOffers, <<i, "offers">>, "too many")

ProductErrorsSkipOffers(d) ==
  UNION {OutboundErrors(d, <<i, "target_url">>, d.products[i].url) : i \in DOMAIN d.products}

ProductErrors(d) ==
  (UNION {OutboundErrors(d, <<i, "target_url">>, d.products[i].url) \cup OfferErrors(d, i) :
          i \in DOMAIN d.products})
    \cup Raise(Len(d.products) > MaxProducts, <<"products">>, "too many")

ClaimErrors(d) ==
  UNION {Raise(d.claims[i] = NoClaim, <<i, "ad_claims">>, "required") : i \in DOMAIN d.claims}

(* The walk of the template's schema: a required field that is blank and   *)
(* has no error yet, a text over its maxLength.  A block without a list of *)
(* what it requires is passed over, its maxLengths too.                    *)
SchemaErrors(d, errors) ==
  (UNION {Raise(d.text[f] = 0 /\ \A e \in errors : e.field # <<f>>, <<f>>, "required") :
          f \in Required})
    \cup UNION {Raise(MaxLength[f] > 0 /\ d.text[f] > MaxLength[f], <<f>>, "long") :
                f \in {g \in Text : BlockOf(g) \in Walked}}

RunPreflight(d) ==
  LET errors == DestinationErrors(d) \cup TrustErrors(d) \cup LegalErrors(d)
                  \cup ProductErrors(d) \cup ClaimErrors(d)
  IN  errors \cup SchemaErrors(d, errors)

Passes(d) == RunPreflight(d) = {}

-----------------------------------------------------------------------------
(* What the gate is for, said without its order of checks: the URLs a      *)
(* visitor can be sent to are secure and go to declared stores, who runs   *)
(* the site and under what terms can be read on it, and what the template   *)
(* limits in a block that also requires something is within its limits.    *)
Outbound(d) ==
  {d.products[i].url : i \in DOMAIN d.products}
    \cup UNION {{d.products[i].offers[j].url : j \in DOMAIN d.products[i].offers} :
                i \in DOMAIN d.products}

Compliant(d) ==
  /\ \A u \in Outbound(d) \cup {d.dest} :
       IsHttps(u) /\ u.host \in d.hosts \cup {d.dest.host}
  /\ \A f \in Trust \cup Required \cup {"terms_md"} : d.text[f] # 0
  /\ d.email
  /\ d.text["privacy_policy_md"] >= MinPrivacy
  /\ NeedsDisclosure(d.category) => d.text["affiliate_disclosure_md"] # 0
  /\ \A f \in Text : BlockOf(f) \in Walked => MaxLength[f] = 0 \/ d.text[f] <= MaxLength[f]
  /\ NoClaim \notin {d.claims[i] : i \in DOMAIN d.claims}
  /\ Len(d.products) <= MaxProducts
  /\ \A i \in DOMAIN d.products :
       /\ Len(d.products[i].offers) <= MaxOffers
       /\ \A j \in DOMAIN d.products[i].offers : d.products[i].offers[j].named
=============================================================================
