----------------------------- MODULE EditorKeys ------------------------------
(***************************************************************************)
(* Who may edit a deployed site's content, and what: the editing key of a  *)
(* site (ContentController, ContentService.generateKey / ensureKey /       *)
(* disableKey), and the save of the inline editor with its whitelist of    *)
(* paths (sanitizeEdits) and its writes into the parameters (setPath).     *)
(* ensureKey and saveEdits read the row, and write it in a later           *)
(* transaction.  What becomes of the saved parameters is ContentEdits'.    *)
(***************************************************************************)
EXTENDS Naturals, Sequences, FiniteSets

CONSTANTS
  Panel,       \* operators' requests under way
  Client,      \* saves under way
  Value,       \* what a client types
  MaxClaim,    \* the largest index of a claim a path names, 99 in the code
  MaxSaved,    \* paths a save may change, 300 in the code
  MaxMinted    \* bound: keys in one behaviour

VARIABLES
  key,         \* sites.content_edit_key, 0 when editing is disabled
  minted,      \* keys made so far
  panel,       \* the operators' requests; clean: its key
               \* was neither replaced on purpose nor asked for at the same time (history)
  params,      \* sites.params
  save         \* the saves; stale: the key was replaced since it was checked (history)

vars == <<key, minted, panel, params, save>>

NoKey == 0
Hole  == "null"

(* The paths a save may name: a text, a claim, and one that may not be edited. *)
Path == [kind : {"headline", "terms_md"}] \cup [kind : {"ad_claims"}, index : 0..MaxClaim]
Allowed(path) == path.kind # "terms_md"

InitialParams == [headline |-> "written", terms_md |-> "written", ad_claims |-> <<"written">>]

Init ==
  /\ key = NoKey /\ minted = 0
  /\ panel = [p \in Panel |-> [pc |-> "idle", key |-> NoKey, clean |-> FALSE]]
  /\ params = InitialParams
  /\ save = [c \in Client |-> [pc |-> "idle"]]

-----------------------------------------------------------------------------
(* The key *)

Minting == {p \in Panel : panel[p].pc = "mint"}
Alone(p) == Minting \subseteq {p}
Disturb(who) == [p \in Panel |-> IF p \in who THEN [panel[p] EXCEPT !.clean = FALSE] ELSE panel[p]]
Outdate == [c \in Client |-> IF save[c].pc = "write" THEN [save[c] EXCEPT !.stale = TRUE] ELSE save[c]]
Holds(k, clean) == [pc |-> "has", key |-> k, clean |-> clean]

Mint == minted' = minted + 1 /\ key' = minted + 1 /\ save' = Outdate /\ UNCHANGED params
Room == minted + Cardinality(Minting) < MaxMinted

GenerateKey(p) ==
  /\ panel[p].pc # "mint" /\ Room
  /\ Mint
  /\ panel' = [Disturb(Panel) EXCEPT ![p] = Holds(minted + 1, Alone(p))]

DisableKey(p) ==
  /\ panel[p].pc # "mint"
  /\ key' = NoKey /\ save' = Outdate
  /\ panel' = [Disturb(Panel) EXCEPT ![p] = [pc |-> "idle", key |-> NoKey, clean |-> FALSE]]
  /\ UNCHANGED <<minted, params>>

(* ensureKey: the key if there is one; else a new one, in a transaction of *)
(* its own.                                                                *)
BeginMint(p) ==
  /\ Room
  /\ panel' = [Disturb(Minting) EXCEPT ![p] = [pc |-> "mint", key |-> NoKey, clean |-> Alone(p)]]

EnsureKeyAnew(p) ==
  /\ panel[p].pc # "mint" /\ BeginMint(p)
  /\ UNCHANGED <<key, minted, params, save>>

EnsureKey(p) ==
  /\ panel[p].pc # "mint"
  /\ IF key = NoKey THEN BeginMint(p) ELSE panel' = [panel EXCEPT ![p] = Holds(key, Alone(p))]
  /\ UNCHANGED <<key, minted, params, save>>

EnsureMints(p) ==
  /\ panel[p].pc = "mint"
  /\ Mint
  /\ panel' = [panel EXCEPT ![p] = Holds(minted + 1, @.clean)]

-----------------------------------------------------------------------------
(* The save *)

(* sanitizeEdits: the allowed paths, up to the limit, in the order given. *)
Sanitized(edits) ==
  LET kept[n \in 0..Len(edits)] ==
        IF n = 0 THEN << >>
        ELSE IF Allowed(edits[n].path) /\ Len(kept[n - 1]) < MaxSaved
             THEN Append(kept[n - 1], edits[n])
             ELSE kept[n - 1]
  IN  kept[Len(edits)]

(* setPath: an index past the end leaves holes before it. *)
SetIndex(seq, i, v) ==
  [n \in 1..(IF i + 1 > Len(seq) THEN i + 1 ELSE Len(seq)) |->
     IF n = i + 1 THEN v ELSE IF n <= Len(seq) THEN seq[n] ELSE Hole]

SetPath(p, e) ==
  CASE e.path.kind = "headline"  -> [p EXCEPT !.headline = e.value]
    [] e.path.kind = "terms_md"  -> [p EXCEPT !.terms_md = e.value]
    [] e.path.kind = "ad_claims" -> [p EXCEPT !.ad_claims = SetIndex(@, e.path.index, e.value)]

Merge(p, edits) ==
  LET fold[n \in 0..Len(edits)] == IF n = 0 THEN p ELSE SetPath(fold[n - 1], edits[n])
  IN  fold[Len(edits)]

Edit == [path : Path, value : Value]

(* POST /public/site-content: refused without the site's key; nothing to   *)
(* change ends it too.                                                     *)
ReadForSave(c, k, edits) ==
  /\ save[c].pc = "idle"
  /\ key # NoKey /\ k = key
  /\ Sanitized(edits) # << >>
  /\ save' = [save EXCEPT ![c] = [pc |-> "write", snap |-> params, key |-> k, stale |-> FALSE,
                                  edits |-> Sanitized(edits)]]
  /\ UNCHANGED <<key, minted, panel, params>>

WriteSave(c) ==
  /\ save[c].pc = "write"
  /\ params' = Merge(save[c].snap, save[c].edits)
  /\ save' = [save EXCEPT ![c] = [pc |-> "idle"]]
  /\ UNCHANGED <<key, minted, panel>>

Next ==
  \/ \E p \in Panel : GenerateKey(p) \/ DisableKey(p) \/ EnsureKey(p) \/ EnsureMints(p)
  \/ \E c \in Client :
       \/ \E k \in 1..minted, e, f \in Edit : ReadForSave(c, k, <<e, f>>)
       \/ WriteSave(c)

Spec == Init /\ [][Next]_vars

-----------------------------------------------------------------------------
(* Properties *)

(* A key an operator was given to share opens the editor until somebody    *)
(* replaces or disables it, unless two requests to open the editor came at *)
(* the same time: asking twice in a row does not take the first key away.  *)
SharedKeyOpens == \A p \in Panel : panel[p].pc = "has" /\ panel[p].clean => panel[p].key = key

(* The editor changes texts and claims only, whatever a save names and in  *)
(* whatever order saves overlap.                                           *)
ProtectedIsUntouched == params.terms_md = InitialParams.terms_md

(* Replacing or taking away the key stops the editor: after it only the    *)
(* saves that had been let in before still write.                          *)
OldKeyIsDead == \A c \in Client : save[c].pc = "write" /\ ~save[c].stale => save[c].key = key

(* The key alone decides who writes, and the whitelist what.               *)
EditorIsKeyed == SharedKeyOpens /\ OldKeyIsDead /\ ProtectedIsUntouched
=============================================================================
