----------------------------- MODULE RecordPage ------------------------------
(***************************************************************************)
(* A page of one site's record (SiteRecordPage): it loads the record with  *)
(* the funnel of the campaign chosen and the key of the inline editor, and *)
(* acts on the site, as other pages do.  Of the record, the campaign links *)
(* are kept, as the number of changes made to them.  What the page has     *)
(* under way are tasks: an action and then the reload it ends with, or a   *)
(* reload alone.                                                           *)
(***************************************************************************)
EXTENDS Naturals

CONSTANTS
  Task,                                \* slots for what the page has under way
  Campaign,                            \* what the funnel can be filtered by
  MaxChanges, MaxMinted, MaxFailures   \* bounds: changes of the links, keys minted,
                                       \* requests that fail

VARIABLES
  links, key, minted,  \* the panel's rows
  page,
  tasks,
  failures

vars == <<links, key, minted, page, tasks, failures>>

AllTraffic == "all traffic"
NoKey      == 0

(* The cross of a link and the auto-renew checkbox ("toggle") can be pressed *)
(* whatever is under way; the other buttons while none is busy.  Those that *)
(* renew the certificate, roll back or save the tracking do no more here   *)
(* than the checkbox.                                                      *)
KeyActions  == {"enable", "rotate", "disable"}
LinkChanges == {"delete link", "add link"}
Ungated     == {"delete link", "toggle"}

(* A task's action is sent, then written by the panel; its reload is asked  *)
(* for, then read.  does, of a reload: "act" if it ends an action, or else *)
(* "load".  The filter is that of the render the task began in.            *)
Free == [does |-> "load", at |-> "idle", filter |-> AllTraffic, key |-> NoKey,
         links |-> 0, alone |-> FALSE]

IsFree(t)    == tasks[t].at = "idle"
At(t, at)    == tasks[t].at = at
Does(t)      == tasks[t].does
Loading      == {t \in Task : tasks[t].at \in {"asked", "read"}}
KeyDue(r)    == r.does \in KeyActions /\ r.at = "written"
LinkDue(r)   == r.does \in LinkChanges /\ r.at = "written"

(* loaded: until the first reload has come there is but a placeholder.      *)
(* shows: the funnel's campaign and the links.  busy: an action is said to *)
(* be under way.  wrote, muddled and linkHolds are history, and so is      *)
(* alone of a reload: no other was under way with it.  muddled: a reload   *)
(* overlapped another, came from a render with another filter or failed,   *)
(* or the answer to a change was lost, and no reload alone came since.     *)
(* linkHolds: what the page has of the key is right once a due answer      *)
(* comes.                                                                  *)
Init ==
  /\ links = 0 /\ key = NoKey /\ minted = 0 /\ failures = 0
  /\ page = [loaded |-> FALSE, filter |-> AllTraffic, shows |-> [filter |-> AllTraffic, links |-> 0],
             busy |-> FALSE, editKey |-> NoKey,
             keyGet |-> [at |-> "sent", key |-> NoKey, fresh |-> FALSE],
             wrote |-> 0, muddled |-> FALSE, linkHolds |-> FALSE]
  /\ \E t \in Task :
       tasks = [u \in Task |-> IF u = t THEN [Free EXCEPT !.at = "asked", !.alone = TRUE] ELSE Free]

-----------------------------------------------------------------------------
(* reload *)

(* A reload begins in slot t. *)
Asks(t, does, filter) ==
  tasks' = [u \in Task |->
              IF u = t THEN [Free EXCEPT !.does = does, !.at = "asked", !.filter = filter, !.alone = (Loading = {})]
                       ELSE [tasks[u] EXCEPT !.alone = FALSE]]

Muddled(filter) == page.muddled \/ Loading # {} \/ filter # page.filter

(* A new filter makes a new reload function, which the effect runs.        *)
SetFilter(t, c) ==
  /\ page.loaded /\ IsFree(t) /\ c # page.filter
  /\ page' = [page EXCEPT !.filter = c, !.muddled = @ \/ Loading # {}]
  /\ Asks(t, "load", c)
  /\ UNCHANGED <<links, key, minted, failures>>

(* Promise.all of the record's parts *)
ReadRecord(t) ==
  /\ At(t, "asked")
  /\ tasks' = [tasks EXCEPT ![t].at = "read", ![t].links = links]
  /\ UNCHANGED <<links, key, minted, page, failures>>

(* The end of an action's reload is the end of the action, and of busy,     *)
(* whatever else is under way.                                             *)
Idles(t) == page.busy /\ Does(t) = "load"

ReloadArrives(t) ==
  /\ At(t, "read")
  /\ page' = [page EXCEPT !.loaded = TRUE, !.busy = Idles(t),
                          !.shows = [filter |-> tasks[t].filter, links |-> tasks[t].links],
                          !.muddled = @ /\ ~(tasks[t].alone /\ tasks[t].filter = page.filter)]
  /\ tasks' = [tasks EXCEPT ![t] = Free]
  /\ UNCHANGED <<links, key, minted, failures>>

ReloadFails(t) ==
  /\ t \in Loading /\ failures < MaxFailures /\ failures' = failures + 1
  /\ page' = [page EXCEPT !.busy = Idles(t), !.muddled = TRUE]
  /\ tasks' = [tasks EXCEPT ![t] = Free]
  /\ UNCHANGED <<links, key, minted>>

-----------------------------------------------------------------------------
(* action(label, fn): what it does, then a reload, then nothing is busy.    *)

Act(t, does) ==
  /\ page.loaded /\ IsFree(t)
  /\ does \notin Ungated => ~page.busy
  /\ does \in {"rotate", "disable"} => page.editKey # NoKey
  /\ does = "enable" => page.editKey = NoKey
  /\ page' = [page EXCEPT !.busy = TRUE]
  /\ tasks' = [tasks EXCEPT ![t] = [Free EXCEPT !.does = does, !.at = "sent", !.filter = page.filter]]
  /\ UNCHANGED <<links, key, minted, failures>>

(* AddCampaign says itself that it is busy. *)
AddLink(t) ==
  /\ page.loaded /\ IsFree(t) /\ ~page.busy
  /\ \A u \in Task : ~(Does(u) = "add link")
  /\ tasks' = [tasks EXCEPT ![t] = [Free EXCEPT !.does = "add link", !.at = "sent", !.filter = page.filter]]
  /\ UNCHANGED <<links, key, minted, page, failures>>

ChangeLinks == links < MaxChanges /\ links' = links + 1 /\ UNCHANGED <<key, minted>>

NewKey == minted < MaxMinted /\ minted' = minted + 1 /\ key' = minted + 1 /\ UNCHANGED links

(* The panel carries the request out.  The link shown is right afterwards  *)
(* unless the page was still asking for the key, or another answer about   *)
(* it is due, which may come first or last.                                *)
WriteKey(t) ==
  /\ At(t, "sent") /\ Does(t) \in KeyActions
  /\ IF Does(t) = "disable" THEN key' = NoKey /\ UNCHANGED <<links, minted>> ELSE NewKey
  /\ tasks' = [tasks EXCEPT ![t].at = "written", ![t].key = key']
  /\ page' = [page EXCEPT !.linkHolds = page.keyGet.at = "done" /\ \A u \in Task : ~KeyDue(tasks[u]),
                          !.keyGet.fresh = FALSE]
  /\ UNCHANGED failures

WriteLink(t) ==
  /\ At(t, "sent") /\ Does(t) \in LinkChanges
  /\ ChangeLinks
  /\ tasks' = [tasks EXCEPT ![t].at = "written"]
  /\ page' = [page EXCEPT !.wrote = links + 1]
  /\ UNCHANGED failures

(* Slip: the key that replaces another is not taken up. *)
KeyAfterEnableOnly(r) ==
  IF r.does \in {"enable", "disable"} THEN r.key ELSE page.editKey

(* setEditKey with the answer, unless the action was not about the key.    *)
KeyAfter(r) ==
  IF r.does \in KeyActions THEN r.key ELSE page.editKey

(* The reload is that of the render in which the button was pressed.       *)
Answered(t) ==
  /\ \/ At(t, "written") /\ Does(t) # "add link"
     \/ At(t, "sent") /\ Does(t) = "toggle"
  /\ page' = [page EXCEPT !.editKey = KeyAfter(tasks[t]), !.muddled = Muddled(tasks[t].filter)]
  /\ Asks(t, "act", tasks[t].filter)
  /\ UNCHANGED <<links, key, minted, failures>>

(* Slip: the list is left as it was. *)
AddedAtOnce(t) ==
  /\ At(t, "written") /\ Does(t) = "add link"
  /\ tasks' = [tasks EXCEPT ![t] = Free]
  /\ UNCHANGED <<links, key, minted, page, failures>>

(* AddCampaign: onAdded, the reload, is not waited for.                    *)
Added(t) ==
  /\ At(t, "written") /\ Does(t) = "add link"
  /\ page' = [page EXCEPT !.muddled = Muddled(tasks[t].filter)]
  /\ Asks(t, "load", tasks[t].filter)
  /\ UNCHANGED <<links, key, minted, failures>>

(* The stream of a rebuild has ended or broken: nothing is busy any more,   *)
(* and then comes the reload.                                              *)
Rebuilt(t) ==
  /\ At(t, "sent") /\ Does(t) = "rebuild"
  /\ page' = [page EXCEPT !.busy = FALSE, !.muddled = Muddled(tasks[t].filter)]
  /\ Asks(t, "load", tasks[t].filter)
  /\ UNCHANGED <<links, key, minted, failures>>

(* An action or a link to be added is refused, or its answer lost: no       *)
(* reload, and nothing is busy any more.                                   *)
Fails(t) ==
  /\ tasks[t].at \in {"sent", "written"} /\ Does(t) # "rebuild"
  /\ failures < MaxFailures /\ failures' = failures + 1
  /\ page' = [page EXCEPT !.busy = @ /\ Does(t) = "add link",
                          !.muddled = @ \/ LinkDue(tasks[t]),
                          !.linkHolds = @ /\ ~KeyDue(tasks[t])]
  /\ tasks' = [u \in Task |-> IF u = t THEN Free
                              ELSE [tasks[u] EXCEPT !.alone = @ /\ ~LinkDue(tasks[t])]]
  /\ UNCHANGED <<links, key, minted>>

-----------------------------------------------------------------------------
KeyGot == [at |-> "done", key |-> NoKey, fresh |-> FALSE]

(* loadEditKey, once: its answer may be older than what an action set; a    *)
(* failure is ignored.                                                     *)
ReadKey ==
  /\ page.keyGet.at = "sent"
  /\ page' = [page EXCEPT !.keyGet = [at |-> "read", key |-> key, fresh |-> TRUE]]
  /\ UNCHANGED <<links, key, minted, tasks, failures>>

KeyArrives ==
  /\ page.keyGet.at = "read"
  /\ page' = [page EXCEPT !.keyGet = KeyGot, !.editKey = page.keyGet.key,
                          !.linkHolds = page.keyGet.fresh /\ \A t \in Task : ~KeyDue(tasks[t])]
  /\ UNCHANGED <<links, key, minted, tasks, failures>>

KeyFails ==
  /\ page.keyGet.at # "done" /\ failures < MaxFailures /\ failures' = failures + 1
  /\ page' = [page EXCEPT !.keyGet = KeyGot]
  /\ UNCHANGED <<links, key, minted, tasks>>

(* "Edit live content", here or elsewhere: ensureKey mints a key if there  *)
(* is none, and the page does not take it up.  Other pages act as well.    *)
Elsewhere ==
  /\ \/ NewKey
     \/ key' = NoKey /\ UNCHANGED <<links, minted>>
     \/ ChangeLinks
  /\ page' = [page EXCEPT !.linkHolds = @ /\ key' = key, !.keyGet.fresh = @ /\ key' = key]
  /\ UNCHANGED <<tasks, failures>>

TaskStep(t) ==
  \/ \E c \in Campaign : SetFilter(t, c)
  \/ \E does \in KeyActions \cup Ungated \cup {"rebuild"} : Act(t, does)
  \/ AddLink(t) \/ WriteKey(t) \/ WriteLink(t)
  \/ Answered(t) \/ Added(t) \/ Rebuilt(t) \/ Fails(t)
  \/ ReadRecord(t) \/ ReloadArrives(t) \/ ReloadFails(t)

Next == (\E t \in Task : TaskStep(t)) \/ ReadKey \/ KeyArrives \/ KeyFails \/ Elsewhere

Spec == Init /\ [][Next]_vars

-----------------------------------------------------------------------------
(* Properties *)

(* The funnel is that of the campaign chosen, unless reloads overlapped or *)
(* an action began under another filter: its reload asks for the old one.  *)
FunnelIsChosen == Loading = {} /\ ~page.muddled => page.shows.filter = page.filter

(* A page at rest shows the changes of the links it made itself.           *)
OwnChangeIsShown ==
  (\A t \in Task : IsFree(t)) /\ ~page.muddled => page.shows.links >= page.wrote

(* What stands on the page is what the operator chose and did.             *)
PageIsCurrent == FunnelIsChosen /\ OwnChangeIsShown

(* The link to the editor opens it, and there is none if editing is off,    *)
(* until somebody else changes the key, the answer of an action is lost or *)
(* two actions on the key overlap, which another one's end makes possible. *)
ShownLinkOpens ==
  page.linkHolds /\ (\A t \in Task : ~KeyDue(tasks[t])) => page.editKey = key
=============================================================================
