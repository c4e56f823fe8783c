----------------------------- MODULE WebPosting -----------------------------
(***************************************************************************)
(* Posting from the web portal, as far as it depends on what               *)
(* administrators do to the groups meanwhile: a post is checked against    *)
(* the unwanted and the moderated groups, charged to its user's quota of   *)
(* binary posts, stored, and then noted for flood detection, each with     *)
(* statements of its own.  A resolution of an alert is two statements.     *)
(*                                                                         *)
(* All posts are of one user on one day, binary, and without an Approved   *)
(* header; a flood is found or not.                                        *)
(***************************************************************************)
EXTENDS Naturals, FiniteSets, Sequences, SequencesExt

CONSTANTS
  WebGroups,
  PostRequests,      \* concurrent requests to the portal
  PostHeaders,       \* the Newsgroups headers they have, as sequences
  WebStatuses,       \* pairs of a group and a status that an administrator sets
  FloodGroups,       \* the groups in which a flood may be found
  DailyLimit,        \* retention.user_binary_posts_per_day
  MaxCharged, MaxOpen  \* bounds: charged posts, open alerts of a group

\* Headers name a group; a limit of 0 would be no limit.
ASSUME WebAssumption ==
  /\ PostHeaders \subseteq Seq(WebGroups) \ {<<>>}
  /\ WebStatuses \subseteq WebGroups \X {"y", "m", "n"}
  /\ FloodGroups \subseteq WebGroups
  /\ DailyLimit \in Nat \ {0} /\ MaxCharged \in Nat /\ MaxOpen \in Nat

VARIABLES
  wg,          \* newsgroups: status and retention mode
  openAlerts,  \* of each group, its open alerts
  resolving,   \* the alert resolutions whose second statement is to come, by group
  webPost,     \* what each request is at
  quota,       \* user_binary_posts: the row's count; 0 is no row
  charged,     \* how many posts passed the quota
  unlocked     \* how often the quota was read without a row to lock; 2 for more often

webVars == <<wg, openAlerts, resolving, webPost, quota, charged, unlocked>>

NoRequest == [step |-> "idle"]

\* The mode of a group nothing was decided about.
Unset == ""
WebModes == {Unset, "auto", "whitelist", "blocked"}

WebInit ==
  /\ wg = [g \in WebGroups |-> [status |-> "y", mode |-> Unset]]
  /\ openAlerts = [g \in WebGroups |-> 0]
  /\ resolving = {}
  /\ webPost = [r \in PostRequests |-> NoRequest]
  /\ quota = 0 /\ charged = 0 /\ unlocked = 0

Goes(r, step) == webPost' = [webPost EXCEPT ![r].step = step]
Ends(r) == webPost' = [webPost EXCEPT ![r] = NoRequest]

-----------------------------------------------------------------------------
(* posting.Accept. *)

\* GroupsUnwanted; a header refused for the pattern of a ban is as if it had not been sent.
CheckWanted(r, header) ==
  /\ webPost[r] = NoRequest
  /\ \A g \in ToSet(header) : wg[g].mode # "blocked"
  /\ webPost' = [webPost EXCEPT ![r] = [step |-> "moderation", groups |-> header, turned |-> {}]]
  /\ UNCHANGED <<wg, openAlerts, resolving, quota, charged, unlocked>>

\* Mutation of Target: only the first group is looked at.
TargetFirst(header) == IF wg[header[1]].status = "m" THEN {header[1]} ELSE {}

\* The moderated groups of the header; a post goes to the moderator of the first of them.
Target(header) == {g \in ToSet(header) : wg[g].status = "m"}

\* A post to a moderated group is mailed, or refused if it cannot be, and not stored.
CheckModeration(r) ==
  /\ webPost[r].step = "moderation"
  /\ IF Target(webPost[r].groups) = {} THEN Goes(r, "charge") ELSE Ends(r)
  /\ UNCHANGED <<wg, openAlerts, resolving, quota, charged, unlocked>>

\* The user's row is locked by the request that has read it, if there was one to read.
RowLocked == \E r \in PostRequests : webPost[r].step = "charging" /\ webPost[r].count > 0

\* Mutation of QuotaReads: SELECT without FOR UPDATE.
QuotaReadsOnly(r) ==
  /\ webPost[r].step = "charge"
  /\ IF quota >= DailyLimit THEN Ends(r)
     ELSE webPost' = [webPost EXCEPT ![r] = [step |-> "charging", groups |-> @.groups,
                                             turned |-> @.turned, count |-> quota]]
  /\ unlocked' = IF quota = 0 /\ unlocked < 2 THEN unlocked + 1 ELSE unlocked
  /\ UNCHANGED <<wg, openAlerts, resolving, quota, charged>>

\* SELECT ... FOR UPDATE; the limit is checked with what it returns.
QuotaReads(r) ==
  /\ webPost[r].step = "charge"
  /\ ~RowLocked
  /\ IF quota >= DailyLimit THEN Ends(r)
     ELSE webPost' = [webPost EXCEPT ![r] = [step |-> "charging", groups |-> @.groups,
                                             turned |-> @.turned, count |-> quota]]
  /\ unlocked' = IF quota = 0 /\ unlocked < 2 THEN unlocked + 1 ELSE unlocked
  /\ UNCHANGED <<wg, openAlerts, resolving, quota, charged>>

\* The upsert and the commit; it waits for the lock of another request.
QuotaWrites(r) ==
  /\ webPost[r].step = "charging"
  /\ webPost[r].count > 0 \/ ~RowLocked
  /\ charged < MaxCharged
  /\ quota' = webPost[r].count + 1
  /\ charged' = charged + 1
  /\ webPost' = [webPost EXCEPT ![r] = [step |-> "store", groups |-> @.groups,
                                        turned |-> @.turned]]
  /\ UNCHANGED <<wg, openAlerts, resolving, unlocked>>

\* Post leaves out the groups of status n.
StorePost(r) ==
  LET used == {g \in ToSet(webPost[r].groups) : wg[g].status # "n"} IN
  /\ webPost[r].step = "store"
  /\ IF used = {} THEN Ends(r)
     ELSE webPost' = [webPost EXCEPT ![r] = [step |-> "note", groups |-> @.groups,
                                             turned |-> @.turned, used |-> used]]
  /\ UNCHANGED <<wg, openAlerts, resolving, quota, charged, unlocked>>

\* NoteAccept reads the mode of the next group; a whitelisted one is passed over, and so is
\* one without a flood.
NoteReads(r) ==
  /\ webPost[r].step = "note"
  /\ LET header == webPost[r].groups
         g      == header[1]
         rest   == Tail(header)
     IN
     \/ /\ wg[g].mode # "whitelist" /\ g \in FloodGroups
        /\ Goes(r, "limit")
     \/ IF rest = <<>> THEN Ends(r) ELSE webPost' = [webPost EXCEPT ![r].groups = rest]
  /\ UNCHANGED <<wg, openAlerts, resolving, quota, charged, unlocked>>

\* UPDATE newsgroups SET retention_mode = auto ... WHERE retention_mode <> whitelist.
Limited(g) == IF wg[g].mode = "whitelist" THEN wg ELSE [wg EXCEPT ![g].mode = "auto"]

NoteLimits(r) ==
  /\ webPost[r].step = "limit"
  /\ wg' = Limited(webPost[r].groups[1])
  /\ Goes(r, "alert")
  /\ UNCHANGED <<openAlerts, resolving, quota, charged, unlocked>>

Noted(r) == LET rest == Tail(webPost[r].groups) IN
  IF rest = <<>> THEN Ends(r)
  ELSE webPost' = [webPost EXCEPT ![r].step = "note", ![r].groups = rest]

\* ensureOpenAlert selects an open alert and updates it,
AlertFound(r) ==
  /\ webPost[r].step = "alert"
  /\ IF openAlerts[webPost[r].groups[1]] > 0 THEN Noted(r) ELSE Goes(r, "newalert")
  /\ UNCHANGED <<wg, openAlerts, resolving, quota, charged, unlocked>>

\* or inserts one, beside one that was inserted since.
AlertInserted(r) ==
  LET g == webPost[r].groups[1] IN
  /\ webPost[r].step = "newalert"
  /\ openAlerts[g] < MaxOpen
  /\ openAlerts' = [openAlerts EXCEPT ![g] = @ + 1]
  /\ Noted(r)
  /\ UNCHANGED <<wg, resolving, quota, charged, unlocked>>

\* A statement or the mail fails, or the client goes away: what was charged stays charged.
RequestEnds(r) ==
  /\ webPost[r] # NoRequest
  /\ Ends(r)
  /\ UNCHANGED <<wg, openAlerts, resolving, quota, charged, unlocked>>

-----------------------------------------------------------------------------
(* Administrators. *)

\* EnsureGroup and the control messages set a group's status.
SetStatus(g, status) ==
  /\ wg' = [wg EXCEPT ![g].status = status]
  /\ webPost' = IF status # "m" THEN webPost
                ELSE [r \in PostRequests |-> IF webPost[r] = NoRequest THEN NoRequest
                                             ELSE [webPost[r] EXCEPT !.turned = @ \union {g}]]
  /\ UNCHANGED <<openAlerts, resolving, quota, charged, unlocked>>

\* ResolveGroupAlert changes the group's row,
ResolveRow(g) ==
  /\ g \notin resolving
  /\ wg' \in {[wg EXCEPT ![g] = [status |-> "n", mode |-> "blocked"]],
              [wg EXCEPT ![g].mode = "whitelist"],
              [wg EXCEPT ![g].mode = Unset],
              wg}
  /\ resolving' = resolving \union {g}
  /\ UNCHANGED <<openAlerts, webPost, quota, charged, unlocked>>

\* and then the alert's, unless the statement fails.
ResolveAlert(g) ==
  /\ g \in resolving
  /\ openAlerts' \in {openAlerts, [openAlerts EXCEPT ![g] = IF @ > 0 THEN @ - 1 ELSE 0]}
  /\ resolving' = resolving \ {g}
  /\ UNCHANGED <<wg, webPost, quota, charged, unlocked>>

WebNext ==
  \/ \E r \in PostRequests :
       \/ \E header \in PostHeaders : CheckWanted(r, header)
       \/ CheckModeration(r)
       \/ QuotaReads(r) \/ QuotaWrites(r)
       \/ StorePost(r)
       \/ NoteReads(r) \/ NoteLimits(r) \/ AlertFound(r) \/ AlertInserted(r)
       \/ RequestEnds(r)
  \/ \E x \in WebStatuses : SetStatus(x[1], x[2])
  \/ \E g \in FloodGroups : ResolveRow(g) \/ ResolveAlert(g)

WebSpec == WebInit /\ [][WebNext]_webVars

-----------------------------------------------------------------------------

\* The types of the groups, the alerts, the quota and the posts under way.
WebTypeOK ==
  /\ wg \in [WebGroups -> [status : {"y", "m", "n"}, mode : WebModes]]
  /\ openAlerts \in [WebGroups -> 0..MaxOpen]
  /\ resolving \subseteq WebGroups
  /\ quota \in 0..DailyLimit /\ charged \in 0..MaxCharged /\ unlocked \in 0..2
  /\ \A r \in PostRequests : webPost[r].step \in
       {"idle", "moderation", "charge", "charging", "store", "note", "limit", "alert", "newalert"}

\* The quota counts every post it let pass, so that no more than the limit do, although it is
\* read and written by two statements; only several first posts of a day at once, for which
\* there is no row to lock yet, may be counted as one.
QuotaCountsPosts ==
  /\ quota <= DailyLimit
  /\ unlocked <= 1 => quota = charged

\* A post that is stored in a moderated group without approval was past the check before the
\* group became moderated, whichever group of its header it is.
UnapprovedOnlyByRace ==
  [][\A r \in PostRequests :
       webPost[r].step = "store" /\ webPost'[r].step = "note" =>
         \A g \in webPost'[r].used : wg[g].status = "m" => g \in webPost[r].turned]_webVars
=============================================================================
