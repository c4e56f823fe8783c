----------------------------- MODULE GroupAdmin -----------------------------
(***************************************************************************)
(* The list of newsgroups and everyone who changes it: control messages    *)
(* that sessions apply, imports of the ISC's list, administrators, and the *)
(* seeding at a start.  A row has a status and the origin that decides who *)
(* may change it later.  Every statement is a step; rmgroup may need two,  *)
(* and checkgroups works through a list of groups that it read before.     *)
(*                                                                         *)
(* Names, hierarchies and descriptions are what they select: a checkgroups *)
(* message is its entries and the groups of its hierarchies.  Control      *)
(* messages that the policy does not allow change nothing.                 *)
(***************************************************************************)
EXTENDS Naturals, FiniteSets, Sequences

CONSTANTS
  ActiveGroups,   \* the names that may be newsgroups
  ControlSessions,\* sessions that receive control messages, concurrently
  Checkgroups,    \* checkgroups messages: entries, with a status each, and hierarchy
  IscLists,       \* batches of an import: functions of some groups to their status
  BuiltinGroups,  \* control.cancel and the others
  NoRow

VARIABLES
  active,   \* newsgroups: status and origin of each row
  control,  \* the control message each session is applying
  seeding,  \* builtin groups that a starting server found missing
  removed   \* groups whose rmgroup was applied and that nobody asked for since

activeVars == <<active, control, seeding, removed>>

ActiveStatuses == {"y", "m", "n"}
ActiveRows == [status : ActiveStatuses, origin : {"isc", "local", "control"}]
NoControl == [step |-> "none"]

\* Messages and lists name groups of the model, with statuses that newgroup may give.
ASSUME GroupsAssumption ==
  /\ NoRow \notin ActiveRows
  /\ BuiltinGroups \subseteq ActiveGroups
  /\ \A msg \in Checkgroups :
       /\ DOMAIN msg.entries \subseteq ActiveGroups /\ msg.hierarchy \subseteq ActiveGroups
       /\ \A g \in DOMAIN msg.entries : msg.entries[g] \in ActiveStatuses
  /\ \A list \in IscLists : \A g \in DOMAIN list : list[g] \in ActiveStatuses

GroupInit ==
  /\ active = [g \in ActiveGroups |-> NoRow]
  /\ control = [s \in ControlSessions |-> NoControl]
  /\ seeding = {}
  /\ removed = {}

Listed(g) == active[g] # NoRow

-----------------------------------------------------------------------------
(* Statements of the store. *)

ApplyControlGroup(g, status) ==
  /\ active' = [active EXCEPT ![g] = [status |-> status, origin |-> "control"]]
  /\ removed' = removed \ {g}

EnsureActive(g, status) ==
  /\ active' = [active EXCEPT ![g] =
       [status |-> status,
        origin |-> IF Listed(g) /\ active[g].origin = "control" THEN "control" ELSE "local"]]
  /\ removed' = removed \ {g}

Disabled(g) == [active EXCEPT ![g] = [status |-> "n", origin |-> "control"]]

\* Mutation of DisabledUnknown: the INSERT gives way to a row that came meanwhile.
DisabledUnknownOnly(g) == IF Listed(g) THEN active ELSE Disabled(g)

\* The INSERT for an unknown group overwrites a row that came meanwhile.
DisabledUnknown(g) == Disabled(g)

\* Whether an import of the ISC's list may write the row.
Importable(g) == Listed(g) => active[g].origin = "isc"

-----------------------------------------------------------------------------
(* Control messages. *)

NewgroupApplied(s, g, status) ==
  /\ control[s] = NoControl
  /\ ApplyControlGroup(g, status)
  /\ UNCHANGED <<control, seeding>>

\* UPDATE newsgroups SET status = n: a known group is disabled at once.
RmgroupUpdates(s, g) ==
  /\ control[s] = NoControl
  /\ IF Listed(g)
     THEN active' = Disabled(g) /\ removed' = removed \union {g} /\ UNCHANGED control
     ELSE /\ control' = [control EXCEPT ![s] = [step |-> "insert", group |-> g]]
          /\ UNCHANGED <<active, removed>>
  /\ UNCHANGED seeding

RmgroupInserts(s) ==
  /\ control[s].step = "insert"
  /\ active' = DisabledUnknown(control[s].group)
  /\ removed' = removed \union {control[s].group}
  /\ control' = [control EXCEPT ![s] = NoControl]
  /\ UNCHANGED seeding

CheckgroupsBegins(s, msg) ==
  /\ control[s] = NoControl
  /\ control' = [control EXCEPT ![s] = [step |-> "apply", msg |-> msg, left |-> DOMAIN msg.entries]]
  /\ UNCHANGED <<active, seeding, removed>>

\* The entries, in the order of the message; which one comes first tells nothing apart.
CheckgroupsApplies(s, g) ==
  /\ control[s].step = "apply"
  /\ g \in control[s].left
  /\ ApplyControlGroup(g, control[s].msg.entries[g])
  /\ control' = [control EXCEPT ![s].left = @ \ {g}]
  /\ UNCHANGED seeding

\* What the listing finds to disable: groups of the hierarchy that are not in the message,
\* not disabled, and not an administrator's.
Unmentioned(msg) ==
  {g \in msg.hierarchy \ DOMAIN msg.entries :
     Listed(g) /\ active[g].origin # "local" /\ active[g].status # "n"}

CheckgroupsLists(s) ==
  /\ control[s].step = "apply" /\ control[s].left = {}
  /\ control' = [control EXCEPT ![s] = [step |-> "disable", left |-> Unmentioned(control[s].msg)]]
  /\ UNCHANGED <<active, seeding, removed>>

\* A group that was deleted since the listing takes a second statement, as in rmgroup.
CheckgroupsDisables(s, g) ==
  /\ control[s].step = "disable"
  /\ g \in control[s].left
  /\ IF Listed(g)
     THEN /\ active' = Disabled(g)
          /\ control' = [control EXCEPT ![s].left = @ \ {g}]
     ELSE /\ control' = [control EXCEPT ![s] = [step |-> "restore", group |-> g, left |-> @.left]]
          /\ UNCHANGED active
  /\ UNCHANGED <<seeding, removed>>

CheckgroupsInserts(s) ==
  LET g == control[s].group IN
  /\ control[s].step = "restore"
  /\ active' = DisabledUnknown(g)
  /\ control' = [control EXCEPT ![s] = [step |-> "disable", left |-> @.left \ {g}]]
  /\ UNCHANGED <<seeding, removed>>

\* The list is finished, or a statement fails: the message is refused and may come again.
ControlEnds(s) ==
  /\ control[s] # NoControl
  /\ control' = [control EXCEPT ![s] = NoControl]
  /\ UNCHANGED <<active, seeding, removed>>

-----------------------------------------------------------------------------
(* Imports, administrators, starts. *)

\* One batch of an import is one statement, and leaves the rows of others alone.
IscImport(list) ==
  /\ active' = [g \in ActiveGroups |->
       IF g \in DOMAIN list /\ Importable(g)
       THEN [status |-> list[g], origin |-> "isc"] ELSE active[g]]
  /\ UNCHANGED <<control, seeding, removed>>

AdminEnsures(g, status) ==
  /\ EnsureActive(g, status)
  /\ UNCHANGED <<control, seeding>>

DeletesGroup(g) ==
  /\ Listed(g)
  /\ active' = [active EXCEPT ![g] = NoRow]
  /\ removed' = removed \ {g}
  /\ UNCHANGED <<control, seeding>>

\* SeedBuiltinGroups looks for each group
SeedMisses(g) ==
  /\ ~Listed(g)
  /\ seeding' = seeding \union {g}
  /\ UNCHANGED <<active, control, removed>>

\* and creates it if it was missing; a start that fails leaves it out.
SeedEnsures(g) ==
  /\ g \in seeding
  /\ seeding' = seeding \ {g}
  /\ EnsureActive(g, "y") \/ UNCHANGED <<active, removed>>
  /\ UNCHANGED control

GroupNext ==
  \/ \E s \in ControlSessions :
       \/ \E g \in ActiveGroups, status \in {"y", "m"} : NewgroupApplied(s, g, status)
       \/ \E g \in ActiveGroups : RmgroupUpdates(s, g)
       \/ RmgroupInserts(s)
       \/ \E msg \in Checkgroups : CheckgroupsBegins(s, msg)
       \/ \E g \in ActiveGroups : CheckgroupsApplies(s, g) \/ CheckgroupsDisables(s, g)
       \/ CheckgroupsLists(s)
       \/ CheckgroupsInserts(s)
       \/ ControlEnds(s)
  \/ \E list \in IscLists : IscImport(list)
  \/ \E g \in ActiveGroups, status \in ActiveStatuses : AdminEnsures(g, status)
  \/ \E g \in ActiveGroups : DeletesGroup(g)
  \/ \E g \in BuiltinGroups : SeedMisses(g) \/ SeedEnsures(g)

GroupSpec == GroupInit /\ [][GroupNext]_activeVars

-----------------------------------------------------------------------------

ControlSteps ==
  [step : {"none"}]
    \union [step : {"insert"}, group : ActiveGroups]
    \union [step : {"apply"}, msg : Checkgroups, left : SUBSET ActiveGroups]
    \union [step : {"disable"}, left : SUBSET ActiveGroups]
    \union [step : {"restore"}, group : ActiveGroups, left : SUBSET ActiveGroups]

\* The types of the list of newsgroups and of the control messages being applied.
GroupTypeOK ==
  /\ active \in [ActiveGroups -> ActiveRows \union {NoRow}]
  /\ control \in [ControlSessions -> ControlSteps]
  /\ seeding \subseteq BuiltinGroups
  /\ removed \subseteq ActiveGroups

\* A group that an rmgroup removed stays disabled, known to the server or not, until somebody
\* asks for it by name or an administrator deletes the row: no import of the ISC's list
\* revives it, one between the two statements of the rmgroup neither.
RmgroupStands == \A g \in removed : active[g] = [status |-> "n", origin |-> "control"]
=============================================================================
