----------------------------- MODULE SpanTracker -----------------------------
(***************************************************************************)
(* SpanTracker (buck2_client_ctx/src/subscribers/span_tracker.rs): the     *)
(* console's index of ongoing spans, fed by handle_event with the daemon's *)
(* SpanStart and SpanEnd events.                                           *)
(*                                                                         *)
(* Tracker state: roots (spans rendered on their own line), all (every     *)
(* ongoing span by id), the children recorded in each Span, and            *)
(* roots_completed. The event payload is abstracted to the span id, the    *)
(* parent id and whether span_is_root holds for its data; insertion order  *)
(* of the LinkedHashMaps only affects rendering order and is dropped.      *)
(*                                                                         *)
(* The daemon is the environment. Its contract, as the comment at lines    *)
(* 91-93 states it: span ids are unique, and a span's end carries the same *)
(* parent as its start. Nothing else is assumed: a parent may be unknown,  *)
(* or end before its children. The auxiliary variables phase, parentOf,    *)
(* isRoot and nested record the stream so far.                             *)
(***************************************************************************)
EXTENDS Naturals, FiniteSets

CONSTANTS
  SpanIds,   \* span ids the daemon may use; model values
  NoSpan,    \* event.parent_id() = None
  EventData  \* the span_start_event data variants the daemon may send

\* The variants of span_start_event::Data by how span_is_root treats them;
\* "None" stands for an event without data.
NotRootData == {"Command", "CommandCritical", "AnalysisStage", "ExecutorStage",
                "MatchDepFiles", "CacheUpload", "Materialization"}
RootData == {"ActionExecution", "FinalMaterialization", "Analysis", "Load",
             "LoadPackage", "TestDiscovery", "TestStart", "FileWatcher",
             "SharedTask", "CreateOutputSymlinks", "InstallEventInfo",
             "DiceStateUpdate", "Fake"}

ASSUME NoSpan \notin SpanIds /\ EventData \subseteq NotRootData \cup RootData \cup {"None"}

\* span_is_root: render the span on its own line.
SpanIsRoot(d) == d \in RootData

Results == {"Ok", "NonSpanEvent", "InvalidParent", "InvalidRemoval"}

VARIABLES
  roots,          \* SpanTracker.roots (keys)
  all,            \* SpanTracker.all (keys)
  children,       \* Span.children of each span in all
  rootsCompleted, \* SpanTracker.roots_completed
  result,         \* what the last handle_event returned
  phase,          \* stream history: unstarted, ongoing or ended per span
  parentOf,       \* stream history: the parent the span was started with
  isRoot,         \* stream history: span_is_root of its start event
  nested          \* stream history: every start under an ongoing parent or
                  \* none, and every end after all of the span's children

tracker == <<roots, all, children, rootsCompleted, result>>
history == <<phase, parentOf, isRoot, nested>>
vars == <<tracker, history>>

Ongoing == {s \in SpanIds : phase[s] = "ongoing"}

\* iter_roots: the `expect` on the lookup of a root in all fails.
IterRootsPanics == \E s \in roots : s \notin all

\* SpanHandle::children of span x: the `unwrap` on the lookup of a child
\* in all fails.
ChildrenPanic(x) == \E c \in children[x] : c \notin all

\* The history update of a start event of span s under parent p.
StartHistory(s, p, r) ==
  /\ phase' = [phase EXCEPT ![s] = "ongoing"]
  /\ parentOf' = [parentOf EXCEPT ![s] = p]
  /\ isRoot' = [isRoot EXCEPT ![s] = r]
  /\ nested' = (nested /\ (p = NoSpan \/ phase[p] = "ongoing"))

\* The history update of an end event of span s.
EndHistory(s) ==
  /\ phase' = [phase EXCEPT ![s] = "ended"]
  /\ nested' = (nested /\ \A c \in Ongoing : parentOf[c] # s \/ c = s)
  /\ UNCHANGED <<parentOf, isRoot>>

\* Mutant: roots registered only once the parent lookup succeeded.
StartAtRootAfterParent(s, p, r) ==
  /\ phase[s] = "unstarted"
  /\ all' = all \cup {s}
  /\ IF p = NoSpan \/ p \in all \cup {s}
       THEN /\ roots' = IF r THEN roots \cup {s} ELSE roots
            /\ children' = IF p = NoSpan THEN children
                           ELSE [children EXCEPT ![p] = @ \cup {s}]
            /\ result' = "Ok"
       ELSE /\ result' = "InvalidParent"
            /\ UNCHANGED <<roots, children>>
  /\ UNCHANGED rootsCompleted
  /\ StartHistory(s, p, r)

\* start_at: insert the span into all (or_insert_with) and, if it is a
\* root, into roots; then record it as a child of its parent, or return
\* InvalidParent with the insertions already made.
StartAt(s, p, r) ==
  /\ phase[s] = "unstarted"
  /\ all' = all \cup {s}
  /\ roots' = IF r THEN roots \cup {s} ELSE roots
  /\ IF p = NoSpan
       THEN children' = children /\ result' = "Ok"
       ELSE IF p \in all \cup {s}
              THEN /\ children' = [children EXCEPT ![p] = @ \cup {s}]
                   /\ result' = "Ok"
              ELSE result' = "InvalidParent" /\ UNCHANGED children
  /\ UNCHANGED rootsCompleted
  /\ StartHistory(s, p, r)

\* Mutant: end forgets to unlink the span from its parent's children.
EndUnlinkKeepsChild(s) ==
  LET p == parentOf[s] IN
  IF p # NoSpan /\ p \notin all
    THEN result' = "InvalidParent" /\ UNCHANGED <<all, children>>
    ELSE /\ all' = all \ {s}
         /\ children' = [children EXCEPT ![s] = {}]
         /\ result' = "Ok"

\* The rest of end after the roots update: unlink the span from its parent,
\* returning InvalidParent or InvalidRemoval early; then remove it, with
\* its Span and children map, from all.
EndUnlink(s) ==
  LET p == parentOf[s]
      unlinked == IF p = NoSpan THEN children
                  ELSE [children EXCEPT ![p] = @ \ {s}]
  IN CASE p # NoSpan /\ p \notin all ->
            result' = "InvalidParent" /\ UNCHANGED <<all, children>>
       [] p # NoSpan /\ s \notin children[p] ->
            result' = "InvalidRemoval" /\ UNCHANGED <<all, children>>
       [] s \notin all ->
            result' = "InvalidRemoval" /\ children' = unlinked /\ UNCHANGED all
       [] OTHER ->
            /\ all' = all \ {s}
            /\ children' = [unlinked EXCEPT ![s] = {}]
            /\ result' = "Ok"

\* Mutant: only parentless spans are taken out of roots.
EndRootsTopLevelOnly(s) ==
  /\ phase[s] = "ongoing"
  /\ roots' = IF parentOf[s] = NoSpan THEN roots \ {s} ELSE roots
  /\ rootsCompleted' = IF s \in roots THEN rootsCompleted + 1 ELSE rootsCompleted
  /\ EndUnlink(s)
  /\ EndHistory(s)

\* end: take the span out of roots, counting a completed root, before
\* anything can fail; then EndUnlink.
End(s) ==
  /\ phase[s] = "ongoing"
  /\ roots' = roots \ {s}
  /\ rootsCompleted' = IF s \in roots THEN rootsCompleted + 1 ELSE rootsCompleted
  /\ EndUnlink(s)
  /\ EndHistory(s)

\* Mutant: a start event without a span id is filed under a default id
\* (unwrap_or_default) instead of returning NonSpanEvent.
NonSpanEventDefaultId ==
  /\ all' = all \cup {NoSpan}
  /\ result' = "Ok"
  /\ UNCHANGED <<roots, children, rootsCompleted, history>>

\* start_at / end on an event whose span_id() is None: NonSpanEvent is
\* returned before anything changes.
NonSpanEvent ==
  /\ result' = "NonSpanEvent"
  /\ UNCHANGED <<roots, all, children, rootsCompleted, history>>

\* SpanTracker::new, before any event; no span has been seen.
Init ==
  /\ roots = {}
  /\ all = {}
  /\ children = [s \in SpanIds |-> {}]
  /\ rootsCompleted = 0
  /\ result = "Ok"
  /\ phase = [s \in SpanIds |-> "unstarted"]
  /\ parentOf = [s \in SpanIds |-> NoSpan]
  /\ isRoot = [s \in SpanIds |-> FALSE]
  /\ nested = TRUE

\* handle_event: a span start goes to start_at, a span end to end.
HandleEvent ==
  \/ \E s \in SpanIds, p \in SpanIds \cup {NoSpan}, d \in EventData :
       StartAt(s, p, SpanIsRoot(d))
  \/ \E s \in SpanIds : End(s)
  \/ NonSpanEvent

Next == HandleEvent

Spec == Init /\ [][Next]_vars

(***************************************************************************)
(* Properties.                                                             *)
(***************************************************************************)

TypeOK ==
  /\ roots \subseteq SpanIds
  /\ all \subseteq SpanIds
  /\ children \in [SpanIds -> SUBSET SpanIds]
  /\ rootsCompleted \in Nat
  /\ result \in Results
  /\ phase \in [SpanIds -> {"unstarted", "ongoing", "ended"}]
  /\ parentOf \in [SpanIds -> SpanIds \cup {NoSpan}]
  /\ isRoot \in [SpanIds -> BOOLEAN]
  /\ nested \in BOOLEAN

\* iter_roots expects every root to be in all (lines 207-212: "we always
\* insert into roots after inserting into all, and delete from roots before
\* deleting from all"), on every path, the error returns of start_at and
\* end included.
RootsInAll == ~IterRootsPanics

\* SpanHandle::children unwraps the lookup of every child in all (line 74):
\* a span referenced as a child is in all (the guarantee of lines 91-93).
ChildrenInAll == \A x \in all : ~ChildrenPanic(x)

\* roots_completed counts every root span whose end has arrived, also when
\* that end then fails with InvalidParent (its parent ended first).
RootsCompletedCounted ==
  rootsCompleted = Cardinality({s \in SpanIds : phase[s] = "ended" /\ isRoot[s]})

\* While the stream is well nested, the tracker mirrors it exactly: all is
\* the ongoing spans, roots the ongoing root spans, each span's children its
\* ongoing children, and no event has been rejected.
WellNestedTracksOngoing ==
  nested =>
    /\ all = Ongoing
    /\ roots = {s \in Ongoing : isRoot[s]}
    /\ \A x \in all : children[x] = {c \in Ongoing : parentOf[c] = x}
    /\ result \in {"Ok", "NonSpanEvent"}
=============================================================================
