--------------------------- MODULE DocumentEvents ---------------------------
(***************************************************************************)
(* The revision and the events a document keeps in the Managed Host:       *)
(* events within a short window are folded into one batch, only the newest *)
(* batches are retained, transactions of the host itself are not recorded, *)
(* and a reader follows with a cursor.                                     *)
(*                                                                         *)
(* The reader is the contract of document.events.summary: it passes the    *)
(* last sequence of the last batch it was given, and starts over from a    *)
(* snapshot when its cursor is refused.                                    *)
(***************************************************************************)
EXTENDS Naturals, Sequences, FiniteSets

CONSTANTS
  Kinds,         \* kinds of document events
  Retained,      \* MaximumRetainedBatches (256 in the code)
  PageSizes,     \* max_events a reader asks for (1 to 100 in the code)
  MaxEvents      \* bound: events recorded

ASSUME EventsAssumption ==
  /\ Retained \in Nat /\ MaxEvents \in Nat /\ PageSizes \subseteq Nat \ {0}

VARIABLES
  revision,      \* rises with the content
  eventSequence, \* the last sequence number given
  batches,       \* retained batches, oldest first: [kind, first, last]
  suppressed,    \* depth of SuppressChanges
  cursor,        \* the reader's after_sequence
  reported       \* history: sequence numbers the reader was told of

eventVars == <<revision, eventSequence, batches, suppressed, cursor, reported>>

EventsTypeOK ==
  /\ revision \in 1 .. MaxEvents + 1 /\ eventSequence \in 0 .. MaxEvents
  /\ Len(batches) <= Retained
  /\ batches \in Seq([kind : Kinds, first : 1 .. MaxEvents, last : 1 .. MaxEvents])
  /\ suppressed \in 0 .. 2
  /\ cursor \in 0 .. MaxEvents
  /\ reported \subseteq 1 .. MaxEvents

EventsInit ==
  /\ revision = 1 /\ eventSequence = 0 /\ batches = <<>> /\ suppressed = 0
  /\ cursor = 0 /\ reported = {}

-----------------------------------------------------------------------------
\* DocumentRevisionState.Record, outside a suppressed stretch.  Whether the
\* event falls in the aggregation window of the last batch is up to the clock.
Extended(kind, n) ==
  [batches EXCEPT ![Len(batches)].last = n]

Started(kind, n) ==
  LET longer == Append(batches, [kind |-> kind, first |-> n, last |-> n])
  IN IF Len(longer) > Retained THEN Tail(longer) ELSE longer

RecordEvent(kind, changesContent) ==
  /\ suppressed = 0 /\ eventSequence < MaxEvents
  /\ eventSequence' = eventSequence + 1
  /\ revision' = IF changesContent THEN revision + 1 ELSE revision
  /\ \/ /\ batches # <<>> /\ batches[Len(batches)].kind = kind
        /\ batches' = Extended(kind, eventSequence')
     \/ batches' = Started(kind, eventSequence')
  /\ UNCHANGED <<suppressed, cursor, reported>>

\* SuppressChanges around a transaction of the host, and its Dispose.
SuppressChanges ==
  /\ suppressed < 2 /\ suppressed' = suppressed + 1
  /\ UNCHANGED <<revision, eventSequence, batches, cursor, reported>>
EndSuppression ==
  /\ suppressed > 0 /\ suppressed' = suppressed - 1
  /\ UNCHANGED <<revision, eventSequence, batches, cursor, reported>>

\* ReadEvents: the retained batches that reach beyond the cursor, or the refusal
\* of a cursor that is older than what is retained.
Oldest == IF batches = <<>> THEN eventSequence + 1 ELSE batches[1].first
\* Mutant: the boundary is off by one.
StaleCursorLate(after) == batches # <<>> /\ after > 0 /\ after + 1 < Oldest - 1

StaleCursor(after) == batches # <<>> /\ after > 0 /\ after < Oldest - 1

\* Batches are named by their place; a page is the first of those beyond the cursor.
Beyond(after) == {i \in DOMAIN batches : batches[i].last > after}
Page(after, size) ==
  {i \in Beyond(after) : Cardinality({k \in Beyond(after) : k <= i}) <= size}

Numbers(page) == UNION {batches[i].first .. batches[i].last : i \in page}

\* A page; a reader that starts (cursor 0) is told the oldest sequence available.
ReadPage(size) ==
  /\ ~StaleCursor(cursor)
  /\ LET page == Page(cursor, size)
     IN /\ reported' = reported \cup Numbers(page)
                         \cup (IF cursor = 0 THEN 1 .. Oldest - 1 ELSE {})
        /\ \/ page = {} /\ UNCHANGED cursor
           \/ \E i \in page : (\A k \in page : k <= i) /\ cursor' = batches[i].last
  /\ UNCHANGED <<revision, eventSequence, batches, suppressed>>

\* A reader whose cursor is refused takes a snapshot and goes on from there.
StartOver ==
  /\ StaleCursor(cursor)
  /\ cursor' = eventSequence /\ reported' = 1 .. eventSequence
  /\ UNCHANGED <<revision, eventSequence, batches, suppressed>>

EventsNext ==
  \/ \E kind \in Kinds, changesContent \in BOOLEAN : RecordEvent(kind, changesContent)
  \/ SuppressChanges \/ EndSuppression
  \/ \E size \in PageSizes : ReadPage(size)
  \/ StartOver

EventsSpec == EventsInit /\ [][EventsNext]_eventVars

-----------------------------------------------------------------------------
\* A reader is never past an event it was not told of: folding events into the
\* batch it has already read, dropping the oldest batch and cutting a page short
\* leave no silent gap behind its cursor (Record, ReadEvents).
NoSilentGap == 1 .. cursor \subseteq reported
=============================================================================
