----------------------------- MODULE StreamGroup -----------------------------
(***************************************************************************)
(* Redis streams and consumer groups as EventBus (shared/events.py) uses   *)
(* them: XADD with an approximate MAXLEN, XREADGROUP with the id ">",      *)
(* XACK and XRANGE.  Values only; the services own the variables.          *)
(*                                                                         *)
(* A stream keeps every entry ever added in log (an entry's id is its      *)
(* position) and the position first of the oldest entry not yet trimmed.   *)
(* A group keeps the last id it delivered and its pending entries (PEL);   *)
(* acked is a history of the ids that left the PEL.                        *)
(* EventBus.consume always passes ">", so an entry is delivered to one     *)
(* consumer once and no EventBus method reads the PEL again.               *)
(***************************************************************************)
EXTENDS Integers, Sequences

CONSTANT MaxLen     \* the maxlen of publish, publish_batch and publish_raw

ASSUME MaxLenAssumption == MaxLen \in Nat \ {0}

-----------------------------------------------------------------------------
(* Outcomes of one Redis round trip as its caller sees them: "ok",         *)
(* "lost" (done by the server, but the caller gets an exception because    *)
(* the reply never came) or "failed" (not done, and an exception).         *)

BusReply == {"ok", "lost", "failed"}

Applied(reply) == reply # "failed"

Raised(reply) == reply # "ok"

-----------------------------------------------------------------------------
EmptyStream == [log |-> << >>, first |-> 1]

NewGroup == [last |-> 0, pending |-> {}, acked |-> {}]

StreamOf(Entry) == [log : Seq(Entry), first : Nat \ {0}]

Group == [last : Nat, pending : SUBSET Nat, acked : SUBSET Nat]

Ids(stream) == 1 .. Len(stream.log)

(* XADD of a sequence of entries in one MULTI/EXEC.  Approximate trimming  *)
(* drops any prefix that leaves at least MaxLen entries.                   *)
XAdd(stream, entries) ==
    LET log == stream.log \o entries
    IN  {[log |-> log, first |-> f] :
            f \in {g \in stream.first .. Len(log) :
                      g = stream.first \/ g <= Len(log) - MaxLen + 1}}

(* XRANGE stream id id: the entry has not been trimmed.                    *)
Exists(stream, id) == stream.first <= id /\ id <= Len(stream.log)

\* Mutant of FirstFresh: the last entry delivered is delivered again.
FirstFreshAgain(stream, group) ==
    IF group.last < stream.first THEN stream.first ELSE group.last

FirstFresh(stream, group) ==
    IF group.last < stream.first THEN stream.first ELSE group.last + 1

LastFresh(stream, group, count) ==
    LET last == FirstFresh(stream, group) + count - 1
    IN  IF last <= Len(stream.log) THEN last ELSE Len(stream.log)

(* The ids XREADGROUP ... COUNT count STREAMS stream > returns.            *)
Fresh(stream, group, count) ==
    FirstFresh(stream, group) .. LastFresh(stream, group, count)

(* The group after delivering a nonempty Fresh(stream, group, count).      *)
XReadGroup(stream, group, count) ==
    [last    |-> LastFresh(stream, group, count),
     pending |-> group.pending \cup Fresh(stream, group, count),
     acked   |-> group.acked]

XAck(group, id) ==
    [last    |-> group.last,
     pending |-> group.pending \ {id},
     acked   |-> group.acked \cup ({id} \cap group.pending)]
=============================================================================
