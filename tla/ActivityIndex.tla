----------------------------- MODULE ActivityIndex -----------------------------
(***************************************************************************)
(* The activity history of one account as the server reads it from The     *)
(* Graph (agent/src/query/activity.ts).  A record's place in `chain' is    *)
(* its contract sequence number; the index knows a prefix of the chain.    *)
(*                                                                         *)
(* A grounded answer reads its evidence over several requests              *)
(* (getAnswerEvidence), between which the chain and the index go on.       *)
(***************************************************************************)
EXTENDS Integers, Sequences, FiniteSets

CONSTANTS
    PageMax,     \* ACTIVITY_PAGE_MAX
    AnswerMax,   \* ANSWER_RECORD_MAX
    TripMax      \* requests an answer may take

ASSUME PageAssumption == PageMax \in Nat \ {0}
ASSUME AnswerAssumption == TripMax \in Nat /\ AnswerMax \in 1..(TripMax * PageMax)

VARIABLES
    chain,     \* the requests the contract recorded, in sequence order
    indexed,   \* how many of them the subgraph has processed
    answer     \* the evidence being gathered for a question

indexVars == <<chain, indexed, answer>>

NoCursor == 0
Idle == [pc |-> "idle", got |-> {}, cursor |-> NoCursor, trips |-> 0, head |-> 0,
         partial |-> FALSE]

IndexInit ==
    /\ chain = <<>>
    /\ indexed = 0
    /\ answer = Idle

\* The subgraph processes the next record.
Advance ==
    /\ indexed < Len(chain)
    /\ indexed' = indexed + 1
    /\ UNCHANGED <<chain, answer>>

-----------------------------------------------------------------------------
AtMost(n, limit) == IF n < limit THEN n ELSE limit

\* Fault: the cursor record itself is served again.
TopInclusive(cursor) == IF cursor = NoCursor THEN indexed ELSE AtMost(indexed, cursor)

\* The newest sequence number with sequence_lt: $cursor.
Top(cursor) == IF cursor = NoCursor THEN indexed ELSE AtMost(indexed, cursor - 1)

\* fetchPage: orderBy sequence, descending, first: $first.
Page(cursor, first) == {n \in 1..Top(cursor) : n > Top(cursor) - first}

\* getActivity, as the timeline asks for it: the newest page.
NewestPage == Page(NoCursor, PageMax)

-----------------------------------------------------------------------------
(* getAnswerEvidence *)

\* POST /api/questions; a question may be asked while no other is being answered.
Ask ==
    /\ answer.pc # "reading"
    /\ answer' = [Idle EXCEPT !.pc = "reading"]
    /\ UNCHANGED <<chain, indexed>>

\* One request of the loop.  The page's block is reported as the whole answer's.
ReadPage ==
    LET size == AtMost(AnswerMax - Cardinality(answer.got), PageMax)
        records == Page(answer.cursor, size)
        got == answer.got \cup records
        short == Cardinality(records) < size
        full == Cardinality(got) >= AnswerMax
        trips == answer.trips + 1
    IN  /\ answer.pc = "reading"
        /\ answer' =
              [pc |-> IF short \/ full \/ trips = TripMax THEN "done" ELSE "reading",
               got |-> got,
               cursor |-> IF short THEN answer.cursor ELSE Top(answer.cursor) - size + 1,
               trips |-> trips,
               head |-> indexed,
               partial |-> ~ short /\ full]
        /\ UNCHANGED <<chain, indexed>>

\* A request fails: whatever was read before is thrown away.
EvidenceFails ==
    /\ answer.pc = "reading"
    /\ answer' = Idle
    /\ UNCHANGED <<chain, indexed>>

Answering == Ask \/ ReadPage \/ EvidenceFails

-----------------------------------------------------------------------------
(***************************************************************************)
(* Properties                                                              *)
(***************************************************************************)

\* The evidence of an answer is the whole history up to one sequence number, or,
\* when it says it is partial, the newest AnswerMax records of it: records that
\* arrive between two pages neither push one out nor bring one in twice
\* (activity.ts:269, "follows the deterministic sequence cursor").
EvidenceIsContiguous ==
    answer.pc = "done" =>
        \E top \in 0..answer.head :
            answer.got = IF answer.partial THEN (top - AnswerMax + 1)..top ELSE 1..top

=============================================================================
