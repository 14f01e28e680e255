---------------------------- MODULE ClientView_proofs ----------------------------
(***************************************************************************)
(* What the client may claim and what one answer of the activity API may   *)
(* hold, proved for any number of requests, page size, answer size,        *)
(* history and number of reloads.                                          *)
(*                                                                         *)
(* The evidence loop of ActivityIndex comes first: what was read is always *)
(* one interval that ends where the first page began, and every page but   *)
(* the last is full.  Then the client: the journal's verdicts and the      *)
(* chain agree (HistoryIsTrue) whatever the browser does, and every source *)
(* of an overlay - a poll, a restore, what a page left over - passes       *)
(* through a confirmed verdict.                                            *)
(***************************************************************************)
EXTENDS ClientView, FiniteSetTheorems, TLAPS

\* Before a request: records got .. top were read, in trips full pages.
ReadSoFar(top) ==
    /\ answer.trips \in Nat
    /\ answer.trips * PageMax \in Nat
    /\ answer.trips * PageMax < AnswerMax
    /\ Top(answer.cursor) \in 0..indexed
    /\ top \in Nat
    /\ top <= indexed
    /\ top = Top(answer.cursor) + answer.trips * PageMax
    /\ answer.got = (Top(answer.cursor) + 1)..top

Fresh == [Idle EXCEPT !.pc = "reading"]

MidAnswer ==
    /\ answer.pc = "reading"
    /\ answer.trips \in Nat
    /\ answer.trips * PageMax \in Nat
    /\ answer.trips * PageMax < AnswerMax
    /\ answer.cursor \in 1..indexed
    /\ \E top \in 0..indexed :
          /\ top = answer.cursor - 1 + answer.trips * PageMax
          /\ answer.got = answer.cursor..top

AnswerSound ==
    \/ answer = Idle
    \/ answer = Fresh
    \/ MidAnswer
    \/ answer.pc = "done" /\ EvidenceIsContiguous

USE PageAssumption, AnswerAssumption

\* Both states in which a page may be asked for are of one form.
LEMMA ReadBefore ==
    ASSUME indexed \in Nat, AnswerSound, answer.pc = "reading"
    PROVE  \E top \in Nat : ReadSoFar(top)
PROOF
<1>1. CASE answer = Fresh
  <2>1. answer.trips = 0 /\ answer.got = {} /\ answer.cursor = NoCursor
    BY <1>1 DEF Fresh, Idle
  <2>2. Top(answer.cursor) = indexed
    BY <2>1 DEF Top
  <2>3. answer.trips * PageMax = 0
    BY <2>1
  <2> QED
    BY <2>1, <2>2, <2>3 DEF ReadSoFar
<1>2. CASE MidAnswer
  <2>1. PICK top \in 0..indexed :
            /\ top = answer.cursor - 1 + answer.trips * PageMax
            /\ answer.got = answer.cursor..top
    BY <1>2 DEF MidAnswer
  <2>2. answer.cursor \in 1..indexed
    BY <1>2 DEF MidAnswer
  <2>3. Top(answer.cursor) = answer.cursor - 1
    BY <2>2 DEF Top, AtMost, NoCursor
  <2>4. /\ Top(answer.cursor) \in 0..indexed
        /\ Top(answer.cursor) + 1 = answer.cursor
    BY <2>2, <2>3
  <2>5. answer.got = (Top(answer.cursor) + 1)..top
    BY <2>1, <2>4
  <2>6. top = Top(answer.cursor) + answer.trips * PageMax
    BY <2>1, <2>3
  <2>7. ReadSoFar(top)
    BY <1>2, <2>1, <2>4, <2>5, <2>6 DEF MidAnswer, ReadSoFar
  <2> QED
    BY <2>7
<1> QED
  BY <1>1, <1>2 DEF AnswerSound, Idle

\* A page is the interval below the cursor.
LEMMA PageInterval ==
    ASSUME NEW cursor, NEW first \in Nat \ {0}, Top(cursor) \in Nat
    PROVE  LET low == IF Top(cursor) < first THEN 1 ELSE Top(cursor) - first + 1
           IN  /\ Page(cursor, first) = low..Top(cursor)
               /\ IsFiniteSet(Page(cursor, first))
               /\ Cardinality(Page(cursor, first)) = AtMost(Top(cursor), first)
PROOF
<1> DEFINE low == IF Top(cursor) < first THEN 1 ELSE Top(cursor) - first + 1
<1>1. low \in Int /\ (low > Top(cursor) <=> Top(cursor) = 0)
  OBVIOUS
<1>2. Page(cursor, first) = low..Top(cursor)
  BY DEF Page
<1>4. AtMost(Top(cursor), first) =
          IF low > Top(cursor) THEN 0 ELSE Top(cursor) - low + 1
  BY DEF AtMost
<1>5. low = IF Top(cursor) < first THEN 1 ELSE Top(cursor) - first + 1
  OBVIOUS
<1>6. Top(cursor) \in Int
  OBVIOUS
<1> HIDE DEF low
<1>3. /\ IsFiniteSet(low..Top(cursor))
      /\ Cardinality(low..Top(cursor)) =
             IF low > Top(cursor) THEN 0 ELSE Top(cursor) - low + 1
  BY <1>1, <1>6, FS_Interval
<1> QED
  BY <1>2, <1>3, <1>4, <1>5

\* A request of the loop (activity.ts, getAnswerEvidence) keeps the evidence sound.
LEMMA ReadPageSound ==
    ASSUME indexed \in Nat, AnswerSound, ReadPage
    PROVE  AnswerSound'
PROOF
<1>1. PICK top \in Nat : ReadSoFar(top)
  BY ReadBefore DEF ReadPage
<1> DEFINE bottom == Top(answer.cursor)
           read == answer.trips * PageMax
           size == AtMost(AnswerMax - Cardinality(answer.got), PageMax)
           records == Page(answer.cursor, size)
           got == answer.got \cup records
           low == IF bottom < size THEN 1 ELSE bottom - size + 1
           full == Cardinality(got) >= AnswerMax
<1>2. /\ bottom \in 0..indexed
      /\ read \in Nat
      /\ read < AnswerMax
      /\ answer.trips \in Nat
      /\ top <= indexed
      /\ top = bottom + read
      /\ answer.got = (bottom + 1)..top
  BY <1>1 DEF ReadSoFar
<1>3. (answer.trips + 1) * PageMax = read + PageMax
  BY <1>2
<1>4. /\ indexed' = indexed
      /\ answer' =
            [pc |-> IF \/ Cardinality(records) < size
                       \/ full
                       \/ answer.trips + 1 = TripMax
                    THEN "done" ELSE "reading",
             got |-> got,
             cursor |-> IF Cardinality(records) < size THEN answer.cursor
                        ELSE bottom - size + 1,
             trips |-> answer.trips + 1,
             head |-> indexed,
             partial |-> ~ (Cardinality(records) < size) /\ full]
  BY DEF ReadPage
<1>5. Page(answer.cursor, size) = records /\ bottom = Top(answer.cursor)
  OBVIOUS
<1>6. size = AtMost(AnswerMax - Cardinality(answer.got), PageMax)
  OBVIOUS
<1> HIDE DEF bottom, read, size, records
<1>7. Cardinality(answer.got) = read
  <2>1. Cardinality((bottom + 1)..top) =
            IF bottom + 1 > top THEN 0 ELSE top - (bottom + 1) + 1
    BY <1>2, FS_Interval
  <2> QED
    BY <1>2, <2>1
<1>8. /\ size \in Nat \ {0}
      /\ size <= AnswerMax - read
      /\ size = PageMax \/ size = AnswerMax - read
  BY <1>2, <1>6, <1>7 DEF AtMost
<1>9. /\ records = low..bottom
      /\ Cardinality(records) = AtMost(bottom, size)
  BY <1>2, <1>5, <1>8, PageInterval
<1>10. /\ low \in 1..(bottom + 1)
       /\ got = low..top
  BY <1>2, <1>8, <1>9
<1>11. Cardinality(records) < size <=> bottom < size
  BY <1>2, <1>8, <1>9 DEF AtMost
<1>12. bottom < size => low = 1
  OBVIOUS
<1>13. ~ (bottom < size) => low = bottom - size + 1
  OBVIOUS
<1> HIDE DEF low, got
<1>14. Cardinality(got) = top - low + 1
  <2>1. Cardinality(low..top) = IF low > top THEN 0 ELSE top - low + 1
    BY <1>2, <1>10, FS_Interval
  <2> QED
    BY <1>2, <1>10, <2>1
<1>15. full <=> top - low + 1 >= AnswerMax
  BY <1>14
<1> HIDE DEF full
<1>16. CASE bottom < size
  <2>1. /\ answer'.pc = "done"
        /\ answer'.got = 1..top
        /\ answer'.head = indexed
        /\ answer'.partial = FALSE
    BY <1>4, <1>10, <1>11, <1>12, <1>16
  <2> QED
    BY <1>2, <2>1 DEF AnswerSound, EvidenceIsContiguous
<1>17. CASE ~ (bottom < size) /\ full
  <2>1. size = AnswerMax - read
    BY <1>2, <1>8, <1>13, <1>15, <1>17
  <2>2. low = top - AnswerMax + 1
    BY <1>2, <1>8, <1>13, <1>17, <2>1
  <2>3. /\ answer'.pc = "done"
        /\ answer'.got = (top - AnswerMax + 1)..top
        /\ answer'.head = indexed
        /\ answer'.partial = TRUE
    BY <1>4, <1>10, <1>11, <1>17, <2>2
  <2> QED
    BY <1>2, <2>3 DEF AnswerSound, EvidenceIsContiguous
<1>18. CASE ~ (bottom < size) /\ ~ full
  <2>1. low = bottom - size + 1 /\ size = PageMax
    BY <1>2, <1>8, <1>13, <1>15, <1>18
  <2>2. read + PageMax < AnswerMax
    BY <1>2, <1>8, <1>15, <1>18, <2>1
  <2>3. answer.trips + 1 # TripMax
    BY <1>3, <2>2
  <2>4. /\ answer'.pc = "reading"
        /\ answer'.got = low..top
        /\ answer'.cursor = low
        /\ answer'.trips = answer.trips + 1
    BY <1>4, <1>10, <1>11, <1>18, <2>1, <2>3
  <2>5. /\ low \in Int /\ 1 <= low /\ low <= bottom
        /\ bottom <= indexed
    BY <1>2, <1>8, <1>10, <1>18, <2>1
  <2>6. low \in 1..indexed
    BY <1>2, <2>5
  <2>7. top = low - 1 + (read + PageMax)
    BY <1>2, <2>1
  <2>8. read + PageMax \in Nat
    BY <1>2
  <2>9. answer'.trips * PageMax = read + PageMax
    BY <1>3, <2>4
  <2>10. answer'.trips \in Nat
    BY <1>2, <2>4
  <2>11. answer'.cursor \in 1..indexed'
    BY <1>4, <2>4, <2>6
  <2>12. answer'.got = answer'.cursor..top
    BY <2>4
  <2>13. /\ top \in 0..indexed'
         /\ top = answer'.cursor - 1 + answer'.trips * PageMax
    BY <1>2, <1>4, <2>4, <2>7, <2>9
  <2>14. /\ answer'.trips * PageMax \in Nat
         /\ answer'.trips * PageMax < AnswerMax
    BY <2>2, <2>8, <2>9
  <2>15. MidAnswer'
    BY <2>4, <2>10, <2>11, <2>12, <2>13, <2>14 DEF MidAnswer
  <2> QED
    BY <2>15 DEF AnswerSound
<1> QED
  BY <1>16, <1>17, <1>18

-----------------------------------------------------------------------------
(***************************************************************************)
(* The client                                                              *)
(***************************************************************************)

\* The verdicts, the effects and the records agree, and nothing is recorded twice.
VerdictsAreTrue ==
    \A r \in Request : Confirmed(r) => effect[r] \in EffectOf(told[r]) \ {"UNSEEN"}

RecordsAreEffects ==
    \A r \in Request :
        effect[r] # "UNSEEN" <=> \E n \in 1..Len(chain) : chain[n] = r

RecordedOnce ==
    \A r \in Request : \A m, n \in 1..Len(chain) :
        chain[m] = r /\ chain[n] = r => m = n

OverlaysAreConfirmed == \A r \in overlay : Confirmed(r)

PagesAreIndexed == \A f \in Fetch : fetched[f] = NoPage \/ fetched[f] \subseteq 1..indexed

RestoringRequests == restoring = NotRestoring \/ restoring \subseteq Request

OnlySubmitted == \A r \in Request : r \in polling \/ r = key => posts[r] # "none"

IInv ==
    /\ TypeOK
    /\ VerdictsAreTrue
    /\ RecordsAreEffects
    /\ RecordedOnce
    /\ OverlaysAreConfirmed
    /\ PagesAreIndexed
    /\ RestoringRequests
    /\ OnlySubmitted
    /\ LoneRequestIsRecoverable
    /\ AnswerSound

USE ElsewhereAssumption, ReloadAssumption

-----------------------------------------------------------------------------
(* The steps by what they leave alone *)

\* Everything but four kinds of step leaves the verdicts and the chain alone.
LEMMA HistorySteps ==
    ASSUME [Next]_vars
    PROVE  \/ UNCHANGED <<told, effect, chain>>
           \/ \E r \in Request : PostArrives(r) \/ Served(r) \/ Recorded(r)
           \/ RecordedElsewhere
PROOF
<1>1. CASE World
  BY <1>1 DEF World, Indexing, lifecycleVars, Advance, Answering, Ask, ReadPage,
              EvidenceFails
<1>2. CASE Browser
  BY <1>2 DEF Browser, Submit, PostAnswered, PostFails, PollEnds, PageServed,
              PageShown, PageLost, Reload, RestoreEnds, lifecycleVars, indexVars
<1>3. CASE UNCHANGED vars
  BY <1>3 DEF vars, lifecycleVars, indexVars
<1> QED
  BY <1>1, <1>2, <1>3 DEF Next

\* The rest of the world does not reach into the browser.
LEMMA WorldIsOutside ==
    ASSUME World
    PROVE  UNCHANGED clientVars
BY DEF World, PostArrives, Served, Recorded, RecordedElsewhere, Indexing

\* The chain and what is indexed only grow.
LEMMA HistoryGrows ==
    ASSUME TypeOK, [Next]_vars
    PROVE  /\ chain' \in Seq(Request \cup {Elsewhere})
           /\ indexed' \in 0..Len(chain')
           /\ indexed <= indexed'
           /\ Len(chain) <= Len(chain')
           /\ \A n \in 1..Len(chain) : chain'[n] = chain[n]
PROOF
<1> DEFINE Known == Request \cup {Elsewhere}
<1>1. chain \in Seq(Known) /\ indexed \in 0..Len(chain)
  BY DEF TypeOK
<1>2. ASSUME NEW x \in Known
      PROVE  /\ Append(chain, x) \in Seq(Known)
             /\ Len(Append(chain, x)) = Len(chain) + 1
             /\ \A n \in 1..Len(chain) : Append(chain, x)[n] = chain[n]
  BY <1>1, <1>2
<1> HIDE DEF Known
<1>3. ASSUME NEW x \in Known, chain' = Append(chain, x), indexed' = indexed
      PROVE  /\ chain' \in Seq(Known)
             /\ indexed' \in 0..Len(chain')
             /\ indexed <= indexed'
             /\ Len(chain) <= Len(chain')
             /\ \A n \in 1..Len(chain) : chain'[n] = chain[n]
  BY <1>1, <1>2, <1>3
<1>4. ASSUME chain' = chain, indexed' \in {indexed, indexed + 1},
             indexed' <= Len(chain)
      PROVE  /\ chain' \in Seq(Known)
             /\ indexed' \in 0..Len(chain')
             /\ indexed <= indexed'
             /\ Len(chain) <= Len(chain')
             /\ \A n \in 1..Len(chain) : chain'[n] = chain[n]
  <2>1. Len(chain) \in Nat
    BY <1>1
  <2> QED
    BY <1>1, <1>4, <2>1
<1>5. CASE World
  <2>1. ASSUME NEW r \in Request, Recorded(r)
        PROVE  chain' = Append(chain, r) /\ indexed' = indexed
    BY <2>1 DEF Recorded
  <2>2. CASE RecordedElsewhere
    BY <2>2, <1>3 DEF RecordedElsewhere, Known
  <2>3. CASE Indexing
    <3>1. CASE Advance
      BY <3>1, <1>1, <1>4 DEF Advance, Known
    <3>2. CASE Answering
      <4>1. UNCHANGED <<chain, indexed>>
        BY <3>2 DEF Answering, Ask, ReadPage, EvidenceFails
      <4> QED
        BY <4>1, <1>1, <1>4 DEF Known
    <3> QED
      BY <2>3, <3>1, <3>2 DEF Indexing
  <2>4. ASSUME NEW r \in Request, PostArrives(r) \/ Served(r)
        PROVE  UNCHANGED <<chain, indexed>>
    BY <2>4 DEF PostArrives, Served, indexVars
  <2>5. ASSUME NEW r \in Request
        PROVE  r \in Known
    BY DEF Known
  <2> QED
    BY <1>1, <1>3, <1>4, <1>5, <2>1, <2>2, <2>3, <2>4, <2>5 DEF World, Known
<1>6. CASE Browser
  <2>1. UNCHANGED <<chain, indexed>>
    BY <1>6 DEF Browser, Submit, PostAnswered, PostFails, PollEnds, PageServed,
                PageShown, PageLost, Reload, RestoreEnds, indexVars
  <2> QED
    BY <1>1, <1>4, <2>1 DEF Known
<1>7. CASE UNCHANGED vars
  <2>1. UNCHANGED <<chain, indexed>>
    BY <1>7 DEF vars, indexVars
  <2> QED
    BY <1>1, <1>4, <2>1 DEF Known
<1> QED
  BY <1>5, <1>6, <1>7 DEF Next

-----------------------------------------------------------------------------
(* The journal and the chain *)

\* What the journal says of a request is what the chain recorded, once.
LEMMA HistoryIsTrue ==
    ASSUME TypeOK, VerdictsAreTrue, RecordsAreEffects, RecordedOnce, [Next]_vars
    PROVE  /\ told' \in [Request -> Told]
           /\ effect' \in [Request -> Effect]
           /\ VerdictsAreTrue'
           /\ RecordsAreEffects'
           /\ RecordedOnce'
PROOF
<1>1. /\ told \in [Request -> Told]
      /\ effect \in [Request -> Effect]
      /\ chain \in Seq(Request \cup {Elsewhere})
  BY DEF TypeOK
<1>2. ASSUME UNCHANGED <<told, effect, chain>>
      PROVE  /\ VerdictsAreTrue' /\ RecordsAreEffects' /\ RecordedOnce'
             /\ told' \in [Request -> Told] /\ effect' \in [Request -> Effect]
  BY <1>1, <1>2 DEF VerdictsAreTrue, RecordsAreEffects, RecordedOnce, Confirmed
<1>3. ASSUME NEW r \in Request, PostArrives(r)
      PROVE  /\ told' \in [Request -> Told] /\ effect' = effect /\ chain' = chain
             /\ VerdictsAreTrue'
  BY <1>1, <1>3 DEF PostArrives, Accept, indexVars, VerdictsAreTrue, Confirmed, Told,
                    Open
<1>4. ASSUME NEW r \in Request, Served(r)
      PROVE  /\ told' \in [Request -> Told] /\ effect' = effect /\ chain' = chain
             /\ VerdictsAreTrue'
  <2>1. CASE Park(r)
    BY <1>1, <1>4, <2>1 DEF Served, Park, indexVars, VerdictsAreTrue, Confirmed, Told,
                            Open
  <2>2. ASSUME NEW verdict \in Final, Settle(r, verdict)
        PROVE  /\ told' \in [Request -> Told] /\ effect' = effect /\ chain' = chain
               /\ VerdictsAreTrue'
    <3>1. /\ told' = [told EXCEPT ![r] = verdict]
          /\ effect' = effect
          /\ chain' = chain
          /\ effect[r] \in EffectOf(verdict)
      BY <1>4, <2>2 DEF Served, Settle, indexVars
    <3>2. verdict \in {"executed", "refused"} => effect[r] # "UNSEEN"
      BY <3>1 DEF EffectOf
    <3> QED
      BY <1>1, <2>2, <3>1, <3>2 DEF VerdictsAreTrue, Confirmed, Told
  <2> QED
    BY <1>4, <2>1, <2>2 DEF Served
<1>5. ASSUME effect' = effect, chain' = chain
      PROVE  RecordsAreEffects' /\ RecordedOnce'
  BY <1>5 DEF RecordsAreEffects, RecordedOnce
<1>6. ASSUME NEW r \in Request, Recorded(r)
      PROVE  /\ told' \in [Request -> Told] /\ effect' \in [Request -> Effect]
             /\ VerdictsAreTrue' /\ RecordsAreEffects' /\ RecordedOnce'
  <2>1. PICK o \in Effect : TakeEffect(r, o)
    BY <1>6 DEF Recorded
  <2>2. /\ told' = told
        /\ effect' = [effect EXCEPT ![r] = o]
        /\ told[r] \in Open \cup {"signer_blocked"}
        /\ effect[r] = "UNSEEN"
        /\ o # "UNSEEN"
        /\ chain' = Append(chain, r)
    BY <1>6, <2>1 DEF Recorded, TakeEffect
  <2>3. /\ Len(chain') = Len(chain) + 1
        /\ chain'[Len(chain) + 1] = r
        /\ \A n \in 1..Len(chain) : chain'[n] = chain[n]
        /\ Len(chain) \in Nat
    BY <1>1, <2>2
  <2>4. \A n \in 1..Len(chain) : chain[n] # r
    BY <2>2 DEF RecordsAreEffects
  <2>5. ~ Confirmed(r) /\ \A q \in Request : told'[q] = told[q]
    BY <2>2 DEF Confirmed, Open
  <2>6. VerdictsAreTrue'
    BY <1>1, <2>2, <2>5 DEF VerdictsAreTrue, Confirmed
  <2>7. RecordsAreEffects'
    <3> SUFFICES ASSUME NEW q \in Request
                 PROVE  effect'[q] # "UNSEEN" <=> \E n \in 1..Len(chain') : chain'[n] = q
      BY DEF RecordsAreEffects
    <3>1. CASE q = r
      BY <1>1, <2>2, <2>3, <3>1
    <3>2. CASE q # r
      <4>1. effect'[q] = effect[q]
        BY <1>1, <2>2, <3>2
      <4>2. (\E n \in 1..Len(chain') : chain'[n] = q)
                <=> \E n \in 1..Len(chain) : chain[n] = q
        BY <2>3, <3>2
      <4> QED
        BY <4>1, <4>2 DEF RecordsAreEffects
    <3> QED
      BY <3>1, <3>2
  <2>8. RecordedOnce'
    <3> SUFFICES ASSUME NEW q \in Request,
                        NEW m \in 1..Len(chain'), NEW n \in 1..Len(chain'),
                        chain'[m] = q, chain'[n] = q
                 PROVE  m = n
      BY DEF RecordedOnce
    <3>1. CASE q = r
      BY <2>3, <2>4, <3>1
    <3>2. CASE q # r
      BY <2>3, <3>2 DEF RecordedOnce
    <3> QED
      BY <3>1, <3>2
  <2> QED
    BY <1>1, <2>2, <2>6, <2>7, <2>8
<1>7. CASE RecordedElsewhere
  <2>1. UNCHANGED <<told, effect>> /\ chain' = Append(chain, Elsewhere)
    BY <1>7 DEF RecordedElsewhere, lifecycleVars
  <2>2. /\ Len(chain') = Len(chain) + 1
        /\ chain'[Len(chain) + 1] = Elsewhere
        /\ \A n \in 1..Len(chain) : chain'[n] = chain[n]
        /\ Len(chain) \in Nat
    BY <1>1, <2>1
  <2>3. Elsewhere \notin Request
    OBVIOUS
  <2>4. VerdictsAreTrue'
    BY <2>1 DEF VerdictsAreTrue, Confirmed
  <2>5. ASSUME NEW q \in Request
        PROVE  (\E n \in 1..Len(chain') : chain'[n] = q)
                   <=> \E n \in 1..Len(chain) : chain[n] = q
    BY <2>2, <2>3
  <2>6. RecordsAreEffects'
    BY <2>1, <2>5 DEF RecordsAreEffects
  <2>7. RecordedOnce'
    BY <2>2, <2>3 DEF RecordedOnce
  <2> QED
    BY <1>1, <2>1, <2>4, <2>6, <2>7
<1> QED
  BY <1>1, <1>2, <1>3, <1>4, <1>5, <1>6, <1>7, HistorySteps

\* A confirmed verdict is final.
LEMMA ConfirmedStays ==
    ASSUME TypeOK, [Next]_vars, NEW r \in Request, Confirmed(r)
    PROVE  Confirmed(r)'
PROOF
<1>1. told \in [Request -> Told] /\ told[r] \in {"executed", "refused"}
  BY DEF TypeOK, Confirmed
<1>2. ASSUME NEW q \in Request, PostArrives(q)
      PROVE  told'[r] = told[r]
  BY <1>1, <1>2 DEF PostArrives, Accept
<1>3. ASSUME NEW q \in Request, Served(q)
      PROVE  told'[r] = told[r]
  BY <1>1, <1>3 DEF Served, Park, Settle, Open
<1>4. ASSUME NEW q \in Request, Recorded(q)
      PROVE  told' = told
  BY <1>4 DEF Recorded, TakeEffect
<1>5. RecordedElsewhere => told' = told
  BY DEF RecordedElsewhere, lifecycleVars
<1> QED
  BY <1>1, <1>2, <1>3, <1>4, <1>5, HistorySteps DEF Confirmed

-----------------------------------------------------------------------------
(* The browser *)

\* The newest page holds indexed records only.
LEMMA NewestIsIndexed == NewestPage \subseteq 1..indexed
BY DEF NewestPage, Page, Top, NoCursor

ViewOK ==
    /\ key \in Stored
    /\ refs \in SUBSET Request
    /\ overlay \in SUBSET Request
    /\ restoring \in SUBSET Stored
    /\ page \in SUBSET (1..indexed)
    /\ fetched \in [Fetch -> SUBSET (0..indexed)]
    /\ polling \in SUBSET Request
    /\ posts \in [Request -> {"none", "waiting", "over"}]
    /\ reloads \in 0..MaxReloads

\* Every step keeps every part well formed.
LEMMA TypeCorrectStep ==
    ASSUME IInv, [Next]_vars
    PROVE  TypeOK'
PROOF
<1>1. /\ told' \in [Request -> Told]
      /\ effect' \in [Request -> Effect]
  BY HistoryIsTrue DEF IInv
<1>2. /\ chain' \in Seq(Request \cup {Elsewhere})
      /\ indexed' \in 0..Len(chain')
      /\ indexed <= indexed'
      /\ indexed \in Nat
      /\ indexed' \in Nat
  <2>1. Len(chain) \in Nat /\ indexed \in 0..Len(chain)
    BY DEF IInv, TypeOK
  <2>2. Len(chain') \in Nat
    BY HistoryGrows DEF IInv
  <2> QED
    BY <2>1, <2>2, HistoryGrows DEF IInv
<1>3. 1..indexed \subseteq 1..indexed' /\ 0..indexed \subseteq 0..indexed'
      /\ 1..indexed' \subseteq 0..indexed' /\ 0 \in 0..indexed
  BY <1>2
<1>4. /\ key \in Stored /\ refs \in SUBSET Request /\ overlay \in SUBSET Request
      /\ restoring \in SUBSET Stored /\ page \in SUBSET (1..indexed)
      /\ fetched \in [Fetch -> SUBSET (0..indexed)]
      /\ polling \in SUBSET Request
      /\ posts \in [Request -> {"none", "waiting", "over"}]
      /\ reloads \in 0..MaxReloads
  BY DEF IInv, TypeOK
<1>5. ASSUME UNCHANGED clientVars
      PROVE  ViewOK'
  BY <1>3, <1>4, <1>5 DEF ViewOK, clientVars, storage
<1>6. ASSUME NEW r \in Request,
             Submit(r) \/ PostAnswered(r) \/ PostFails(r) \/ PollEnds(r)
      PROVE  ViewOK'
  <2>1. /\ key' \in {key, r, NoRequest}
        /\ overlay' \in {overlay, overlay \cup {r}}
        /\ refs' \in {refs, overlay'}
        /\ polling' \in {polling, polling \cup {r}, polling \ {r}}
        /\ \/ posts' = posts
           \/ \E p \in {"waiting", "over"} : posts' = [posts EXCEPT ![r] = p]
    BY <1>6 DEF Submit, PostAnswered, PostFails, PollEnds, storage
  <2>2. UNCHANGED <<restoring, page, fetched, reloads, indexed>>
    BY <1>6 DEF Submit, PostAnswered, PostFails, PollEnds, indexVars
  <2>3. key' \in Stored /\ overlay' \in SUBSET Request /\ refs' \in SUBSET Request
        /\ polling' \in SUBSET Request
    BY <1>4, <2>1 DEF Stored
  <2>4. posts' \in [Request -> {"none", "waiting", "over"}]
    BY <1>4, <2>1
  <2> QED
    BY <1>3, <1>4, <2>2, <2>3, <2>4 DEF ViewOK
<1>7. ASSUME NEW f \in Fetch, PageServed(f) \/ PageShown(f) \/ PageLost(f)
      PROVE  ViewOK'
  <2>1. UNCHANGED <<key, restoring, polling, posts, reloads, indexed>>
    BY <1>7 DEF PageServed, PageShown, PageLost, indexVars, storage
  <2>2. overlay' \in SUBSET Request /\ refs' \in SUBSET Request
    BY <1>4, <1>7 DEF PageServed, PageShown, PageLost, storage, StillPending
  <2>3. \E records \in SUBSET (0..indexed) : fetched' = [fetched EXCEPT ![f] = records]
    BY <1>3, <1>4, <1>7, NewestIsIndexed DEF PageServed, PageShown, PageLost, NoPage
  <2>4. fetched' \in [Fetch -> SUBSET (0..indexed)]
    BY <1>4, <2>3
  <2>5. page' \in SUBSET (1..indexed)
    <3>1. CASE PageShown(f)
      <4>1. fetched[f] # NoPage /\ page' = fetched[f]
        BY <3>1 DEF PageShown
      <4> QED
        BY <4>1 DEF IInv, PagesAreIndexed
    <3>2. CASE ~ PageShown(f)
      <4>1. page' = page
        BY <1>7, <3>2 DEF PageServed, PageLost
      <4> QED
        BY <1>4, <4>1
    <3> QED
      BY <3>1, <3>2
  <2> QED
    BY <1>4, <2>1, <2>2, <2>4, <2>5 DEF ViewOK
<1>8. ASSUME Reload
      PROVE  ViewOK'
  <2>1. UNCHANGED <<key, refs, indexed>> /\ overlay' = {} /\ page' = {}
    BY <1>8 DEF Reload, storage, indexVars
  <2>2. fetched' \in [Fetch -> SUBSET (0..indexed')]
    BY <1>2, <1>8 DEF Reload, NoPage
  <2>3. restoring' \in SUBSET Stored /\ polling' \in SUBSET Request
    BY <1>4, <1>8 DEF Reload, NotRestoring, Recovered, Stored
  <2>4. posts' \in [Request -> {"none", "waiting", "over"}]
    BY <1>4, <1>8 DEF Reload
  <2>5. reloads' \in 0..MaxReloads
    BY <1>4, <1>8 DEF Reload
  <2> QED
    BY <1>4, <2>1, <2>2, <2>3, <2>4, <2>5 DEF ViewOK
<1>9. ASSUME RestoreEnds
      PROVE  ViewOK'
  <2>1. UNCHANGED <<key, refs, page, fetched, polling, posts, reloads, indexed>>
    BY <1>9 DEF RestoreEnds, storage, indexVars
  <2>2. restoring \subseteq Request /\ restoring' = {NoRequest}
    BY <1>9 DEF RestoreEnds, NotRestoring, IInv, RestoringRequests
  <2>3. overlay' \in SUBSET Request
    BY <1>9, <2>2 DEF RestoreEnds, RestoredFrom
  <2> QED
    BY <1>4, <2>1, <2>2, <2>3 DEF ViewOK, Stored
<1>10. ViewOK'
  <2>1. UNCHANGED vars => UNCHANGED clientVars
    BY DEF vars
  <2> QED
    BY <1>5, <1>6, <1>7, <1>8, <1>9, <2>1, WorldIsOutside DEF Next, Browser
<1> QED
  BY <1>1, <1>2, <1>10 DEF TypeOK, ViewOK

\* Polls and restores are the only ways into the overlays.
LEMMA OverlaysAreConfirmedStep ==
    ASSUME IInv, [Next]_vars
    PROVE  OverlaysAreConfirmed'
PROOF
<1>1. \A r \in Request : Confirmed(r) => Confirmed(r)'
  BY ConfirmedStays DEF IInv
<1>2. overlay \subseteq Request /\ \A r \in overlay : Confirmed(r)
  BY DEF IInv, TypeOK, OverlaysAreConfirmed
<1>3. ASSUME overlay' \subseteq overlay
      PROVE  OverlaysAreConfirmed'
  BY <1>1, <1>2, <1>3 DEF OverlaysAreConfirmed
<1>4. ASSUME NEW r \in Request, PollEnds(r)
      PROVE  OverlaysAreConfirmed'
  <2>1. overlay' \subseteq overlay \/ (overlay' = overlay \cup {r} /\ Confirmed(r))
    BY <1>4 DEF PollEnds
  <2> QED
    BY <1>1, <1>2, <1>3, <2>1 DEF OverlaysAreConfirmed
<1>5. CASE RestoreEnds
  <2>1. /\ restoring \subseteq Request
        /\ \E answered \in SUBSET restoring :
               overlay' = {r \in answered : Confirmed(r)}
    BY <1>5 DEF RestoreEnds, RestoredFrom, IInv, RestoringRequests
  <2> QED
    BY <1>1, <2>1 DEF OverlaysAreConfirmed
<1>6. ASSUME NEW r \in Request, Submit(r) \/ PostAnswered(r) \/ PostFails(r)
      PROVE  overlay' \subseteq overlay
  BY <1>6 DEF Submit, PostAnswered, PostFails
<1>7. ASSUME NEW f \in Fetch, PageServed(f) \/ PageShown(f) \/ PageLost(f)
      PROVE  overlay' \subseteq overlay
  BY <1>7 DEF PageServed, PageShown, PageLost, StillPending
<1>8. Reload => overlay' \subseteq overlay
  BY DEF Reload
<1>9. World \/ UNCHANGED vars => overlay' \subseteq overlay
  BY WorldIsOutside DEF vars, clientVars
<1> QED
  BY <1>3, <1>4, <1>5, <1>6, <1>7, <1>8, <1>9 DEF Next, Browser

\* An answer to an activity request holds what was indexed when it was served.
LEMMA PagesAreIndexedStep ==
    ASSUME IInv, [Next]_vars
    PROVE  PagesAreIndexed'
PROOF
<1>1. indexed \in Nat /\ indexed' \in Nat /\ indexed <= indexed'
  <2>1. Len(chain) \in Nat /\ indexed \in 0..Len(chain)
    BY DEF IInv, TypeOK
  <2>2. Len(chain') \in Nat
    BY HistoryGrows DEF IInv
  <2> QED
    BY <2>1, <2>2, HistoryGrows DEF IInv
<1>2. 1..indexed \subseteq 1..indexed'
  BY <1>1
<1>3. fetched \in [Fetch -> SUBSET (0..indexed)]
      /\ \A f \in Fetch : fetched[f] = NoPage \/ fetched[f] \subseteq 1..indexed
  BY DEF IInv, TypeOK, PagesAreIndexed
<1>4. ASSUME NEW f \in Fetch, PageServed(f) \/ PageShown(f) \/ PageLost(f)
      PROVE  PagesAreIndexed'
  <2>1. \E records \in {NoPage, NewestPage} : fetched' = [fetched EXCEPT ![f] = records]
    BY <1>4 DEF PageServed, PageShown, PageLost
  <2> QED
    BY <1>2, <1>3, <2>1, NewestIsIndexed DEF PagesAreIndexed
<1>5. Reload => PagesAreIndexed'
  BY DEF Reload, PagesAreIndexed
<1>6. ASSUME NEW r \in Request,
             Submit(r) \/ PostAnswered(r) \/ PostFails(r) \/ PollEnds(r)
      PROVE  fetched' = fetched
  BY <1>6 DEF Submit, PostAnswered, PostFails, PollEnds
<1>7. RestoreEnds \/ World \/ UNCHANGED vars => fetched' = fetched
  BY WorldIsOutside DEF RestoreEnds, vars, clientVars
<1>8. fetched' = fetched => PagesAreIndexed'
  BY <1>2, <1>3 DEF PagesAreIndexed
<1> QED
  BY <1>4, <1>5, <1>6, <1>7, <1>8 DEF Next, Browser

\* The restore effect asks about stored references only.
LEMMA RestoringRequestsStep ==
    ASSUME IInv, [Next]_vars
    PROVE  RestoringRequests'
PROOF
<1>1. restoring' = restoring => RestoringRequests'
  BY DEF IInv, RestoringRequests
<1>2. Reload => RestoringRequests'
  BY DEF Reload, RestoringRequests, IInv, TypeOK
<1>3. RestoreEnds => RestoringRequests'
  BY DEF RestoreEnds, RestoringRequests
<1>4. ASSUME NEW r \in Request,
             Submit(r) \/ PostAnswered(r) \/ PostFails(r) \/ PollEnds(r)
      PROVE  restoring' = restoring
  BY <1>4 DEF Submit, PostAnswered, PostFails, PollEnds
<1>5. ASSUME NEW f \in Fetch, PageServed(f) \/ PageShown(f) \/ PageLost(f)
      PROVE  restoring' = restoring
  BY <1>5 DEF PageServed, PageShown, PageLost
<1>6. World \/ UNCHANGED vars => restoring' = restoring
  BY WorldIsOutside DEF vars, clientVars
<1> QED
  BY <1>1, <1>2, <1>3, <1>4, <1>5, <1>6 DEF Next, Browser

\* The polled and the stored requests were submitted here, and the stored one is
\* given up only when it is terminal or another was submitted.
LEMMA RecoveryStep ==
    ASSUME IInv, [Next]_vars
    PROVE  OnlySubmitted' /\ LoneRequestIsRecoverable'
PROOF
<1>1. /\ posts \in [Request -> {"none", "waiting", "over"}]
      /\ told \in [Request -> Told]
      /\ polling \in SUBSET Request
      /\ key \in Stored
      /\ OnlySubmitted
      /\ LoneRequestIsRecoverable
  BY DEF IInv, TypeOK
<1>2. NoRequest \notin Request
  OBVIOUS
<1>3. ASSUME NEW r \in Request, Submit(r)
      PROVE  OnlySubmitted' /\ LoneRequestIsRecoverable'
  <2>1. /\ posts' = [posts EXCEPT ![r] = "waiting"]
        /\ key' = r /\ polling' = polling /\ told' = told
    BY <1>3 DEF Submit, lifecycleVars
  <2>2. posts'[r] # "none" /\ \A q \in Request \ {r} : posts'[q] = posts[q]
    BY <1>1, <2>1
  <2> QED
    BY <1>1, <2>1, <2>2 DEF OnlySubmitted, LoneRequestIsRecoverable
<1>4. ASSUME NEW r \in Request, PostAnswered(r) \/ PostFails(r)
      PROVE  OnlySubmitted' /\ LoneRequestIsRecoverable'
  <2>1. /\ posts[r] = "waiting"
        /\ posts' = [posts EXCEPT ![r] = "over"]
        /\ key' = key /\ polling' \subseteq polling \cup {r} /\ told' = told
    BY <1>4 DEF PostAnswered, PostFails, lifecycleVars, storage
  <2>2. \A q \in Request : posts'[q] # "none" <=> posts[q] # "none"
    BY <1>1, <2>1
  <2>3. OnlySubmitted'
    BY <1>1, <2>1, <2>2 DEF OnlySubmitted
  <2>4. LoneRequestIsRecoverable'
    BY <1>1, <2>1, <2>2 DEF LoneRequestIsRecoverable
  <2> QED
    BY <2>3, <2>4
<1>5. ASSUME NEW r \in Request, PollEnds(r)
      PROVE  OnlySubmitted' /\ LoneRequestIsRecoverable'
  <2>1. /\ r \in polling /\ told[r] \in Final \cup {"unknown"}
        /\ polling' = polling \ {r} /\ key' = NoRequest
        /\ posts' = posts /\ told' = told
    BY <1>5 DEF PollEnds, Terminal, lifecycleVars
  <2>2. posts[r] # "none"
    BY <1>1, <2>1 DEF OnlySubmitted
  <2>3. told[r] \notin {"absent", "working"}
    BY <2>1 DEF Final
  <2>4. OnlySubmitted'
    BY <1>1, <1>2, <2>1 DEF OnlySubmitted
  <2>5. LoneRequestIsRecoverable'
    BY <1>1, <2>1, <2>2, <2>3 DEF LoneRequestIsRecoverable
  <2> QED
    BY <2>4, <2>5
<1>6. ASSUME Reload
      PROVE  OnlySubmitted' /\ LoneRequestIsRecoverable'
  <2>1. /\ polling' = {key} \ {NoRequest} /\ key' = key /\ told' = told
        /\ posts' = [r \in Request |-> IF posts[r] = "waiting" THEN "over"
                                       ELSE posts[r]]
    BY <1>6 DEF Reload, Recovered, lifecycleVars, storage
  <2>2. \A q \in Request : posts'[q] # "none" <=> posts[q] # "none"
    BY <1>1, <2>1
  <2>3. OnlySubmitted'
    BY <1>1, <2>1, <2>2 DEF OnlySubmitted
  <2>4. LoneRequestIsRecoverable'
    BY <1>1, <2>1, <2>2 DEF LoneRequestIsRecoverable
  <2> QED
    BY <2>3, <2>4
<1>7. ASSUME UNCHANGED <<key, polling, posts>>
      PROVE  OnlySubmitted'
  BY <1>1, <1>7 DEF OnlySubmitted
<1>8. ASSUME UNCHANGED <<key, posts>>,
             \A r \in Request : told'[r] \in {"absent", "working"}
                                    => told[r] \in {"absent", "working"}
      PROVE  LoneRequestIsRecoverable'
  BY <1>1, <1>8 DEF LoneRequestIsRecoverable
<1>9. ASSUME NEW f \in Fetch, PageServed(f) \/ PageShown(f) \/ PageLost(f)
      PROVE  UNCHANGED <<key, polling, posts, told>>
  BY <1>9 DEF PageServed, PageShown, PageLost, lifecycleVars, storage
<1>10. RestoreEnds \/ UNCHANGED vars => UNCHANGED <<key, polling, posts, told>>
  BY DEF RestoreEnds, vars, clientVars, lifecycleVars, storage
<1>11. ASSUME World
       PROVE  OnlySubmitted' /\ LoneRequestIsRecoverable'
  <2>1. UNCHANGED <<key, polling, posts>>
    BY <1>11, WorldIsOutside DEF clientVars, storage
  <2>2. ASSUME NEW q \in Request, PostArrives(q) \/ Served(q) \/ Recorded(q),
               NEW r \in Request, told'[r] \in {"absent", "working"}
        PROVE  told[r] \in {"absent", "working"}
    <3>1. CASE PostArrives(q)
      BY <1>1, <2>2, <3>1 DEF PostArrives, Accept
    <3>2. CASE Served(q)
      BY <1>1, <2>2, <3>2 DEF Served, Park, Settle, Final
    <3>3. CASE Recorded(q)
      BY <2>2, <3>3 DEF Recorded, TakeEffect
    <3> QED
      BY <2>2, <3>1, <3>2, <3>3
  <2>3. RecordedElsewhere \/ Indexing => told' = told
    BY DEF RecordedElsewhere, Indexing, lifecycleVars
  <2>4. \A r \in Request : told'[r] \in {"absent", "working"}
                               => told[r] \in {"absent", "working"}
    BY <1>11, <2>2, <2>3 DEF World
  <2> QED
    BY <1>7, <1>8, <2>1, <2>4
<1> QED
  BY <1>3, <1>4, <1>5, <1>6, <1>7, <1>8, <1>9, <1>10, <1>11 DEF Next, Browser

\* The evidence loop goes on while the chain and the index grow.
LEMMA AnswerSoundStep ==
    ASSUME IInv, [Next]_vars
    PROVE  AnswerSound'
PROOF
<1>1. indexed \in Nat /\ AnswerSound
  <2>1. Len(chain) \in Nat /\ indexed \in 0..Len(chain)
    BY DEF IInv, TypeOK
  <2> QED
    BY <2>1 DEF IInv
<1>2. ASSUME UNCHANGED answer, indexed' \in {indexed, indexed + 1}
      PROVE  AnswerSound'
  <2>1. MidAnswer => MidAnswer'
    <3>1. 1..indexed \subseteq 1..indexed' /\ 0..indexed \subseteq 0..indexed'
      BY <1>1, <1>2
    <3> QED
      BY <1>2, <3>1 DEF MidAnswer
  <2> QED
    BY <1>1, <1>2, <2>1 DEF AnswerSound, EvidenceIsContiguous, Fresh, Idle
<1>3. Ask => AnswerSound'
  BY DEF Ask, AnswerSound, Fresh
<1>4. EvidenceFails => AnswerSound'
  BY DEF EvidenceFails, AnswerSound
<1>5. ReadPage => AnswerSound'
  BY <1>1, ReadPageSound
<1>6. ASSUME World
      PROVE  AnswerSound'
  <2>1. Indexing => AnswerSound'
    BY <1>2, <1>3, <1>4, <1>5 DEF Indexing, Advance, Answering
  <2>2. ASSUME NEW r \in Request, PostArrives(r) \/ Served(r) \/ Recorded(r)
        PROVE  UNCHANGED <<answer, indexed>>
    BY <2>2 DEF PostArrives, Served, Recorded, indexVars
  <2>3. RecordedElsewhere => UNCHANGED <<answer, indexed>>
    BY DEF RecordedElsewhere
  <2> QED
    BY <1>2, <1>6, <2>1, <2>2, <2>3 DEF World
<1>7. Browser \/ UNCHANGED vars => UNCHANGED <<answer, indexed>>
  BY DEF Browser, Submit, PostAnswered, PostFails, PollEnds, PageServed, PageShown,
         PageLost, Reload, RestoreEnds, vars, indexVars
<1> QED
  BY <1>2, <1>6, <1>7 DEF Next

-----------------------------------------------------------------------------
(* The invariant *)

\* The first state of the tab satisfies the invariant.
LEMMA InitInv == Init => IInv
PROOF
<1> SUFFICES ASSUME Init
             PROVE  IInv
  OBVIOUS
<1>1. /\ told = [r \in Request |-> "absent"]
      /\ effect = [r \in Request |-> "UNSEEN"]
      /\ chain = <<>> /\ indexed = 0 /\ answer = Idle
      /\ key = NoRequest /\ refs = {} /\ overlay = {} /\ restoring = {NoRequest}
      /\ page = {} /\ fetched = [f \in Fetch |-> {0}] /\ polling = {}
      /\ posts = [r \in Request |-> "none"] /\ reloads = 0
  BY DEF Init, LifecycleInit, IndexInit, NotRestoring, NoPage
<1>2. Len(chain) = 0 /\ chain \in Seq(Request \cup {Elsewhere})
  BY <1>1
<1>3. TypeOK
  <2>1. told \in [Request -> Told] /\ effect \in [Request -> Effect]
    BY <1>1 DEF Told, Effect
  <2>2. /\ indexed \in 0..Len(chain)
        /\ page \in SUBSET (1..indexed)
        /\ fetched \in [Fetch -> SUBSET (0..indexed)]
        /\ reloads \in 0..MaxReloads
    BY <1>1, <1>2
  <2>3. /\ key \in Stored /\ refs \in SUBSET Request /\ overlay \in SUBSET Request
        /\ restoring \in SUBSET Stored /\ polling \in SUBSET Request
        /\ posts \in [Request -> {"none", "waiting", "over"}]
    BY <1>1 DEF Stored
  <2> QED
    BY <1>2, <2>1, <2>2, <2>3 DEF TypeOK
<1>4. VerdictsAreTrue /\ OverlaysAreConfirmed
  BY <1>1 DEF VerdictsAreTrue, OverlaysAreConfirmed, Confirmed
<1>5. RecordsAreEffects /\ RecordedOnce
  BY <1>1, <1>2 DEF RecordsAreEffects, RecordedOnce
<1>6. PagesAreIndexed /\ RestoringRequests
  BY <1>1 DEF PagesAreIndexed, NoPage, RestoringRequests, NotRestoring
<1>7. OnlySubmitted /\ LoneRequestIsRecoverable
  BY <1>1 DEF OnlySubmitted, LoneRequestIsRecoverable
<1>8. AnswerSound
  BY <1>1 DEF AnswerSound
<1> QED
  BY <1>3, <1>4, <1>5, <1>6, <1>7, <1>8 DEF IInv

\* Every step keeps the invariant.
LEMMA StepInv == IInv /\ [Next]_vars => IInv'
PROOF
<1> SUFFICES ASSUME IInv, [Next]_vars
             PROVE  IInv'
  OBVIOUS
<1>1. VerdictsAreTrue' /\ RecordsAreEffects' /\ RecordedOnce'
  BY HistoryIsTrue DEF IInv
<1> QED
  BY <1>1, TypeCorrectStep, OverlaysAreConfirmedStep, PagesAreIndexedStep,
     RestoringRequestsStep, RecoveryStep, AnswerSoundStep DEF IInv

\* The invariant is inductive.
THEOREM Invariance == Spec => []IInv
PROOF
<1>1. Init => IInv
  BY InitInv
<1>2. IInv /\ [Next]_vars => IInv'
  BY StepInv
<1> QED
  BY <1>1, <1>2, PTL DEF Spec

\* Every part of the view stays well formed, whatever the browser is told and when.
THEOREM TypeCorrect == Spec => []TypeOK
PROOF
<1>1. IInv => TypeOK
  BY DEF IInv
<1> QED
  BY <1>1, Invariance, PTL

-----------------------------------------------------------------------------
(* The properties *)

\* An overlay comes from a poll or from a restore that asked the journal, and both
\* pass a confirmed verdict, which the chain bears out.
THEOREM ClaimsHold == Spec => []ClaimsAreTrue
PROOF
<1>1. IInv => ClaimsAreTrue
  <2> SUFFICES ASSUME IInv, NEW r \in overlay
               PROVE  /\ effect[r] \in EffectOf(told[r]) \ {"UNSEEN"}
                      /\ r \in RequestsIn(1..Len(chain))
    BY DEF ClaimsAreTrue
  <2>1. r \in Request /\ Confirmed(r)
    BY DEF IInv, TypeOK, OverlaysAreConfirmed
  <2>2. effect[r] \in EffectOf(told[r]) \ {"UNSEEN"}
    BY <2>1 DEF IInv, VerdictsAreTrue
  <2>3. \E n \in 1..Len(chain) : chain[n] = r
    BY <2>1, <2>2 DEF IInv, RecordsAreEffects
  <2> QED
    BY <2>2, <2>3 DEF RequestsIn
<1> QED
  BY <1>1, Invariance, PTL

\* The contract records a request once, and an overlay of a request in the page is
\* not listed: at most one entry is left.
THEOREM OncePerRequest == Spec => []ListedOnce
PROOF
<1>1. IInv => ListedOnce
  <2> SUFFICES ASSUME IInv, NEW r \in Request
               PROVE  Cardinality(Entries(r)) <= 1
    BY DEF ListedOnce
  <2>1. page \subseteq 1..indexed /\ 1..indexed \subseteq 1..Len(chain)
    <3>1. chain \in Seq(Request \cup {Elsewhere}) /\ indexed \in 0..Len(chain)
          /\ page \in SUBSET (1..indexed)
      BY DEF IInv, TypeOK
    <3>2. Len(chain) \in Nat
      BY <3>1
    <3> QED
      BY <3>1, <3>2
  <2>2. \A m, n \in page : chain[m] = r /\ chain[n] = r => m = n
    BY <2>1 DEF IInv, RecordedOnce
  <2>3. Entries(r) = {} \/ \E e : Entries(r) = {e}
    <3>1. CASE \E m \in page : chain[m] = r
      <4>1. PICK m \in page : chain[m] = r
        BY <3>1
      <4>2. {n \in page : chain[n] = r} = {m}
        BY <2>2, <4>1
      <4>3. ListedOverlays \cap {r} = {}
        BY <4>1 DEF ListedOverlays, RequestsIn
      <4>4. Entries(r) = {<<"indexed", m>>}
        BY <4>2, <4>3 DEF Entries
      <4> QED
        BY <4>4
    <3>2. CASE ~ \E m \in page : chain[m] = r
      <4>1. Entries(r) \subseteq {<<"pending", 0>>}
        BY <3>2 DEF Entries
      <4> QED
        BY <4>1
    <3> QED
      BY <3>1, <3>2
  <2>4. Cardinality({}) = 0 /\ \A e : Cardinality({e}) = 1
    BY FS_EmptySet, FS_Singleton
  <2>5. Cardinality(Entries(r)) \in {0, 1}
    BY <2>3, <2>4
  <2> QED
    BY <2>5
<1> QED
  BY <1>1, Invariance, PTL

\* A confirmed result leaves the overlays only for a page that has its record, and
\* pages hold indexed records only.
THEOREM OverlaysWait == Spec => OverlayUntilIndexed
PROOF
<1> DEFINE Waits == reloads' = reloads /\ restoring' = restoring =>
                        overlay \ overlay' \subseteq RequestsIn(1..indexed)
<1>1. IInv /\ [Next]_vars => Waits
  <2> SUFFICES ASSUME IInv, [Next]_vars, reloads' = reloads, restoring' = restoring
               PROVE  overlay \ overlay' \subseteq RequestsIn(1..indexed)
    OBVIOUS
  <2>1. ASSUME NEW r \in Request,
               Submit(r) \/ PostAnswered(r) \/ PostFails(r) \/ PollEnds(r)
        PROVE  overlay \subseteq overlay'
    BY <2>1 DEF Submit, PostAnswered, PostFails, PollEnds
  <2>2. ASSUME NEW f \in Fetch, PageServed(f) \/ PageLost(f)
        PROVE  overlay \subseteq overlay'
    BY <2>2 DEF PageServed, PageLost
  <2>3. ASSUME NEW f \in Fetch, PageShown(f)
        PROVE  overlay \ overlay' \subseteq RequestsIn(1..indexed)
    <3>1. fetched[f] \subseteq 1..indexed
      BY <2>3 DEF PageShown, IInv, PagesAreIndexed
    <3>2. overlay \ overlay' \subseteq RequestsIn(fetched[f])
      BY <2>3 DEF PageShown, StillPending
    <3> QED
      BY <3>1, <3>2 DEF RequestsIn
  <2>4. ~ Reload
    BY DEF Reload, IInv, TypeOK
  <2>5. ~ RestoreEnds
    BY DEF RestoreEnds
  <2>6. World \/ UNCHANGED vars => overlay \subseteq overlay'
    BY WorldIsOutside DEF vars, clientVars
  <2> QED
    BY <2>1, <2>2, <2>3, <2>4, <2>5, <2>6 DEF Next, Browser
<1>2. Spec => [][Waits]_vars
  BY <1>1, Invariance, PTL DEF Spec
<1> QED
  BY <1>2 DEF OverlayUntilIndexed

\* The stored key of the only request goes only with its poll, and a poll ends on a
\* verdict the journal does not go back from.
THEOREM Recoverable == Spec => []LoneRequestIsRecoverable
PROOF
<1>1. IInv => LoneRequestIsRecoverable
  BY DEF IInv
<1> QED
  BY <1>1, Invariance, PTL

\* What was read is one interval below the first page's newest record, and every
\* page but the last is full, so only an answer of the whole size says it is partial.
THEOREM Evidence == Spec => []EvidenceIsContiguous
PROOF
<1>1. IInv => EvidenceIsContiguous
  BY DEF IInv, AnswerSound, MidAnswer, EvidenceIsContiguous, Fresh, Idle
<1> QED
  BY <1>1, Invariance, PTL

=============================================================================
