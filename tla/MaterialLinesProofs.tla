------------------------- MODULE MaterialLinesProofs --------------------------
(***************************************************************************)
(* Proofs about MaterialLines, for any lines, matches and proposals.  The  *)
(* types, the answer to each payment and what ties the rows of a line      *)
(* together make an inductive invariant.  That the claims follow the lines *)
(* needs one thing more: what a refund has crossed stays crossed, because  *)
(* the rows of a refunded line no longer change.                           *)
(***************************************************************************)
EXTENDS MaterialLines, TLAPS

USE MaterialAssumption

-------------------------------------------------------------------------------
\* What the operators that the actions share write.

\* A refund is started, or the row the caller made is written.
LEMMA RefundFields ==
  ASSUME MaterialTypeOK, NEW l \in Line, NEW row \in LineRow, StartRefund(l, row)
  PROVE  /\ line' \in [Line -> LineRow]
         /\ payment' \in [Line -> PaymentRow]
         /\ named' \in [Line -> Match \cup {None}]
         /\ \A k \in Line \ {l} : /\ line'[k] = line[k]
                                 /\ payment'[k] = payment[k]
                                 /\ named'[k] = named[k]
         /\ line'[l].intent = row.intent
         /\ line'[l].match = row.match
         /\ line'[l].released = row.released
         /\ payment'[l].charge = payment[l].charge
         /\ payment'[l].dispute = payment[l].dispute
         /\ \/ /\ Unsettled(l)
               /\ line'[l].fulfillment = "CANCELED"
               /\ line'[l].files = "NONE"
               /\ payment'[l].refund = "PENDING"
               /\ named'[l] = line[l].match
            \/ /\ ~Unsettled(l)
               /\ line'[l].fulfillment = row.fulfillment
               /\ line'[l].files = row.files
               /\ payment'[l].refund = payment[l].refund
               /\ named'[l] = named[l]
<1>1. line \in [Line -> LineRow] /\ payment \in [Line -> PaymentRow]
      /\ named \in [Line -> Match \cup {None}]
  BY DEF MaterialTypeOK
<1>2. line[l].match \in Match \cup {None}
  BY <1>1 DEF LineRow
<1>3. CASE Unsettled(l)
  <2> DEFINE canceled == [row EXCEPT !.fulfillment = "CANCELED", !.files = "NONE"]
  <2>1. /\ canceled \in LineRow
        /\ canceled.intent = row.intent /\ canceled.match = row.match
        /\ canceled.released = row.released
        /\ canceled.fulfillment = "CANCELED" /\ canceled.files = "NONE"
    BY DEF LineRow
  <2>2. line' = [line EXCEPT ![l] = canceled]
        /\ payment' = [payment EXCEPT ![l].refund = "PENDING"]
        /\ named' = [named EXCEPT ![l] = line[l].match]
    BY <1>3 DEF StartRefund
  <2>3. payment' \in [Line -> PaymentRow]
    BY <1>1, <2>2 DEF PaymentRow
  <2> HIDE DEF canceled
  <2> QED  BY <1>1, <1>2, <1>3, <2>1, <2>2, <2>3
<1>4. CASE ~Unsettled(l)
  BY <1>1, <1>4 DEF StartRefund
<1> QED  BY <1>3, <1>4

\* A payment reaches the tables: the line is paid, or refused and refunded.
LEMMA ApplyFields ==
  ASSUME MaterialTypeOK, NEW l \in Line, ApplyPayment(l)
  PROVE  /\ line' \in [Line -> LineRow]
         /\ payment' \in [Line -> PaymentRow]
         /\ named' \in [Line -> Match \cup {None}]
         /\ UNCHANGED <<claim, proposal>>
         /\ \A k \in Line \ {l} : /\ line'[k] = line[k]
                                 /\ payment'[k] = payment[k]
                                 /\ named'[k] = named[k]
         /\ line'[l].match = line[l].match
         /\ line'[l].released = line[l].released
         /\ line'[l].files = line[l].files
         /\ payment[l].charge = "TAKEN"
         /\ payment'[l].charge = "APPLIED"
         /\ payment'[l].dispute = payment[l].dispute
         /\ \/ /\ ValidActivation(l)
               /\ line'[l].intent = "COMPLETED"
               /\ line'[l].fulfillment = "PAID"
               /\ payment'[l].refund = payment[l].refund
            \/ /\ ~ValidActivation(l)
               /\ line'[l].intent = "FAILED"
               /\ line'[l].fulfillment = "CANCELED"
               /\ payment'[l].refund = "PENDING"
<1>1. line \in [Line -> LineRow] /\ payment \in [Line -> PaymentRow]
      /\ named \in [Line -> Match \cup {None}]
  BY DEF MaterialTypeOK
<1>2. line[l] \in LineRow /\ payment[l] \in PaymentRow
      /\ line[l].match \in Match \cup {None}
  BY <1>1 DEF LineRow
<1>3. /\ payment[l].charge = "TAKEN"
      /\ named' = [named EXCEPT ![l] = line[l].match]
      /\ UNCHANGED <<claim, proposal>>
  BY DEF ApplyPayment
<1>4. CASE ValidActivation(l)
  <2> DEFINE paid == [line[l] EXCEPT !.intent = "COMPLETED", !.fulfillment = "PAID",
                                     !.due = "AHEAD", !.job = "WAITING",
                                     !.unit = "SPENT"]
             applied == [payment[l] EXCEPT !.charge = "APPLIED"]
  <2>1. /\ paid \in LineRow
        /\ paid.match = line[l].match /\ paid.released = line[l].released
        /\ paid.files = line[l].files
        /\ paid.intent = "COMPLETED" /\ paid.fulfillment = "PAID"
    BY <1>2 DEF LineRow
  <2>2. /\ applied \in PaymentRow
        /\ applied.charge = "APPLIED" /\ applied.dispute = payment[l].dispute
        /\ applied.refund = payment[l].refund
    BY <1>2 DEF PaymentRow
  <2>3. line' = [line EXCEPT ![l] = paid] /\ payment' = [payment EXCEPT ![l] = applied]
    BY <1>4 DEF ApplyPayment
  <2> HIDE DEF paid, applied
  <2> QED  BY <1>1, <1>2, <1>3, <1>4, <2>1, <2>2, <2>3
<1>5. CASE ~ValidActivation(l)
  <2> DEFINE failed == [line[l] EXCEPT !.intent = "FAILED", !.fulfillment = "CANCELED"]
             refused == [payment[l] EXCEPT !.charge = "APPLIED", !.refund = "PENDING"]
  <2>1. /\ failed \in LineRow
        /\ failed.match = line[l].match /\ failed.released = line[l].released
        /\ failed.files = line[l].files
        /\ failed.intent = "FAILED" /\ failed.fulfillment = "CANCELED"
    BY <1>2 DEF LineRow
  <2>2. /\ refused \in PaymentRow
        /\ refused.charge = "APPLIED" /\ refused.dispute = payment[l].dispute
        /\ refused.refund = "PENDING"
    BY <1>2 DEF PaymentRow
  <2>3. line' = [line EXCEPT ![l] = failed] /\ payment' = [payment EXCEPT ![l] = refused]
    BY <1>5 DEF ApplyPayment
  <2> HIDE DEF failed, refused
  <2> QED  BY <1>1, <1>2, <1>3, <1>5, <2>1, <2>2, <2>3
<1> QED  BY <1>4, <1>5

\* A dispute is won: the refund starts, if the line was called off, or stays as it is.
LEMMA WinFields ==
  ASSUME MaterialTypeOK, NEW l \in Line, WinDispute(l)
  PROVE  /\ payment' \in [Line -> PaymentRow]
         /\ UNCHANGED <<line, claim, named, proposal>>
         /\ \A k \in Line \ {l} : payment'[k] = payment[k]
         /\ payment'[l].charge = payment[l].charge
         /\ payment'[l].dispute = "WON"
         /\ \/ /\ line[l].fulfillment = "CANCELED" /\ ~line[l].released /\ ~Refunding(l)
               /\ payment'[l].refund = "PENDING"
            \/ /\ ~(line[l].fulfillment = "CANCELED" /\ ~line[l].released /\ ~Refunding(l))
               /\ payment'[l].refund = payment[l].refund
<1> DEFINE calledOff == line[l].fulfillment = "CANCELED" /\ ~line[l].released /\ ~Refunding(l)
           row == [payment[l] EXCEPT
                     !.dispute = "WON",
                     !.refund = IF calledOff THEN "PENDING" ELSE payment[l].refund]
<1>1. payment \in [Line -> PaymentRow] /\ payment[l] \in PaymentRow
  BY DEF MaterialTypeOK
<1>2. payment' = [payment EXCEPT ![l] = row] /\ UNCHANGED <<line, claim, named, proposal>>
  BY DEF WinDispute
<1> HIDE DEF calledOff
<1>3. /\ row \in PaymentRow
      /\ row.charge = payment[l].charge /\ row.dispute = "WON"
      /\ row.refund = IF calledOff THEN "PENDING" ELSE payment[l].refund
  BY <1>1 DEF PaymentRow
<1> HIDE DEF row
<1> QED  BY <1>1, <1>2, <1>3 DEF calledOff

\* A new revision of a line, on the old match or another.
LEMMA RevisionFields ==
  ASSUME MaterialTypeOK, NEW l \in Line, NEW m \in Match, NewRevision(l, m)
  PROVE  /\ line' \in [Line -> LineRow]
         /\ \A k \in Line \ {l} : line'[k] = line[k]
         /\ line'[l].match = m
         /\ line'[l].intent = line[l].intent
         /\ line'[l].released = line[l].released
         /\ line'[l].fulfillment = "PAID"
         /\ line'[l].files = "NONE"
<1>1. line \in [Line -> LineRow]
  BY DEF MaterialTypeOK
<1> DEFINE row == [line[l] EXCEPT !.match = m, !.fulfillment = "PAID", !.files = "NONE",
                                  !.checked = FALSE, !.due = "AHEAD", !.job = "WAITING",
                                  !.unit = "SPENT"]
<1>2. row \in LineRow
  <2>1. /\ line[l] \in LineRow /\ m \in Match \cup {None}
    BY <1>1
  <2> QED  BY <2>1 DEF LineRow
<1>4. /\ row.match = m /\ row.intent = line[l].intent
      /\ row.released = line[l].released
      /\ row.fulfillment = "PAID" /\ row.files = "NONE"
  BY <1>1 DEF LineRow
<1>3. line' = [line EXCEPT ![l] = row]
  BY DEF NewRevision
<1> HIDE DEF row
<1> QED  BY <1>1, <1>2, <1>3, <1>4

\* A revision leaves every proposal its line, kind and target.
LEMMA ReviseFields ==
  ASSUME MaterialTypeOK, NEW l \in Line, NEW accepted,
         \A q \in accepted : proposal[q].state = "PROPOSED",
         Revise(l, accepted)
  PROVE  /\ proposal' \in [Proposal -> ProposalRow]
         /\ \A q \in Proposal :
              /\ proposal'[q].line = proposal[q].line
              /\ proposal'[q].kind = proposal[q].kind
              /\ proposal'[q].target = proposal[q].target
              /\ proposal'[q].state # "NONE" => proposal[q].state # "NONE"
<1>1. proposal \in [Proposal -> ProposalRow]
  BY DEF MaterialTypeOK
<1>2. ASSUME NEW q \in Proposal
      PROVE  /\ proposal'[q] \in ProposalRow
             /\ proposal'[q].line = proposal[q].line
             /\ proposal'[q].kind = proposal[q].kind
             /\ proposal'[q].target = proposal[q].target
             /\ proposal'[q].state # "NONE" => proposal[q].state # "NONE"
  <2>1. proposal[q] \in ProposalRow
    BY <1>1
  <2>2. CASE proposal[q].line # l
    BY <1>1, <2>1, <2>2 DEF Revise
  <2>3. CASE proposal[q].line = l /\ q \in accepted
    BY <1>1, <2>1, <2>3 DEF Revise, ProposalRow
  <2>4. CASE proposal[q].line = l /\ q \notin accepted
    BY <1>1, <2>1, <2>4 DEF Revise, ProposalRow
  <2> QED  BY <2>2, <2>3, <2>4
<1> QED  BY <1>2 DEF Revise

-------------------------------------------------------------------------------
\* The inductive invariant.  Only a payment that was applied gives a line work,
\* files, a refund or a release; a payment refused is always refunded.
LineFits(l) ==
  /\ payment[l].charge = "APPLIED" <=> line[l].intent \in {"COMPLETED", "FAILED"}
  /\ payment[l].charge = "TAKEN" => line[l].intent \in {"OPEN", "EXPIRED"}
  /\ line[l].intent = "FAILED" => Refunding(l)
  /\ payment[l].charge # "APPLIED" =>
       /\ line[l].fulfillment \in {"NOT_PURCHASED", "CANCELED"}
       /\ line[l].files = "NONE"
       /\ ~Refunding(l) /\ payment[l].dispute = "NONE"
  /\ line[l].released => line[l].fulfillment = "DELIVERED" /\ payment[l].charge = "APPLIED"

\* A proposal was made for a line that is paid.
ProposalFits(q) ==
  proposal[q].state # "NONE" =>
    /\ proposal[q].line \in Line
    /\ payment[proposal[q].line].charge = "APPLIED"
    /\ proposal[q].kind = "SUBSTITUTION" => proposal[q].target \in Match

Inv ==
  /\ MaterialTypeOK
  /\ \A l \in Line : LineFits(l)
  /\ \A q \in Proposal : ProposalFits(q)
  /\ LineIsAnswered

\* Every step keeps the types.
LEMMA TypeNext ==
  ASSUME Inv, [MaterialNext]_materialVars PROVE MaterialTypeOK'
<1>t. /\ line \in [Line -> LineRow] /\ payment \in [Line -> PaymentRow]
      /\ claim \in [Match -> Line \cup {None}]
      /\ named \in [Line -> Match \cup {None}]
      /\ proposal \in [Proposal -> ProposalRow]
      /\ \A l \in Line : line[l].match = None <=> line[l].intent = "NONE"
  BY DEF Inv, MaterialTypeOK
<1>r. \A l \in Line : line[l] \in LineRow /\ line[l].match \in Match \cup {None}
  BY <1>t DEF LineRow
<1>1. ASSUME NEW l \in Line, NEW m \in Match, Begin(l, m)
      PROVE  MaterialTypeOK'
  <2> DEFINE row == [line[l] EXCEPT !.intent = "READY", !.match = m, !.due = "AHEAD"]
  <2>1. row \in LineRow
    BY <1>r, <1>1 DEF LineRow
  <2>2. row.match = None <=> row.intent = "NONE"
    BY <1>t, <1>r, <1>1 DEF LineRow, Begin
  <2>3. line' = [line EXCEPT ![l] = row]
    BY <1>1 DEF Begin
  <2> HIDE DEF row
  <2>5. /\ UNCHANGED <<payment, proposal>>
       /\ claim' \in [Match -> Line \cup {None}]
       /\ named' \in [Line -> Match \cup {None}]
    BY <1>t, <1>1 DEF Begin
  <2> QED  BY <1>t, <1>r, <2>1, <2>2, <2>3, <2>5 DEF MaterialTypeOK
<1>2. ASSUME NEW l \in Line, Promote(l)
      PROVE  MaterialTypeOK'
  <2> DEFINE row == [line[l] EXCEPT !.intent = "OPEN"]
  <2>1. row \in LineRow
    BY <1>r, <1>2 DEF LineRow
  <2>2. row.match = None <=> row.intent = "NONE"
    BY <1>t, <1>r, <1>2 DEF LineRow, Promote
  <2>3. line' = [line EXCEPT ![l] = row]
    BY <1>2 DEF Promote
  <2> HIDE DEF row
  <2>5. UNCHANGED <<payment, claim, named, proposal>>
    BY <1>t, <1>2 DEF Promote
  <2> QED  BY <1>t, <1>r, <2>1, <2>2, <2>3, <2>5 DEF MaterialTypeOK
<1>3. ASSUME NEW l \in Line, Charge(l)
      PROVE  MaterialTypeOK'
  <2>1. payment' \in [Line -> PaymentRow]
    BY <1>t, <1>3 DEF PaymentRow, Charge
  <2> QED  BY <1>t, <1>3, <2>1 DEF MaterialTypeOK, Charge
<1>4. ASSUME NEW l \in Line, ExpireCheckout(l)
      PROVE  MaterialTypeOK'
  <2> DEFINE row == [line[l] EXCEPT !.intent = "EXPIRED", !.fulfillment = "CANCELED"]
  <2>1. row \in LineRow
    BY <1>r, <1>4 DEF LineRow
  <2>2. row.match = None <=> row.intent = "NONE"
    BY <1>t, <1>r, <1>4 DEF LineRow, ExpireCheckout
  <2>3. line' = [line EXCEPT ![l] = row]
    BY <1>4 DEF ExpireCheckout
  <2> HIDE DEF row
  <2>5. /\ UNCHANGED <<payment, named, proposal>>
       /\ claim' \in [Match -> Line \cup {None}]
    BY <1>t, <1>4 DEF ExpireCheckout
  <2> QED  BY <1>t, <1>r, <2>1, <2>2, <2>3, <2>5 DEF MaterialTypeOK
<1>5. ASSUME NEW l \in Line, ApplyPayment(l)
      PROVE  MaterialTypeOK'
  <2>1. line[l].intent # "NONE"
    BY <1>5 DEF Inv, LineFits, ApplyPayment
  <2> QED  BY <1>t, <1>5, <2>1, ApplyFields DEF Inv, MaterialTypeOK
<1>6. ASSUME NEW l \in Line, DeadlineJob(l)
      PROVE  MaterialTypeOK'
  <2> DEFINE done == [line[l] EXCEPT !.job = "DONE"]
  <2>1. /\ done \in LineRow
        /\ done.match = line[l].match /\ done.intent = line[l].intent
    BY <1>r DEF LineRow
  <2>4. UNCHANGED <<claim, proposal>>
    BY <1>6 DEF DeadlineJob
  <2> HIDE DEF done
  <2>2. CASE StartRefund(l, done)
    BY <1>t, <1>6, <2>1, <2>2, <2>4, RefundFields DEF Inv, MaterialTypeOK
  <2>3. CASE line' = [line EXCEPT ![l] = done] /\ UNCHANGED <<payment, named>>
    BY <1>t, <2>1, <2>3, <2>4 DEF MaterialTypeOK
  <2> QED  BY <1>6, <2>2, <2>3 DEF DeadlineJob, done
<1>7. ASSUME NEW l \in Line, OpenDispute(l)
      PROVE  MaterialTypeOK'
  <2> DEFINE stopped == [line[l] EXCEPT
       !.fulfillment = IF line[l].fulfillment = "DELIVERED" THEN "DELIVERED" ELSE "CANCELED",
       !.unit = IF line[l].unit = "SPENT" THEN "SUPERSEDED" ELSE line[l].unit]
             row == IF line[l].released THEN line[l] ELSE stopped
  <2>1. row \in LineRow
    BY <1>r, <1>7 DEF LineRow
  <2>2. row.match = None <=> row.intent = "NONE"
    BY <1>t, <1>r, <1>7 DEF LineRow, OpenDispute
  <2>3. line' = [line EXCEPT ![l] = row]
    BY <1>7 DEF OpenDispute
  <2> HIDE DEF row
  <2>4. payment' \in [Line -> PaymentRow]
    BY <1>t, <1>7 DEF PaymentRow, OpenDispute
  <2>5. UNCHANGED <<claim, named, proposal>>
    BY <1>t, <1>7 DEF OpenDispute
  <2> QED  BY <1>t, <1>r, <2>1, <2>2, <2>3, <2>4, <2>5 DEF MaterialTypeOK
<1>8. ASSUME NEW l \in Line, LoseDispute(l)
      PROVE  MaterialTypeOK'
  <2>1. payment' \in [Line -> PaymentRow]
    BY <1>t, <1>8 DEF PaymentRow, LoseDispute
  <2> QED  BY <1>t, <1>8, <2>1 DEF MaterialTypeOK, LoseDispute
<1>9. ASSUME NEW l \in Line, WinDispute(l)
      PROVE  MaterialTypeOK'
  BY <1>t, <1>9, WinFields DEF Inv, MaterialTypeOK
<1>10. ASSUME NEW l \in Line, RefundSucceeds(l)
       PROVE  MaterialTypeOK'
  <2>1. payment' \in [Line -> PaymentRow]
    BY <1>t, <1>10 DEF PaymentRow, RefundSucceeds
  <2> QED  BY <1>t, <1>10, <2>1 DEF MaterialTypeOK, RefundSucceeds
<1>11. ASSUME NEW l \in Line, RefundFails(l)
       PROVE  MaterialTypeOK'
  <2>1. payment' \in [Line -> PaymentRow]
    BY <1>t, <1>11 DEF PaymentRow, RefundFails
  <2> QED  BY <1>t, <1>11, <2>1 DEF MaterialTypeOK, RefundFails
<1>12. ASSUME NEW l \in Line, RetryRefund(l)
       PROVE  MaterialTypeOK'
  <2>1. payment' \in [Line -> PaymentRow]
    BY <1>t, <1>12 DEF PaymentRow, RetryRefund
  <2> QED  BY <1>t, <1>12, <2>1 DEF MaterialTypeOK, RetryRefund
<1>13. ASSUME NEW l \in Line, NEW passed \in BOOLEAN, RegisterFile(l, passed)
       PROVE  MaterialTypeOK'
  <2>f. PICK files \in FilesAfter(line[l].files, passed) :
          line' = [line EXCEPT
            ![l] = [line[l] EXCEPT
              !.files = files,
              !.fulfillment = IF passed THEN "HUMAN_REVIEW" ELSE "GENERATING"]]
    BY <1>r, <1>13 DEF RegisterFile
  <2>g. files \in {"NONE", "SOME", "MADE"}
    BY <2>f DEF FilesAfter
  <2> DEFINE row == [line[l] EXCEPT
       !.files = files,
       !.fulfillment = IF passed THEN "HUMAN_REVIEW" ELSE "GENERATING"]
  <2>1. row \in LineRow
    BY <1>r, <2>g DEF LineRow
  <2>2. row.match = None <=> row.intent = "NONE"
    BY <1>t, <1>r, <1>13 DEF LineRow, RegisterFile, Changeable
  <2>3. line' = [line EXCEPT ![l] = row]
    BY <2>f
  <2> HIDE DEF row
  <2>5. UNCHANGED <<payment, claim, named, proposal>>
    BY <1>t, <1>13 DEF RegisterFile
  <2> QED  BY <1>t, <1>r, <2>1, <2>2, <2>3, <2>5 DEF MaterialTypeOK
<1>14. ASSUME NEW l \in Line, NEW complete \in BOOLEAN, ApproveFile(l, complete)
       PROVE  MaterialTypeOK'
  <2> DEFINE row == [line[l] EXCEPT
       !.files = IF complete THEN "APPROVED" ELSE line[l].files,
       !.fulfillment = IF line[l].fulfillment = "DELIVERED" THEN "DELIVERED"
                       ELSE IF complete THEN "READY_TO_RELEASE" ELSE "HUMAN_REVIEW"]
  <2>1. row \in LineRow
    BY <1>r, <1>14 DEF LineRow
  <2>2. row.match = None <=> row.intent = "NONE"
    BY <1>t, <1>r, <1>14 DEF LineRow, ApproveFile
  <2>3. line' = [line EXCEPT ![l] = row]
    BY <1>14 DEF ApproveFile
  <2> HIDE DEF row
  <2>5. UNCHANGED <<payment, claim, named, proposal>>
    BY <1>t, <1>14 DEF ApproveFile
  <2> QED  BY <1>t, <1>r, <2>1, <2>2, <2>3, <2>5 DEF MaterialTypeOK
<1>15. ASSUME NEW l \in Line, NEW active \in BOOLEAN,
             NEW phase \in {"BEFORE_GENERATION", "BEFORE_RELEASE"}, CheckListing(l, phase, active)
       PROVE  MaterialTypeOK'
  <2> DEFINE row == [line[l] EXCEPT
       !.checked = IF phase = "BEFORE_RELEASE" THEN active ELSE line[l].checked,
       !.files = IF active THEN line[l].files ELSE "NONE",
       !.fulfillment = IF active THEN line[l].fulfillment ELSE "HUMAN_REVIEW"]
  <2>1. row \in LineRow
    BY <1>r, <1>15 DEF LineRow
  <2>2. row.match = None <=> row.intent = "NONE"
    BY <1>t, <1>r, <1>15 DEF LineRow, CheckListing
  <2>3. line' = [line EXCEPT ![l] = row]
    BY <1>15 DEF CheckListing
  <2> HIDE DEF row
  <2>5. UNCHANGED <<payment, claim, named, proposal>>
    BY <1>t, <1>15 DEF CheckListing
  <2> QED  BY <1>t, <1>r, <2>1, <2>2, <2>3, <2>5 DEF MaterialTypeOK
<1>16. ASSUME NEW l \in Line, CommitRelease(l)
       PROVE  MaterialTypeOK'
  <2> DEFINE row == [line[l] EXCEPT !.fulfillment = "DELIVERED", !.released = TRUE]
  <2>1. row \in LineRow
    BY <1>r, <1>16 DEF LineRow
  <2>2. row.match = None <=> row.intent = "NONE"
    BY <1>t, <1>r, <1>16 DEF LineRow, CommitRelease
  <2>3. line' = [line EXCEPT ![l] = row]
    BY <1>16 DEF CommitRelease
  <2> HIDE DEF row
  <2>5. /\ UNCHANGED <<payment, claim, proposal>>
       /\ named' \in [Line -> Match \cup {None}]
    BY <1>t, <1>r, <1>16 DEF CommitRelease
  <2> QED  BY <1>t, <1>r, <2>1, <2>2, <2>3, <2>5 DEF MaterialTypeOK
<1>17. ASSUME NEW l \in Line, AmendReferences(l)
       PROVE  MaterialTypeOK'
  <2> DEFINE row == [line[l] EXCEPT !.fulfillment = "PAID", !.files = "NONE",
                                    !.checked = FALSE, !.job = "WAITING",
                                    !.unit = "NONE"]
  <2>1. row \in LineRow
    BY <1>r DEF LineRow
  <2>2. row.match = line[l].match /\ row.intent = line[l].intent
    BY <1>r DEF LineRow
  <2>3. line' = [line EXCEPT ![l] = row]
    BY <1>17 DEF AmendReferences
  <2> HIDE DEF row
  <2>6. Revise(l, {})
    BY <1>17 DEF AmendReferences
  <2>4. proposal' \in [Proposal -> ProposalRow]
    BY <2>6, ReviseFields DEF Inv
  <2>5. /\ UNCHANGED <<payment, claim>>
        /\ named' \in [Line -> Match \cup {None}]
    BY <1>t, <1>r, <1>17 DEF AmendReferences
  <2> QED  BY <1>t, <1>r, <2>1, <2>2, <2>3, <2>4, <2>5 DEF MaterialTypeOK
<1>18. ASSUME NEW l \in Line, DuePasses(l)
       PROVE  MaterialTypeOK'
  <2> DEFINE row == [line[l] EXCEPT !.due = "PAST"]
  <2>1. row \in LineRow
    BY <1>r, <1>18 DEF LineRow
  <2>2. row.match = None <=> row.intent = "NONE"
    BY <1>t, <1>r, <1>18 DEF LineRow, DuePasses
  <2>3. line' = [line EXCEPT ![l] = row]
    BY <1>18 DEF DuePasses
  <2> HIDE DEF row
  <2>4. proposal' \in [Proposal -> ProposalRow]
    BY <1>t, <1>18 DEF ProposalRow, DuePasses
  <2>5. UNCHANGED <<payment, claim, named>>
    BY <1>t, <1>18 DEF DuePasses
  <2> QED  BY <1>t, <1>r, <2>1, <2>2, <2>3, <2>4, <2>5 DEF MaterialTypeOK
<1>19. ASSUME NEW q \in Proposal, NEW l \in Line, ProposeCorrection(q, l)
       PROVE  MaterialTypeOK'
  <2>1. proposal' \in [Proposal -> ProposalRow]
    <3>1. [state |-> "PROPOSED", kind |-> "FACT_CORRECTION", line |-> l, target |-> None,
           current |-> TRUE, expired |-> FALSE] \in ProposalRow
      BY DEF ProposalRow
    <3> QED  BY <1>t, <1>19, <3>1 DEF ProposeCorrection, Propose
  <2>2. line' \in [Line -> LineRow]
    <3>1. [line[l] EXCEPT !.files = "NONE", !.fulfillment = "HUMAN_REVIEW"] \in LineRow
      BY <1>r DEF LineRow
    <3> QED  BY <1>t, <1>19, <3>1 DEF ProposeCorrection
  <2>3. \A k \in Line : line'[k].match = None <=> line'[k].intent = "NONE"
    BY <1>t, <1>19 DEF LineRow, ProposeCorrection
  <2>4. UNCHANGED <<payment, claim, named>>
    BY <1>19 DEF ProposeCorrection
  <2> QED  BY <1>t, <2>1, <2>2, <2>3, <2>4 DEF MaterialTypeOK
<1>20. ASSUME NEW q \in Proposal, NEW l \in Line, NEW m \in Match,
              OfferSubstitution(q, l, m)
       PROVE  MaterialTypeOK'
  <2>1. proposal' \in [Proposal -> ProposalRow]
    BY <1>t, <1>20 DEF ProposalRow, OfferSubstitution, Propose
  <2> QED  BY <1>t, <1>20, <2>1 DEF MaterialTypeOK, OfferSubstitution, Propose
<1>21. ASSUME NEW q \in Proposal, AcceptSubstitution(q)
       PROVE  MaterialTypeOK'
  <2> DEFINE l == proposal[q].line  new == proposal[q].target
  <2>1. l \in Line /\ new \in Match /\ proposal[q].state = "PROPOSED"
    BY <1>21 DEF Inv, ProposalFits, AcceptSubstitution, Acceptable, TargetFree
  <2>2. NewRevision(l, new) /\ Revise(l, {q})
    BY <1>21 DEF AcceptSubstitution
  <2>3. line[l].intent # "NONE" /\ line[l].match \in Match
    BY <1>t, <1>r, <1>21, <2>1 DEF Inv, ProposalFits, LineFits
  <2>4. /\ claim' \in [Match -> Line \cup {None}]
        /\ named' \in [Line -> Match \cup {None}]
    BY <1>t, <1>21, <2>1, <2>3 DEF AcceptSubstitution
  <2>5. proposal' \in [Proposal -> ProposalRow]
    BY <2>1, <2>2, ReviseFields DEF Inv
  <2>6. /\ line' \in [Line -> LineRow]
        /\ \A k \in Line \ {l} : line'[k] = line[k]
        /\ line'[l].match = new /\ line'[l].intent = line[l].intent
    BY <2>1, <2>2, RevisionFields DEF Inv
  <2>7. payment' = payment
    BY <1>21 DEF AcceptSubstitution
  <2> HIDE DEF l, new
  <2> QED  BY <1>t, <2>1, <2>3, <2>4, <2>5, <2>6, <2>7 DEF MaterialTypeOK
<1>22. ASSUME NEW q \in Proposal, AcceptCorrection(q)
       PROVE  MaterialTypeOK'
  <2> DEFINE l == proposal[q].line
  <2>1. l \in Line /\ proposal[q].state = "PROPOSED"
    BY <1>22 DEF Inv, ProposalFits, AcceptCorrection, Acceptable
  <2>2. NewRevision(l, line[l].match) /\ Revise(l, {q})
    BY <1>22 DEF AcceptCorrection
  <2>3. line[l].intent # "NONE" /\ line[l].match \in Match
    BY <1>t, <1>r, <1>22, <2>1 DEF Inv, ProposalFits, LineFits
  <2>4. named' \in [Line -> Match \cup {None}]
    BY <1>t, <1>22, <2>1, <2>3 DEF AcceptCorrection
  <2>5. proposal' \in [Proposal -> ProposalRow]
    BY <2>1, <2>2, ReviseFields DEF Inv
  <2>6. /\ line' \in [Line -> LineRow]
        /\ \A k \in Line \ {l} : line'[k] = line[k]
        /\ line'[l].match = line[l].match /\ line'[l].intent = line[l].intent
    BY <2>1, <2>2, <2>3, RevisionFields DEF Inv
  <2>7. payment' = payment /\ claim' = claim
    BY <1>22 DEF AcceptCorrection
  <2> HIDE DEF l
  <2> QED  BY <1>t, <2>1, <2>3, <2>4, <2>5, <2>6, <2>7 DEF MaterialTypeOK
<1>23. ASSUME NEW q \in Proposal, ProposalLapses(q)
       PROVE  MaterialTypeOK'
  <2>1. proposal' \in [Proposal -> ProposalRow]
    BY <1>t, <1>23 DEF ProposalRow, ProposalLapses
  <2> QED  BY <1>t, <1>23, <2>1 DEF MaterialTypeOK, ProposalLapses
<1>24. ASSUME NEW q \in Proposal, NEW state \in {"DECLINED", "EXPIRED"},
              EndProposal(q, state)
       PROVE  MaterialTypeOK'
  <2> DEFINE l == proposal[q].line
  <2>1. l \in Line
    BY <1>24 DEF Inv, ProposalFits, EndProposal
  <2>2. StartRefund(l, line[l]) /\ claim' = claim
    BY <1>24 DEF EndProposal
  <2>3. proposal' \in [Proposal -> ProposalRow]
    BY <1>t, <1>24 DEF EndProposal, ProposalRow
  <2> HIDE DEF l
  <2> QED  BY <1>t, <1>r, <2>1, <2>2, <2>3, RefundFields DEF Inv, MaterialTypeOK
<1>25. ASSUME UNCHANGED materialVars PROVE MaterialTypeOK'
  BY <1>25, <1>t DEF materialVars, MaterialTypeOK
<1> QED
  BY <1>1, <1>2, <1>3, <1>4, <1>5, <1>6, <1>7, <1>8, <1>9, <1>10, <1>11, <1>12,
     <1>13, <1>14, <1>15, <1>16, <1>17, <1>18, <1>19, <1>20, <1>21, <1>22, <1>23,
     <1>24, <1>25
  DEF MaterialNext, SellLine, SettleLine, WorkOnLine, ChangeLine

\* What a started refund, and a new revision, leave of the invariant.
LEMMA RefundFits ==
  ASSUME Inv, NEW l \in Line, NEW row \in LineRow, StartRefund(l, row),
         row.intent = line[l].intent, row.released = line[l].released,
         row.fulfillment = line[l].fulfillment, row.files = line[l].files,
         Unsettled(l) => payment[l].charge = "APPLIED"
  PROVE  (\A k \in Line : LineFits(k)') /\ LineIsAnswered'
<1>1. MaterialTypeOK
  BY DEF Inv
<1>2. ASSUME NEW k \in Line \ {l}
      PROVE  LineFits(k)' /\ (LineFits(k) <=> LineFits(k)')
  BY <1>1, RefundFields DEF Inv, LineFits, Refunding
<1>3. LineFits(l)'
  BY <1>1, RefundFields DEF Inv, LineFits, Refunding, Unsettled
<1>4. LineIsAnswered'
  BY <1>1, RefundFields DEF Inv, LineIsAnswered, Refunding, Unsettled, Disputed
<1> QED  BY <1>2, <1>3, <1>4

LEMMA RevisionFits ==
  ASSUME Inv, NEW l \in Line, line' \in [Line -> LineRow], UNCHANGED payment,
         \A k \in Line \ {l} : line'[k] = line[k],
         line'[l].intent = line[l].intent, line'[l].released = line[l].released,
         line'[l].fulfillment = "PAID", line'[l].files = "NONE",
         Changeable(l)
  PROVE  (\A k \in Line : LineFits(k)') /\ LineIsAnswered'
<1>1. MaterialTypeOK
  BY DEF Inv
<1>2. \A k \in Line \ {l} : LineFits(k)'
  BY <1>1 DEF Inv, LineFits, Refunding
<1>3. LineFits(l)'
  BY <1>1 DEF Inv, LineFits, Refunding, Changeable, InWork
<1>4. LineIsAnswered'
  BY <1>1 DEF Inv, LineIsAnswered, Refunding, Disputed, Changeable
<1> QED  BY <1>2, <1>3, <1>4

\* The rows an amendment of the references writes.
LEMMA AmendFields ==
  ASSUME MaterialTypeOK, NEW l \in Line, AmendReferences(l)
  PROVE  /\ line' \in [Line -> LineRow]
         /\ \A k \in Line \ {l} : line'[k] = line[k]
         /\ line'[l].intent = line[l].intent
         /\ line'[l].match = line[l].match
         /\ line'[l].released = line[l].released
         /\ line'[l].fulfillment = "PAID"
         /\ line'[l].files = "NONE"
<1>1. line \in [Line -> LineRow] /\ line[l] \in LineRow
  BY DEF MaterialTypeOK
<1> DEFINE row == [line[l] EXCEPT !.fulfillment = "PAID", !.files = "NONE",
                                  !.checked = FALSE, !.job = "WAITING",
                                  !.unit = "NONE"]
<1>2. row \in LineRow
  BY <1>1 DEF LineRow
<1>3. /\ row.intent = line[l].intent /\ row.match = line[l].match
      /\ row.released = line[l].released
      /\ row.fulfillment = "PAID" /\ row.files = "NONE"
  BY <1>1 DEF LineRow
<1>4. line' = [line EXCEPT ![l] = row]
  BY DEF AmendReferences
<1> HIDE DEF row
<1> QED  BY <1>1, <1>2, <1>3, <1>4

\* Every step keeps the rows of a line together,
LEMMA FitNext ==
  ASSUME Inv, [MaterialNext]_materialVars PROVE \A k \in Line : LineFits(k)'
<1> USE DEF Inv
<1>1. ASSUME NEW l \in Line, NEW m \in Match, Begin(l, m)
      PROVE  \A k \in Line : LineFits(k)'
  BY <1>1 DEF MaterialTypeOK, LineFits, Refunding, Begin
<1>2. ASSUME NEW l \in Line, Promote(l)
      PROVE  \A k \in Line : LineFits(k)'
  BY <1>2 DEF MaterialTypeOK, LineFits, Refunding, Promote
<1>3. ASSUME NEW l \in Line, Charge(l)
      PROVE  \A k \in Line : LineFits(k)'
  BY <1>3 DEF MaterialTypeOK, LineFits, Refunding, Charge
<1>4. ASSUME NEW l \in Line, ExpireCheckout(l)
      PROVE  \A k \in Line : LineFits(k)'
  BY <1>4 DEF MaterialTypeOK, LineFits, Refunding, ExpireCheckout
<1>5. ASSUME NEW l \in Line, ApplyPayment(l)
      PROVE  \A k \in Line : LineFits(k)'
  BY <1>5, ApplyFields DEF LineFits, Refunding
<1>6. ASSUME NEW l \in Line, DeadlineJob(l)
      PROVE  \A k \in Line : LineFits(k)'
  <2> DEFINE done == [line[l] EXCEPT !.job = "DONE"]
  <2>1. /\ done \in LineRow
        /\ done.intent = line[l].intent /\ done.released = line[l].released
        /\ done.fulfillment = line[l].fulfillment /\ done.files = line[l].files
    BY DEF MaterialTypeOK, LineRow
  <2>2. \/ InWork(l) /\ StartRefund(l, done)
        \/ line' = [line EXCEPT ![l] = done] /\ UNCHANGED payment
    BY <1>6 DEF DeadlineJob
  <2> HIDE DEF done
  <2>3. CASE InWork(l) /\ StartRefund(l, done)
    <3>1. payment[l].charge = "APPLIED"
      BY <2>3 DEF LineFits, InWork
    <3> QED  BY <2>1, <2>3, <3>1, RefundFits
  <2>4. CASE line' = [line EXCEPT ![l] = done] /\ UNCHANGED payment
    BY <2>1, <2>4 DEF MaterialTypeOK, LineFits, Refunding
  <2> QED  BY <2>2, <2>3, <2>4
<1>7. ASSUME NEW l \in Line, OpenDispute(l)
      PROVE  \A k \in Line : LineFits(k)'
  BY <1>7 DEF MaterialTypeOK, LineFits, Refunding, OpenDispute
<1>8. ASSUME NEW l \in Line, LoseDispute(l)
      PROVE  \A k \in Line : LineFits(k)'
  BY <1>8 DEF MaterialTypeOK, LineFits, Refunding, LoseDispute
<1>9. ASSUME NEW l \in Line, WinDispute(l)
      PROVE  \A k \in Line : LineFits(k)'
  <2>1. payment[l].dispute = "OPEN"
    BY <1>9 DEF WinDispute
  <2> QED  BY <1>9, <2>1, WinFields DEF LineFits, Refunding
<1>10. ASSUME NEW l \in Line, RefundSucceeds(l)
       PROVE  \A k \in Line : LineFits(k)'
  BY <1>10 DEF MaterialTypeOK, LineFits, Refunding, RefundSucceeds
<1>11. ASSUME NEW l \in Line, RefundFails(l)
       PROVE  \A k \in Line : LineFits(k)'
  BY <1>11 DEF MaterialTypeOK, LineFits, Refunding, RefundFails
<1>12. ASSUME NEW l \in Line, RetryRefund(l)
       PROVE  \A k \in Line : LineFits(k)'
  BY <1>12 DEF MaterialTypeOK, LineFits, Refunding, RetryRefund
<1>13. ASSUME NEW l \in Line, NEW passed \in BOOLEAN, RegisterFile(l, passed)
       PROVE  \A k \in Line : LineFits(k)'
  BY <1>13 DEF MaterialTypeOK, LineFits, Refunding, InWork, RegisterFile, Changeable
<1>14. ASSUME NEW l \in Line, NEW complete \in BOOLEAN, ApproveFile(l, complete)
       PROVE  \A k \in Line : LineFits(k)'
  BY <1>14 DEF MaterialTypeOK, LineFits, Refunding, ApproveFile
<1>15. ASSUME NEW l \in Line, NEW active \in BOOLEAN,
             NEW phase \in {"BEFORE_GENERATION", "BEFORE_RELEASE"}, CheckListing(l, phase, active)
       PROVE  \A k \in Line : LineFits(k)'
  BY <1>15 DEF MaterialTypeOK, LineFits, Refunding, InWork, CheckListing
<1>16. ASSUME NEW l \in Line, CommitRelease(l)
       PROVE  \A k \in Line : LineFits(k)'
  BY <1>16 DEF MaterialTypeOK, LineFits, Refunding, CommitRelease
<1>17. ASSUME NEW l \in Line, AmendReferences(l)
       PROVE  \A k \in Line : LineFits(k)'
  <2>1. Changeable(l) /\ UNCHANGED payment
    BY <1>17 DEF AmendReferences
  <2> QED  BY <1>17, <2>1, AmendFields, RevisionFits
<1>18. ASSUME NEW l \in Line, DuePasses(l)
       PROVE  \A k \in Line : LineFits(k)'
  BY <1>18 DEF MaterialTypeOK, LineFits, Refunding, DuePasses
<1>19. ASSUME NEW q \in Proposal, NEW l \in Line, ProposeCorrection(q, l)
       PROVE  \A k \in Line : LineFits(k)'
  BY <1>19 DEF MaterialTypeOK, LineFits, Refunding, InWork, ProposeCorrection,
     Propose, Changeable
<1>20. ASSUME NEW q \in Proposal, NEW l \in Line, NEW m \in Match,
              OfferSubstitution(q, l, m)
       PROVE  \A k \in Line : LineFits(k)'
  BY <1>20 DEF MaterialTypeOK, LineFits, Refunding, OfferSubstitution, Propose
<1>21. ASSUME NEW q \in Proposal, AcceptSubstitution(q)
       PROVE  \A k \in Line : LineFits(k)'
  <2> DEFINE l == proposal[q].line  new == proposal[q].target
  <2>1. l \in Line /\ new \in Match /\ Changeable(l)
    BY <1>21 DEF ProposalFits, AcceptSubstitution, Acceptable, TargetFree
  <2>2. NewRevision(l, new) /\ UNCHANGED payment
    BY <1>21 DEF AcceptSubstitution
  <2> HIDE DEF l, new
  <2> QED  BY <2>1, <2>2, RevisionFields, RevisionFits
<1>22. ASSUME NEW q \in Proposal, AcceptCorrection(q)
       PROVE  \A k \in Line : LineFits(k)'
  <2> DEFINE l == proposal[q].line
  <2>1. l \in Line /\ Changeable(l)
    BY <1>22 DEF ProposalFits, AcceptCorrection, Acceptable
  <2>2. line[l].match \in Match
    BY <2>1 DEF MaterialTypeOK, LineRow, LineFits, Changeable, InWork
  <2>3. NewRevision(l, line[l].match) /\ UNCHANGED payment
    BY <1>22 DEF AcceptCorrection
  <2> HIDE DEF l
  <2> QED  BY <2>1, <2>2, <2>3, RevisionFields, RevisionFits
<1>23. ASSUME NEW q \in Proposal, ProposalLapses(q)
       PROVE  \A k \in Line : LineFits(k)'
  BY <1>23 DEF MaterialTypeOK, LineFits, Refunding, ProposalLapses
<1>24. ASSUME NEW q \in Proposal, NEW state \in {"DECLINED", "EXPIRED"},
              EndProposal(q, state)
       PROVE  \A k \in Line : LineFits(k)'
  <2> DEFINE l == proposal[q].line
  <2>1. l \in Line /\ payment[l].charge = "APPLIED"
    BY <1>24 DEF ProposalFits, EndProposal
  <2>2. StartRefund(l, line[l])
    BY <1>24 DEF EndProposal
  <2>3. line[l] \in LineRow
    BY <2>1 DEF MaterialTypeOK
  <2> HIDE DEF l
  <2> QED  BY <2>1, <2>2, <2>3, RefundFits
<1>25. ASSUME UNCHANGED materialVars PROVE \A k \in Line : LineFits(k)'
  BY <1>25 DEF MaterialTypeOK, LineFits, Refunding, materialVars
<1> QED
  BY <1>1, <1>2, <1>3, <1>4, <1>5, <1>6, <1>7, <1>8, <1>9, <1>10, <1>11, <1>12,
     <1>13, <1>14, <1>15, <1>16, <1>17, <1>18, <1>19, <1>20, <1>21, <1>22, <1>23,
     <1>24, <1>25
  DEF MaterialNext, SellLine, SettleLine, WorkOnLine, ChangeLine

\* the proposals with their lines,
LEMMA ProposalNext ==
  ASSUME Inv, [MaterialNext]_materialVars PROVE \A p \in Proposal : ProposalFits(p)'
<1> USE DEF Inv
<1>1. ASSUME NEW l \in Line, NEW m \in Match, Begin(l, m)
      PROVE  \A p \in Proposal : ProposalFits(p)'
  BY <1>1 DEF ProposalFits, Begin
<1>2. ASSUME NEW l \in Line, Promote(l)
      PROVE  \A p \in Proposal : ProposalFits(p)'
  BY <1>2 DEF ProposalFits, Promote
<1>3. ASSUME NEW l \in Line, Charge(l)
      PROVE  \A p \in Proposal : ProposalFits(p)'
  BY <1>3 DEF ProposalFits, Charge
<1>4. ASSUME NEW l \in Line, ExpireCheckout(l)
      PROVE  \A p \in Proposal : ProposalFits(p)'
  BY <1>4 DEF ProposalFits, ExpireCheckout
<1>5. ASSUME NEW l \in Line, ApplyPayment(l)
      PROVE  \A p \in Proposal : ProposalFits(p)'
  BY <1>5 DEF MaterialTypeOK, ProposalFits, ApplyPayment, ValidActivation
<1>6. ASSUME NEW l \in Line, DeadlineJob(l)
      PROVE  \A p \in Proposal : ProposalFits(p)'
  <2>3. proposal' = proposal
    BY <1>6 DEF DeadlineJob
  <2>4. \/ payment' = payment
        \/ payment' = [payment EXCEPT ![l].refund = "PENDING"]
    BY <1>6 DEF DeadlineJob, StartRefund
  <2>5. \A k \in Line : payment'[k].charge = payment[k].charge
    BY <2>4 DEF MaterialTypeOK, PaymentRow
  <2> QED  BY <2>3, <2>5 DEF ProposalFits
<1>7. ASSUME NEW l \in Line, OpenDispute(l)
      PROVE  \A p \in Proposal : ProposalFits(p)'
  BY <1>7 DEF ProposalFits, OpenDispute
<1>8. ASSUME NEW l \in Line, LoseDispute(l)
      PROVE  \A p \in Proposal : ProposalFits(p)'
  BY <1>8 DEF ProposalFits, LoseDispute
<1>9. ASSUME NEW l \in Line, WinDispute(l)
      PROVE  \A p \in Proposal : ProposalFits(p)'
  BY <1>9 DEF MaterialTypeOK, ProposalFits, WinDispute
<1>10. ASSUME NEW l \in Line, RefundSucceeds(l)
       PROVE  \A p \in Proposal : ProposalFits(p)'
  BY <1>10 DEF ProposalFits, RefundSucceeds
<1>11. ASSUME NEW l \in Line, RefundFails(l)
       PROVE  \A p \in Proposal : ProposalFits(p)'
  BY <1>11 DEF ProposalFits, RefundFails
<1>12. ASSUME NEW l \in Line, RetryRefund(l)
       PROVE  \A p \in Proposal : ProposalFits(p)'
  BY <1>12 DEF ProposalFits, RetryRefund
<1>13. ASSUME NEW l \in Line, NEW passed \in BOOLEAN, RegisterFile(l, passed)
       PROVE  \A p \in Proposal : ProposalFits(p)'
  BY <1>13 DEF ProposalFits, RegisterFile
<1>14. ASSUME NEW l \in Line, NEW complete \in BOOLEAN, ApproveFile(l, complete)
       PROVE  \A p \in Proposal : ProposalFits(p)'
  BY <1>14 DEF ProposalFits, ApproveFile
<1>15. ASSUME NEW l \in Line, NEW active \in BOOLEAN,
             NEW phase \in {"BEFORE_GENERATION", "BEFORE_RELEASE"}, CheckListing(l, phase, active)
       PROVE  \A p \in Proposal : ProposalFits(p)'
  BY <1>15 DEF ProposalFits, CheckListing
<1>16. ASSUME NEW l \in Line, CommitRelease(l)
       PROVE  \A p \in Proposal : ProposalFits(p)'
  BY <1>16 DEF ProposalFits, CommitRelease
<1>17. ASSUME NEW l \in Line, AmendReferences(l)
       PROVE  \A p \in Proposal : ProposalFits(p)'
  <2>1. Revise(l, {}) /\ UNCHANGED payment
    BY <1>17 DEF AmendReferences
  <2> QED  BY <2>1, ReviseFields DEF ProposalFits
<1>18. ASSUME NEW l \in Line, DuePasses(l)
       PROVE  \A p \in Proposal : ProposalFits(p)'
  BY <1>18 DEF ProposalFits, DuePasses
<1>19. ASSUME NEW q \in Proposal, NEW l \in Line, ProposeCorrection(q, l)
       PROVE  \A p \in Proposal : ProposalFits(p)'
  BY <1>19 DEF MaterialTypeOK, ProposalFits, Changeable, InWork, LineFits,
     ProposeCorrection, Propose
<1>20. ASSUME NEW q \in Proposal, NEW l \in Line, NEW m \in Match,
              OfferSubstitution(q, l, m)
       PROVE  \A p \in Proposal : ProposalFits(p)'
  BY <1>20 DEF MaterialTypeOK, ProposalFits, Changeable, InWork, LineFits,
     OfferSubstitution, Propose
<1>21. ASSUME NEW q \in Proposal, AcceptSubstitution(q)
       PROVE  \A p \in Proposal : ProposalFits(p)'
  <2> DEFINE l == proposal[q].line
  <2>1. l \in Line /\ proposal[q].state = "PROPOSED"
    BY <1>21 DEF ProposalFits, AcceptSubstitution, Acceptable
  <2>2. Revise(l, {q}) /\ UNCHANGED payment
    BY <1>21 DEF AcceptSubstitution
  <2> HIDE DEF l
  <2> QED  BY <2>1, <2>2, ReviseFields DEF ProposalFits
<1>22. ASSUME NEW q \in Proposal, AcceptCorrection(q)
       PROVE  \A p \in Proposal : ProposalFits(p)'
  <2> DEFINE l == proposal[q].line
  <2>1. l \in Line /\ proposal[q].state = "PROPOSED"
    BY <1>22 DEF ProposalFits, AcceptCorrection, Acceptable
  <2>2. Revise(l, {q}) /\ UNCHANGED payment
    BY <1>22 DEF AcceptCorrection
  <2> HIDE DEF l
  <2> QED  BY <2>1, <2>2, ReviseFields DEF ProposalFits
<1>23. ASSUME NEW q \in Proposal, ProposalLapses(q)
       PROVE  \A p \in Proposal : ProposalFits(p)'
  BY <1>23 DEF ProposalFits, ProposalLapses
<1>24. ASSUME NEW q \in Proposal, NEW state \in {"DECLINED", "EXPIRED"},
              EndProposal(q, state)
       PROVE  \A p \in Proposal : ProposalFits(p)'
  <2> DEFINE l == proposal[q].line
  <2>1. l \in Line
    BY <1>24 DEF ProposalFits, EndProposal
  <2>2. StartRefund(l, line[l]) /\ line[l] \in LineRow
    BY <1>24, <2>1 DEF EndProposal, MaterialTypeOK
  <2>3. \A k \in Line : payment'[k].charge = payment[k].charge
    BY <2>1, <2>2, RefundFields
  <2>4. ASSUME NEW p \in Proposal
        PROVE  /\ proposal'[p].line = proposal[p].line
               /\ proposal'[p].kind = proposal[p].kind
               /\ proposal'[p].target = proposal[p].target
               /\ proposal'[p].state # "NONE" => proposal[p].state # "NONE"
    BY <1>24 DEF EndProposal, MaterialTypeOK, ProposalRow
  <2> QED  BY <2>3, <2>4 DEF ProposalFits
<1>25. ASSUME UNCHANGED materialVars PROVE \A p \in Proposal : ProposalFits(p)'
  BY <1>25 DEF ProposalFits, materialVars
<1> QED
  BY <1>1, <1>2, <1>3, <1>4, <1>5, <1>6, <1>7, <1>8, <1>9, <1>10, <1>11, <1>12,
     <1>13, <1>14, <1>15, <1>16, <1>17, <1>18, <1>19, <1>20, <1>21, <1>22, <1>23,
     <1>24, <1>25
  DEF MaterialNext, SellLine, SettleLine, WorkOnLine, ChangeLine

\* and the answers: one leaf per action, since each is a write to one line.
LEMMA AnsweredNext ==
  ASSUME Inv, [MaterialNext]_materialVars PROVE LineIsAnswered'
<1> USE DEF Inv
<1>1. ASSUME NEW l \in Line, NEW m \in Match, Begin(l, m)
      PROVE  LineIsAnswered'
  BY <1>1 DEF MaterialTypeOK, LineIsAnswered, Refunding, Disputed, Begin
<1>2. ASSUME NEW l \in Line, Promote(l)
      PROVE  LineIsAnswered'
  BY <1>2 DEF MaterialTypeOK, LineIsAnswered, Refunding, Disputed, Promote
<1>3. ASSUME NEW l \in Line, Charge(l)
      PROVE  LineIsAnswered'
  BY <1>3 DEF MaterialTypeOK, LineIsAnswered, Refunding, Disputed, Charge
<1>4. ASSUME NEW l \in Line, ExpireCheckout(l)
      PROVE  LineIsAnswered'
  BY <1>4 DEF MaterialTypeOK, LineIsAnswered, Refunding, Disputed, LineFits, InWork,
     ExpireCheckout
<1>5. ASSUME NEW l \in Line, ApplyPayment(l)
      PROVE  LineIsAnswered'
  BY <1>5, ApplyFields DEF LineIsAnswered, LineFits, Refunding, Disputed
<1>6. ASSUME NEW l \in Line, DeadlineJob(l)
      PROVE  LineIsAnswered'
  <2> DEFINE done == [line[l] EXCEPT !.job = "DONE"]
  <2>1. /\ done \in LineRow
        /\ done.intent = line[l].intent /\ done.released = line[l].released
        /\ done.fulfillment = line[l].fulfillment /\ done.files = line[l].files
    BY DEF MaterialTypeOK, LineRow
  <2>2. \/ InWork(l) /\ StartRefund(l, done)
        \/ line' = [line EXCEPT ![l] = done] /\ UNCHANGED payment
    BY <1>6 DEF DeadlineJob
  <2> HIDE DEF done
  <2>3. CASE InWork(l) /\ StartRefund(l, done)
    <3>1. payment[l].charge = "APPLIED"
      BY <2>3 DEF LineFits, InWork
    <3> QED  BY <2>1, <2>3, <3>1, RefundFits
  <2>4. CASE line' = [line EXCEPT ![l] = done] /\ UNCHANGED payment
    BY <2>1, <2>4 DEF MaterialTypeOK, LineIsAnswered, Refunding, Disputed
  <2> QED  BY <2>2, <2>3, <2>4
<1>7. ASSUME NEW l \in Line, OpenDispute(l)
      PROVE  LineIsAnswered'
  BY <1>7 DEF MaterialTypeOK, LineIsAnswered, Refunding, Disputed, OpenDispute
<1>8. ASSUME NEW l \in Line, LoseDispute(l)
      PROVE  LineIsAnswered'
  BY <1>8 DEF MaterialTypeOK, LineIsAnswered, Refunding, Disputed, LoseDispute
<1>9. ASSUME NEW l \in Line, WinDispute(l)
      PROVE  LineIsAnswered'
  BY <1>9 DEF MaterialTypeOK, LineIsAnswered, Refunding, Disputed, LineFits, InWork,
     WinDispute
<1>10. ASSUME NEW l \in Line, RefundSucceeds(l)
       PROVE  LineIsAnswered'
  BY <1>10 DEF MaterialTypeOK, LineIsAnswered, Refunding, Disputed, RefundSucceeds
<1>11. ASSUME NEW l \in Line, RefundFails(l)
       PROVE  LineIsAnswered'
  BY <1>11 DEF MaterialTypeOK, LineIsAnswered, Refunding, Disputed, RefundFails
<1>12. ASSUME NEW l \in Line, RetryRefund(l)
       PROVE  LineIsAnswered'
  BY <1>12 DEF MaterialTypeOK, LineIsAnswered, Refunding, Disputed, RetryRefund
<1>13. ASSUME NEW l \in Line, NEW passed \in BOOLEAN, RegisterFile(l, passed)
       PROVE  LineIsAnswered'
  BY <1>13 DEF MaterialTypeOK, LineIsAnswered, Refunding, Disputed, RegisterFile,
     Changeable
<1>14. ASSUME NEW l \in Line, NEW complete \in BOOLEAN, ApproveFile(l, complete)
       PROVE  LineIsAnswered'
  BY <1>14 DEF MaterialTypeOK, LineIsAnswered, Refunding, Disputed, ApproveFile
<1>15. ASSUME NEW l \in Line, NEW active \in BOOLEAN,
             NEW phase \in {"BEFORE_GENERATION", "BEFORE_RELEASE"}, CheckListing(l, phase, active)
       PROVE  LineIsAnswered'
  BY <1>15 DEF MaterialTypeOK, LineIsAnswered, Refunding, Disputed, CheckListing
<1>16. ASSUME NEW l \in Line, CommitRelease(l)
       PROVE  LineIsAnswered'
  BY <1>16 DEF MaterialTypeOK, LineIsAnswered, Refunding, Disputed, CommitRelease
<1>17. ASSUME NEW l \in Line, AmendReferences(l)
       PROVE  LineIsAnswered'
  <2>1. Changeable(l) /\ UNCHANGED payment
    BY <1>17 DEF AmendReferences
  <2> QED  BY <1>17, <2>1, AmendFields, RevisionFits
<1>18. ASSUME NEW l \in Line, DuePasses(l)
       PROVE  LineIsAnswered'
  BY <1>18 DEF MaterialTypeOK, LineIsAnswered, Refunding, Disputed, DuePasses
<1>19. ASSUME NEW q \in Proposal, NEW l \in Line, ProposeCorrection(q, l)
       PROVE  LineIsAnswered'
  BY <1>19 DEF MaterialTypeOK, LineIsAnswered, Refunding, Disputed,
     ProposeCorrection, Propose, Changeable
<1>20. ASSUME NEW q \in Proposal, NEW l \in Line, NEW m \in Match,
              OfferSubstitution(q, l, m)
       PROVE  LineIsAnswered'
  BY <1>20 DEF MaterialTypeOK, LineIsAnswered, Refunding, Disputed,
     OfferSubstitution, Propose
<1>21. ASSUME NEW q \in Proposal, AcceptSubstitution(q)
       PROVE  LineIsAnswered'
  <2> DEFINE l == proposal[q].line  new == proposal[q].target
  <2>1. l \in Line /\ new \in Match /\ Changeable(l)
    BY <1>21 DEF ProposalFits, AcceptSubstitution, Acceptable, TargetFree
  <2>2. NewRevision(l, new) /\ UNCHANGED payment
    BY <1>21 DEF AcceptSubstitution
  <2> HIDE DEF l, new
  <2> QED  BY <2>1, <2>2, RevisionFields, RevisionFits
<1>22. ASSUME NEW q \in Proposal, AcceptCorrection(q)
       PROVE  LineIsAnswered'
  <2> DEFINE l == proposal[q].line
  <2>1. l \in Line /\ Changeable(l)
    BY <1>22 DEF ProposalFits, AcceptCorrection, Acceptable
  <2>2. line[l].match \in Match
    BY <2>1 DEF MaterialTypeOK, LineRow, LineFits, Changeable, InWork
  <2>3. NewRevision(l, line[l].match) /\ UNCHANGED payment
    BY <1>22 DEF AcceptCorrection
  <2> HIDE DEF l
  <2> QED  BY <2>1, <2>2, <2>3, RevisionFields, RevisionFits
<1>23. ASSUME NEW q \in Proposal, ProposalLapses(q)
       PROVE  LineIsAnswered'
  BY <1>23 DEF MaterialTypeOK, LineIsAnswered, Refunding, Disputed, ProposalLapses
<1>24. ASSUME NEW q \in Proposal, NEW state \in {"DECLINED", "EXPIRED"},
              EndProposal(q, state)
       PROVE  LineIsAnswered'
  <2> DEFINE l == proposal[q].line
  <2>1. l \in Line /\ payment[l].charge = "APPLIED"
    BY <1>24 DEF ProposalFits, EndProposal
  <2>2. StartRefund(l, line[l])
    BY <1>24 DEF EndProposal
  <2>3. line[l] \in LineRow
    BY <2>1 DEF MaterialTypeOK
  <2> HIDE DEF l
  <2> QED  BY <2>1, <2>2, <2>3, RefundFits
<1>25. ASSUME UNCHANGED materialVars PROVE LineIsAnswered'
  BY <1>25 DEF MaterialTypeOK, LineIsAnswered, Refunding, Disputed, materialVars
<1> QED
  BY <1>1, <1>2, <1>3, <1>4, <1>5, <1>6, <1>7, <1>8, <1>9, <1>10, <1>11, <1>12,
     <1>13, <1>14, <1>15, <1>16, <1>17, <1>18, <1>19, <1>20, <1>21, <1>22, <1>23,
     <1>24, <1>25
  DEF MaterialNext, SellLine, SettleLine, WorkOnLine, ChangeLine

-------------------------------------------------------------------------------
\* The rows of a line that was refunded in full no longer change,
Frozen(k) ==
  payment[k].refund = "SUCCEEDED" =>
    /\ payment'[k].refund = "SUCCEEDED"
    /\ line'[k].intent = line[k].intent
    /\ line'[k].match = line[k].match
    /\ named'[k] = named[k]

\* whatever the other lines and the proposals do,
LEMMA RefundedIsFrozen ==
  ASSUME Inv, [MaterialNext]_materialVars PROVE \A k \in Line : Frozen(k)
<1> USE DEF Inv
<1>1. ASSUME NEW l \in Line, NEW m \in Match, Begin(l, m)
      PROVE  \A k \in Line : Frozen(k)
  BY <1>1 DEF MaterialTypeOK, Frozen, LineFits, Refunding, Begin
<1>2. ASSUME NEW l \in Line, Promote(l)
      PROVE  \A k \in Line : Frozen(k)
  BY <1>2 DEF MaterialTypeOK, Frozen, LineFits, Refunding, Promote
<1>3. ASSUME NEW l \in Line, Charge(l)
      PROVE  \A k \in Line : Frozen(k)
  BY <1>3 DEF Frozen, Charge
<1>4. ASSUME NEW l \in Line, ExpireCheckout(l)
      PROVE  \A k \in Line : Frozen(k)
  BY <1>4 DEF MaterialTypeOK, Frozen, LineFits, Refunding, ExpireCheckout
<1>5. ASSUME NEW l \in Line, ApplyPayment(l)
      PROVE  \A k \in Line : Frozen(k)
  BY <1>5 DEF MaterialTypeOK, Frozen, LineFits, Refunding, ApplyPayment,
     ValidActivation
<1>6. ASSUME NEW l \in Line, DeadlineJob(l)
      PROVE  \A k \in Line : Frozen(k)
  <2> DEFINE done == [line[l] EXCEPT !.job = "DONE"]
  <2>1. /\ done \in LineRow
        /\ done.intent = line[l].intent /\ done.match = line[l].match
    BY DEF MaterialTypeOK, LineRow
  <2>2. \/ StartRefund(l, done)
        \/ line' = [line EXCEPT ![l] = done] /\ UNCHANGED <<payment, named>>
    BY <1>6 DEF DeadlineJob
  <2> HIDE DEF done
  <2>3. CASE StartRefund(l, done)
    BY <2>1, <2>3, RefundFields DEF Frozen, Unsettled, Refunding
  <2>4. CASE line' = [line EXCEPT ![l] = done] /\ UNCHANGED <<payment, named>>
    BY <2>1, <2>4 DEF Frozen, MaterialTypeOK
  <2> QED  BY <2>2, <2>3, <2>4
<1>7. ASSUME NEW l \in Line, OpenDispute(l)
      PROVE  \A k \in Line : Frozen(k)
  BY <1>7 DEF Frozen, OpenDispute
<1>8. ASSUME NEW l \in Line, LoseDispute(l)
      PROVE  \A k \in Line : Frozen(k)
  BY <1>8 DEF Frozen, LoseDispute
<1>9. ASSUME NEW l \in Line, WinDispute(l)
      PROVE  \A k \in Line : Frozen(k)
  BY <1>9, WinFields DEF Frozen, Refunding
<1>10. ASSUME NEW l \in Line, RefundSucceeds(l)
       PROVE  \A k \in Line : Frozen(k)
  BY <1>10 DEF Frozen, RefundSucceeds
<1>11. ASSUME NEW l \in Line, RefundFails(l)
       PROVE  \A k \in Line : Frozen(k)
  BY <1>11 DEF Frozen, RefundFails
<1>12. ASSUME NEW l \in Line, RetryRefund(l)
       PROVE  \A k \in Line : Frozen(k)
  BY <1>12 DEF Frozen, RetryRefund
<1>13. ASSUME NEW l \in Line, NEW passed \in BOOLEAN, RegisterFile(l, passed)
       PROVE  \A k \in Line : Frozen(k)
  BY <1>13 DEF MaterialTypeOK, Frozen, RegisterFile, Changeable
<1>14. ASSUME NEW l \in Line, NEW complete \in BOOLEAN, ApproveFile(l, complete)
       PROVE  \A k \in Line : Frozen(k)
  BY <1>14 DEF MaterialTypeOK, Frozen, ApproveFile
<1>15. ASSUME NEW l \in Line, NEW active \in BOOLEAN,
             NEW phase \in {"BEFORE_GENERATION", "BEFORE_RELEASE"}, CheckListing(l, phase, active)
       PROVE  \A k \in Line : Frozen(k)
  BY <1>15 DEF MaterialTypeOK, Frozen, CheckListing
<1>16. ASSUME NEW l \in Line, CommitRelease(l)
       PROVE  \A k \in Line : Frozen(k)
  BY <1>16 DEF MaterialTypeOK, Frozen, LineFits, Refunding, CommitRelease
<1>17. ASSUME NEW l \in Line, AmendReferences(l)
       PROVE  \A k \in Line : Frozen(k)
  <2>1. /\ ~Refunding(l) /\ UNCHANGED payment
        /\ \A k \in Line \ {l} : named'[k] = named[k]
    BY <1>17 DEF AmendReferences, Changeable, MaterialTypeOK
  <2> QED  BY <1>17, <2>1, AmendFields DEF Frozen, Refunding
<1>18. ASSUME NEW l \in Line, DuePasses(l)
       PROVE  \A k \in Line : Frozen(k)
  BY <1>18 DEF Frozen, DuePasses
<1>19. ASSUME NEW q \in Proposal, NEW l \in Line, ProposeCorrection(q, l)
       PROVE  \A k \in Line : Frozen(k)
  BY <1>19 DEF MaterialTypeOK, Frozen, ProposeCorrection, Propose, Changeable
<1>20. ASSUME NEW q \in Proposal, NEW l \in Line, NEW m \in Match,
              OfferSubstitution(q, l, m)
       PROVE  \A k \in Line : Frozen(k)
  BY <1>20 DEF Frozen, OfferSubstitution
<1>21. ASSUME NEW q \in Proposal, AcceptSubstitution(q)
       PROVE  \A k \in Line : Frozen(k)
  <2> DEFINE l == proposal[q].line  new == proposal[q].target
  <2>1. l \in Line /\ new \in Match /\ ~Refunding(l)
    BY <1>21 DEF ProposalFits, AcceptSubstitution, Acceptable, Changeable, TargetFree
  <2>2. /\ NewRevision(l, new) /\ UNCHANGED payment
        /\ \A k \in Line \ {l} : named'[k] = named[k]
    BY <1>21 DEF AcceptSubstitution, MaterialTypeOK
  <2> HIDE DEF l, new
  <2> QED  BY <2>1, <2>2, RevisionFields DEF Frozen, Refunding
<1>22. ASSUME NEW q \in Proposal, AcceptCorrection(q)
       PROVE  \A k \in Line : Frozen(k)
  <2> DEFINE l == proposal[q].line
  <2>1. l \in Line /\ ~Refunding(l) /\ line[l].match \in Match
    BY <1>22 DEF ProposalFits, AcceptCorrection, Acceptable, MaterialTypeOK, LineRow,
                 LineFits, Changeable, InWork
  <2>2. /\ NewRevision(l, line[l].match) /\ UNCHANGED payment
        /\ \A k \in Line \ {l} : named'[k] = named[k]
    BY <1>22 DEF AcceptCorrection, MaterialTypeOK
  <2> HIDE DEF l
  <2> QED  BY <2>1, <2>2, RevisionFields DEF Frozen, Refunding
<1>23. ASSUME NEW q \in Proposal, ProposalLapses(q)
       PROVE  \A k \in Line : Frozen(k)
  BY <1>23 DEF Frozen, ProposalLapses
<1>24. ASSUME NEW q \in Proposal, NEW state \in {"DECLINED", "EXPIRED"},
              EndProposal(q, state)
       PROVE  \A k \in Line : Frozen(k)
  <2> DEFINE l == proposal[q].line
  <2>1. l \in Line
    BY <1>24 DEF ProposalFits, EndProposal
  <2>2. StartRefund(l, line[l]) /\ line[l] \in LineRow
    BY <1>24, <2>1 DEF EndProposal, MaterialTypeOK
  <2> HIDE DEF l
  <2> QED  BY <2>1, <2>2, RefundFields DEF Frozen, Unsettled, Refunding
<1>25. ASSUME UNCHANGED materialVars PROVE \A k \in Line : Frozen(k)
  BY <1>25 DEF Frozen, materialVars
<1> QED
  BY <1>1, <1>2, <1>3, <1>4, <1>5, <1>6, <1>7, <1>8, <1>9, <1>10, <1>11, <1>12,
     <1>13, <1>14, <1>15, <1>16, <1>17, <1>18, <1>19, <1>20, <1>21, <1>22, <1>23,
     <1>24, <1>25
  DEF MaterialNext, SellLine, SettleLine, WorkOnLine, ChangeLine

\* so a match that a refund has crossed stays crossed.
LEMMA CrossedStays ==
  ASSUME Inv, [MaterialNext]_materialVars, NEW m \in Match, Crossed(m)
  PROVE  Crossed(m)'
BY RefundedIsFrozen DEF Crossed, Frozen

\* A line holds the claim of its match while it is bought or worked on.
HoldsClaim(k) == line[k].intent \in {"READY", "OPEN"} \/ Live(k)

\* A step that moves no claim and changes no line's right to one.
Quiet ==
  /\ UNCHANGED claim
  /\ \A k \in Line : /\ line'[k].match = line[k].match
                     /\ HoldsClaim(k)' <=> HoldsClaim(k)

\* Such a step keeps ClaimFollowsLine,
LEMMA QuietFollows ==
  ASSUME Inv, ClaimFollowsLine, [MaterialNext]_materialVars, Quiet
  PROVE  ClaimFollowsLine'
<1>1. ASSUME NEW m \in Match, ~Crossed(m)', NEW k \in Line
      PROVE  claim'[m] = k <=> line'[k].match = m /\ HoldsClaim(k)'
  BY <1>1, CrossedStays DEF Quiet, ClaimFollowsLine, HoldsClaim
<1> QED  BY <1>1 DEF ClaimFollowsLine, HoldsClaim

\* and all but five actions are such steps.
LEMMA QuietSteps ==
  ASSUME Inv, [MaterialNext]_materialVars
  PROVE  \/ Quiet
         \/ \E l \in Line : \/ \E m \in Match : Begin(l, m)
                           \/ ExpireCheckout(l) \/ ApplyPayment(l) \/ RefundSucceeds(l)
         \/ \E q \in Proposal : AcceptSubstitution(q)
<1> USE DEF Inv
<1> DEFINE Goal == \/ Quiet
                   \/ \E l \in Line : \/ \E m \in Match : Begin(l, m)
                                     \/ ExpireCheckout(l) \/ ApplyPayment(l)
                                     \/ RefundSucceeds(l)
                   \/ \E q \in Proposal : AcceptSubstitution(q)
<1>1. ASSUME NEW l \in Line, NEW m \in Match, Begin(l, m)
      PROVE  Goal
  BY <1>1
<1>2. ASSUME NEW l \in Line, Promote(l)
      PROVE  Goal
  BY <1>2 DEF MaterialTypeOK, Quiet, HoldsClaim, Live, Promote
<1>3. ASSUME NEW l \in Line, Charge(l)
      PROVE  Goal
  BY <1>3 DEF MaterialTypeOK, Quiet, HoldsClaim, Live, Charge
<1>4. ASSUME NEW l \in Line, ExpireCheckout(l)
      PROVE  Goal
  BY <1>4
<1>5. ASSUME NEW l \in Line, ApplyPayment(l)
      PROVE  Goal
  BY <1>5
<1>6. ASSUME NEW l \in Line, DeadlineJob(l)
      PROVE  Goal
  <2> DEFINE done == [line[l] EXCEPT !.job = "DONE"]
  <2>1. /\ done \in LineRow
        /\ done.intent = line[l].intent /\ done.match = line[l].match
    BY DEF MaterialTypeOK, LineRow
  <2>2. \/ StartRefund(l, done)
        \/ line' = [line EXCEPT ![l] = done] /\ UNCHANGED <<payment, named>>
    BY <1>6 DEF DeadlineJob
  <2>5. UNCHANGED claim
    BY <1>6 DEF DeadlineJob
  <2> HIDE DEF done
  <2>3. CASE StartRefund(l, done)
    BY <2>1, <2>3, <2>5, RefundFields DEF Quiet, HoldsClaim, Live, Unsettled,
       Refunding
  <2>4. CASE line' = [line EXCEPT ![l] = done] /\ UNCHANGED <<payment, named>>
    BY <2>1, <2>4, <2>5 DEF Quiet, HoldsClaim, Live, MaterialTypeOK
  <2> QED  BY <2>2, <2>3, <2>4
<1>7. ASSUME NEW l \in Line, OpenDispute(l)
      PROVE  Goal
  BY <1>7 DEF MaterialTypeOK, Quiet, HoldsClaim, Live, OpenDispute
<1>8. ASSUME NEW l \in Line, LoseDispute(l)
      PROVE  Goal
  BY <1>8 DEF MaterialTypeOK, Quiet, HoldsClaim, Live, LoseDispute
<1>9. ASSUME NEW l \in Line, WinDispute(l)
      PROVE  Goal
  BY <1>9, WinFields DEF Quiet, HoldsClaim, Live, Refunding
<1>10. ASSUME NEW l \in Line, RefundSucceeds(l)
       PROVE  Goal
  BY <1>10
<1>11. ASSUME NEW l \in Line, RefundFails(l)
       PROVE  Goal
  BY <1>11 DEF MaterialTypeOK, Quiet, HoldsClaim, Live, RefundFails
<1>12. ASSUME NEW l \in Line, RetryRefund(l)
       PROVE  Goal
  BY <1>12 DEF MaterialTypeOK, Quiet, HoldsClaim, Live, RetryRefund
<1>13. ASSUME NEW l \in Line, NEW passed \in BOOLEAN, RegisterFile(l, passed)
       PROVE  Goal
  BY <1>13 DEF MaterialTypeOK, Quiet, HoldsClaim, Live, RegisterFile, Changeable
<1>14. ASSUME NEW l \in Line, NEW complete \in BOOLEAN, ApproveFile(l, complete)
       PROVE  Goal
  BY <1>14 DEF MaterialTypeOK, Quiet, HoldsClaim, Live, ApproveFile
<1>15. ASSUME NEW l \in Line, NEW active \in BOOLEAN,
             NEW phase \in {"BEFORE_GENERATION", "BEFORE_RELEASE"}, CheckListing(l, phase, active)
       PROVE  Goal
  BY <1>15 DEF MaterialTypeOK, Quiet, HoldsClaim, Live, CheckListing
<1>16. ASSUME NEW l \in Line, CommitRelease(l)
       PROVE  Goal
  BY <1>16 DEF MaterialTypeOK, Quiet, HoldsClaim, Live, CommitRelease
<1>17. ASSUME NEW l \in Line, AmendReferences(l)
       PROVE  Goal
  <2>1. UNCHANGED <<payment, claim>>
    BY <1>17 DEF AmendReferences
  <2> QED  BY <1>17, <2>1, AmendFields DEF Quiet, HoldsClaim, Live
<1>18. ASSUME NEW l \in Line, DuePasses(l)
       PROVE  Goal
  BY <1>18 DEF MaterialTypeOK, Quiet, HoldsClaim, Live, DuePasses
<1>19. ASSUME NEW q \in Proposal, NEW l \in Line, ProposeCorrection(q, l)
       PROVE  Goal
  BY <1>19 DEF MaterialTypeOK, Quiet, HoldsClaim, Live, ProposeCorrection, Propose,
     Changeable
<1>20. ASSUME NEW q \in Proposal, NEW l \in Line, NEW m \in Match,
              OfferSubstitution(q, l, m)
       PROVE  Goal
  BY <1>20 DEF MaterialTypeOK, Quiet, HoldsClaim, Live, OfferSubstitution, Propose
<1>21. ASSUME NEW q \in Proposal, AcceptSubstitution(q)
       PROVE  Goal
  BY <1>21
<1>22. ASSUME NEW q \in Proposal, AcceptCorrection(q)
       PROVE  Goal
  <2> DEFINE l == proposal[q].line
  <2>1. l \in Line /\ ~Refunding(l) /\ line[l].match \in Match
    BY <1>22 DEF ProposalFits, AcceptCorrection, Acceptable, MaterialTypeOK, LineRow,
                 LineFits, Changeable, InWork
  <2>2. /\ NewRevision(l, line[l].match) /\ UNCHANGED <<payment, claim>>
    BY <1>22 DEF AcceptCorrection, MaterialTypeOK
  <2> HIDE DEF l
  <2> QED  BY <2>1, <2>2, RevisionFields DEF Quiet, HoldsClaim, Live
<1>23. ASSUME NEW q \in Proposal, ProposalLapses(q)
       PROVE  Goal
  BY <1>23 DEF MaterialTypeOK, Quiet, HoldsClaim, Live, ProposalLapses
<1>24. ASSUME NEW q \in Proposal, NEW state \in {"DECLINED", "EXPIRED"},
              EndProposal(q, state)
       PROVE  Goal
  <2> DEFINE l == proposal[q].line
  <2>1. l \in Line
    BY <1>24 DEF ProposalFits, EndProposal
  <2>2. StartRefund(l, line[l]) /\ line[l] \in LineRow /\ UNCHANGED claim
    BY <1>24, <2>1 DEF EndProposal, MaterialTypeOK
  <2> HIDE DEF l
  <2> QED  BY <2>1, <2>2, RefundFields DEF Quiet, HoldsClaim, Live, Unsettled, Refunding
<1>25. ASSUME UNCHANGED materialVars PROVE Goal
  BY <1>25 DEF MaterialTypeOK, Quiet, HoldsClaim, Live, materialVars
<1> QED
  BY <1>1, <1>2, <1>3, <1>4, <1>5, <1>6, <1>7, <1>8, <1>9, <1>10, <1>11, <1>12,
     <1>13, <1>14, <1>15, <1>16, <1>17, <1>18, <1>19, <1>20, <1>21, <1>22, <1>23,
     <1>24, <1>25
  DEF MaterialNext, SellLine, SettleLine, WorkOnLine, ChangeLine

\* Every step keeps the claims with the lines: the five others one by one, for a
\* match n that no refund has crossed.
LEMMA ClaimNext ==
  ASSUME Inv, ClaimFollowsLine, [MaterialNext]_materialVars PROVE ClaimFollowsLine'
<1> DEFINE Follows(m, k) == claim[m] = k <=> line[k].match = m /\ HoldsClaim(k)
<1>1. ASSUME NEW m \in Match, ~Crossed(m)'
      PROVE  ~Crossed(m) /\ \A k \in Line : Follows(m, k)
  BY <1>1, CrossedStays DEF ClaimFollowsLine, HoldsClaim
<1> SUFFICES ASSUME NEW n \in Match, ~Crossed(n)', NEW k \in Line
             PROVE  claim'[n] = k <=> line'[k].match = n /\ HoldsClaim(k)'
  BY DEF ClaimFollowsLine, HoldsClaim
<1> DEFINE Goal == claim'[n] = k <=> line'[k].match = n /\ HoldsClaim(k)'
<1>2. ~Crossed(n) /\ \A j \in Line : Follows(n, j)
  BY <1>1
<1>3. /\ MaterialTypeOK /\ LineFits(k)
      /\ line \in [Line -> LineRow] /\ line[k] \in LineRow
      /\ payment \in [Line -> PaymentRow] /\ payment[k] \in PaymentRow
      /\ claim \in [Match -> Line \cup {None}]
  BY DEF Inv, MaterialTypeOK
<1>4. CASE Quiet
  BY <1>4, QuietFollows DEF ClaimFollowsLine, HoldsClaim
<1>5. ASSUME NEW l \in Line, NEW m \in Match, Begin(l, m) PROVE Goal
  <2>1. LineFits(l) /\ line[l] \in LineRow /\ line[l].intent = "NONE" /\ line[l].match = None
        /\ payment[l] \in PaymentRow
    BY <1>5 DEF Inv, MaterialTypeOK, Begin
  <2>2. /\ \A j \in Line \ {l} : line'[j] = line[j]
        /\ line'[l].match = m /\ line'[l].intent = "READY"
        /\ UNCHANGED payment
        /\ claim[m] = None /\ claim'[m] = l
        /\ n # m => claim'[n] = claim[n]
    BY <1>3, <1>5 DEF Begin, LineRow
  <2>3. CASE n = m
    BY <1>2, <2>1, <2>2, <2>3 DEF HoldsClaim, Live
  <2>4. CASE n # m
    BY <1>2, <2>1, <2>2, <2>4 DEF HoldsClaim, Live
  <2> QED  BY <2>3, <2>4
<1>6. ASSUME NEW l \in Line, ExpireCheckout(l) PROVE Goal
  <2>1. LineFits(l) /\ line[l] \in LineRow /\ HoldsClaim(l)
    BY <1>6 DEF Inv, MaterialTypeOK, ExpireCheckout, HoldsClaim
  <2>2. /\ \A j \in Line \ {l} : line'[j] = line[j]
        /\ line'[l].match = line[l].match /\ line'[l].intent = "EXPIRED"
        /\ UNCHANGED payment
        /\ claim'[n] = IF n = line[l].match /\ claim[n] = l THEN None ELSE claim[n]
    BY <1>3, <1>6 DEF ExpireCheckout, LineRow
  <2> QED  BY <1>2, <2>1, <2>2 DEF HoldsClaim, Live
<1>7. ASSUME NEW l \in Line, ApplyPayment(l) PROVE Goal
  <2>1. /\ LineFits(l) /\ line[l] \in LineRow /\ payment[l] \in PaymentRow
        /\ payment[l].charge = "TAKEN"
    BY <1>7 DEF Inv, MaterialTypeOK, ApplyPayment
  <2>2. line[l].intent \in {"OPEN", "EXPIRED"} /\ payment[l].refund = "NONE"
    BY <2>1 DEF LineFits, Refunding
  <2>3. CASE ValidActivation(l)
    <3>1. /\ \A j \in Line \ {l} : line'[j] = line[j] /\ payment'[j] = payment[j]
          /\ line'[l].match = line[l].match /\ line'[l].intent = "COMPLETED"
          /\ payment'[l].refund = "NONE"
          /\ UNCHANGED claim
      BY <1>7, <2>2, <2>3, ApplyFields DEF Inv
    <3> QED  BY <1>2, <2>3, <3>1 DEF HoldsClaim, Live, ValidActivation
  <2>4. CASE ~ValidActivation(l)
    <3>1. /\ \A j \in Line \ {l} : line'[j] = line[j] /\ payment'[j] = payment[j]
          /\ line'[l].match = line[l].match /\ line'[l].intent = "FAILED"
          /\ UNCHANGED claim
      BY <1>7, <2>4, ApplyFields DEF Inv
    <3> QED  BY <1>2, <2>2, <2>4, <3>1 DEF HoldsClaim, Live, ValidActivation
  <2> QED  BY <2>3, <2>4
<1>8. ASSUME NEW l \in Line, RefundSucceeds(l) PROVE Goal
  <2>1. /\ LineFits(l) /\ line[l] \in LineRow /\ payment[l] \in PaymentRow
        /\ payment[l].refund = "PENDING"
    BY <1>8 DEF Inv, MaterialTypeOK, RefundSucceeds
  <2>2. line[l].intent \in {"COMPLETED", "FAILED"}
    BY <2>1 DEF LineFits, Refunding
  <2>3. /\ \A j \in Line \ {l} : payment'[j] = payment[j]
        /\ payment'[l].refund = "SUCCEEDED"
        /\ UNCHANGED <<line, named>>
        /\ n # named[l] => claim'[n] = claim[n]
        /\ n = named[l] => claim'[n] = None
    BY <1>3, <1>8 DEF RefundSucceeds, PaymentRow, MaterialTypeOK
  <2>4. /\ line[l].intent = "FAILED" => n # line[l].match
        /\ named[l] # line[l].match => n # named[l] /\ n # line[l].match
    BY <2>3 DEF Crossed
  <2>5. CASE n = line[l].match
    BY <1>2, <2>1, <2>2, <2>3, <2>4, <2>5 DEF HoldsClaim, Live
  <2>6. CASE n # line[l].match
    BY <1>2, <2>1, <2>2, <2>3, <2>4, <2>6 DEF HoldsClaim, Live
  <2> QED  BY <2>5, <2>6
<1>9. ASSUME NEW q \in Proposal, AcceptSubstitution(q) PROVE Goal
  <2> DEFINE l == proposal[q].line  new == proposal[q].target  old == line[l].match
  <2>1. l \in Line /\ new \in Match /\ Changeable(l) /\ claim[new] = None
    BY <1>9 DEF Inv, ProposalFits, AcceptSubstitution, Acceptable, TargetFree
  <2>2. LineFits(l) /\ line[l] \in LineRow
    BY <2>1 DEF Inv, MaterialTypeOK
  <2>3. HoldsClaim(l) /\ line[l].intent = "COMPLETED"
    BY <2>1, <2>2 DEF LineFits, Changeable, InWork, Refunding, HoldsClaim, Live
  <2>4. NewRevision(l, new) /\ UNCHANGED payment
        /\ claim' = [claim EXCEPT ![old] = None, ![new] = l]
    BY <1>9 DEF AcceptSubstitution
  <2>5. /\ n = new => claim'[n] = l
        /\ n # new /\ n = old => claim'[n] = None
        /\ n # new /\ n # old => claim'[n] = claim[n]
    BY <1>3, <2>1, <2>4
  <2>6. /\ \A j \in Line \ {l} : line'[j] = line[j]
        /\ line'[l].match = new /\ line'[l].intent = line[l].intent
    BY <1>3, <2>1, <2>4, RevisionFields
  <2> HIDE DEF l, new
  <2> QED  BY <1>2, <2>1, <2>3, <2>4, <2>5, <2>6 DEF HoldsClaim, Live
<1> QED  BY <1>4, <1>5, <1>6, <1>7, <1>8, <1>9, QuietSteps

-------------------------------------------------------------------------------
\* The invariant holds at first and after each step.
LEMMA InvInit == MaterialInit => Inv /\ ClaimFollowsLine
BY DEF MaterialInit, NoLine, NoPayment, NoProposal, Inv, MaterialTypeOK, LineRow,
   PaymentRow,
       ProposalRow, LineFits, ProposalFits, LineIsAnswered, Refunding, ClaimFollowsLine,
       Crossed, Live

LEMMA InvNext ==
  Inv /\ ClaimFollowsLine /\ [MaterialNext]_materialVars => (Inv /\ ClaimFollowsLine)'
BY TypeNext, FitNext, ProposalNext, AnsweredNext, ClaimNext DEF Inv

LEMMA Invariant == MaterialSpec => [](Inv /\ ClaimFollowsLine)
BY InvInit, InvNext, PTL DEF MaterialSpec

\* Every state of the specification has the types of MaterialTypeOK.
THEOREM MaterialTypes == MaterialSpec => []MaterialTypeOK
<1>1. Inv => MaterialTypeOK
  BY DEF Inv
<1> QED  BY <1>1, Invariant, PTL

\* No line is both delivered and refunded, and a paid line whose work was called
\* off is refunded or in the hands of the bank (ap_start_material_line_refund and
\* the functions that race with it).
THEOREM Answered == MaterialSpec => []LineIsAnswered
<1>1. Inv => LineIsAnswered
  BY DEF Inv
<1> QED  BY <1>1, Invariant, PTL

\* A match no refund has crossed is claimed by the line that is bought or worked
\* on for it and by no other, hence sold once at a time.
THEOREM ClaimsFollow == MaterialSpec => []ClaimFollowsLine
BY Invariant, PTL
===============================================================================
