-------------------------- MODULE WorkbenchPageProofs --------------------------
(* What the page freezes was previewed, for any number of drills, layouts   *)
(* and calls in flight.                                                     *)
EXTENDS WorkbenchPage, TLAPS

Call == Request \cup Reply \cup {Idle}

\* A slot whose call waits as a task holds what such a call holds.
LEMMA WhatWaits ==
  ASSUME TypeOK, NEW s \in Slots
  PROVE  /\ Waits(s, "detail") => calls[s].drill \in Drills
         /\ Waits(s, "preview") => calls[s] \in [task : {"preview"}, drill : Ids, layout : Layouts]
         /\ Waits(s, "view") => calls[s].view \in View
         /\ Waits(s, "previewed") => calls[s].preview \in Preview
         /\ Waits(s, "created") => calls[s].drill \in Drills
         /\ Waits(s, "freeze") => calls[s] \in Freeze
         /\ Waits(s, "revise") \/ Waits(s, "work") => calls[s].drill \in Ids
<1>1. calls[s] \in Request \cup Reply \cup {Idle}
  BY DEF TypeOK
<1>2. CASE calls[s] = Idle
  BY <1>2 DEF Waits
<1>3. CASE calls[s] \in Request
  BY <1>3 DEF Waits, Request, Listing, Plain, Freeze
<1>4. CASE calls[s] \in Reply
  BY <1>4 DEF Waits, Reply
<1> QED BY <1>1, <1>2, <1>3, <1>4

LEMMA SlotSet ==
  ASSUME calls \in [Slots -> Call], NEW s \in Slots, NEW call \in Call,
         calls' = [calls EXCEPT ![s] = call]
  PROVE  calls' \in [Slots -> Call]
OBVIOUS

LEMMA RowChanges ==
  ASSUME TypeOK, NEW d \in Drills,
         NEW status \in Statuses, Change(d, status)
  PROVE  server' \in [Drills -> Row]
<1>1. server[d].version + 1 \in Nat
  BY DEF TypeOK, Row
<1> QED BY <1>1 DEF TypeOK, Row, Change

LEMMA AnsweredCommand ==
  ASSUME calls \in [Slots -> Call], NEW s \in Slots, NEW call \in Call, AnswerCommand(s, call)
  PROVE  calls' \in [Slots -> Call]
BY DEF AnswerCommand, Answer, Call

-----------------------------------------------------------------------------
\* The actions of a slot, by what they do.
Sending(s) ==
  \/ \E d \in Ids : Select(s, d)
  \/ Refresh(s) \/ Reopen(s) \/ SendCreate(s) \/ SendRevise(s) \/ SendWork(s)
  \/ \E layout \in Layouts : AskPreview(s, layout) \/ SendFreeze(s, layout)
Handling(s) ==
  \/ DrillDetailHandler(s) \/ PreviewBaselineHandler(s)
  \/ \E d \in Drills : CreateDrillHandler(s, d)
  \/ ReviseDrillHandler(s) \/ WorkHandler(s) \/ RefuseCommand(s)
Hearing(s) ==
  HearList(s) \/ HearView(s) \/ HearPreview(s) \/ HearCreated(s) \/ HearDone(s) \/ Lose(s)

LEMMA SendingTyped ==
  ASSUME TypeOK, NEW s \in Slots, Sending(s)
  PROVE  TypeOK'
<1> USE DEF page
<1>0. calls \in [Slots -> Call] /\ id \in Ids /\ view \in View \cup {NoView}
  BY DEF TypeOK, Call
<1>1. Listing \in Call /\ Idle \in Call
  BY DEF Call, Request
<1>2. \A task \in {"create", "revise", "work"} : Command(task) \in Call
  BY <1>0, BoundsAssumption DEF Command, Call, Request, Plain, View
<1>3. ASSUME NEW d \in Ids, Select(s, d) PROVE TypeOK'
  BY <1>0, <1>1, <1>3, SlotSet DEF Select, Start, TypeOK, Call
<1>4. CASE Refresh(s)
  BY <1>0, <1>1, <1>4, SlotSet DEF Refresh, Start, TypeOK, Call
<1>5. CASE Reopen(s)
  <2>1. ASSUME NEW t \in Slots, calls[t] # Idle, calls[t].task \in Commands
        PROVE  [calls[t] EXCEPT !.heard = FALSE] \in Call
    <3>1. calls[t] \in Plain \cup Freeze
      <4>1. calls[t] \in Request \cup Reply
        BY <1>0, <2>1 DEF Call
      <4> QED BY <2>1, <4>1 DEF Request, Reply, Listing, Commands
    <3>2. CASE calls[t] \in Plain
      <4>1. [calls[t] EXCEPT !.heard = FALSE] \in Plain
        BY <3>2 DEF Plain
      <4> QED BY <4>1 DEF Call, Request
    <3>3. CASE calls[t] \in Freeze
      <4>1. [calls[t] EXCEPT !.heard = FALSE] \in Freeze
        BY <3>3 DEF Freeze
      <4> QED BY <4>1 DEF Call, Request
    <3> QED BY <3>1, <3>2, <3>3
  <2>2. calls' \in [Slots -> Call]
    BY <1>1, <1>5, <2>1 DEF Reopen
  <2> QED BY <1>5, <2>2 DEF Reopen, TypeOK, Call
<1>6. ASSUME NEW layout \in Layouts, AskPreview(s, layout) PROVE TypeOK'
  <2>1. [task |-> "preview", drill |-> id, layout |-> layout] \in Call
    BY <1>0 DEF Call, Request
  <2> QED BY <1>0, <1>6, <2>1, SlotSet DEF AskPreview, Start, TypeOK, Call
<1>7. CASE SendCreate(s) \/ SendRevise(s) \/ SendWork(s)
  <2>1. PICK task \in {"create", "revise", "work"} : Start(s, Command(task))
    BY <1>7 DEF SendCreate, SendRevise, SendWork
  <2>2. calls' \in [Slots -> Call]
    BY <1>0, <1>2, <2>1, SlotSet DEF Start
  <2> QED BY <1>7, <2>2 DEF SendCreate, SendRevise, SendWork, TypeOK, Call
<1>8. ASSUME NEW layout \in Layouts, SendFreeze(s, layout) PROVE TypeOK'
  <2>1. preview \in Preview /\ view \in View
    BY <1>8 DEF SendFreeze, ShowsDraft, TypeOK
  <2>2. [task |-> "freeze", heard |-> TRUE, drill |-> id, version |-> view.version,
         layout |-> layout, held |-> preview] \in Call
    BY <1>0, <2>1 DEF Call, Request, Freeze, View
  <2>3. calls' \in [Slots -> Call]
    BY <1>0, <1>8, <2>2, SlotSet DEF SendFreeze
  <2> QED BY <1>8, <2>3 DEF SendFreeze, TypeOK, Call
<1> QED BY <1>3, <1>4, <1>5, <1>6, <1>7, <1>8 DEF Sending

\* A handler that accepts a freeze compares the digest with its own preview.
LEMMA FreezeHandled ==
  ASSUME TypeOK, FreezesWhatWasPreviewed, NEW s \in Slots, FreezeBaselineHandler(s)
  PROVE  TypeOK' /\ FreezesWhatWasPreviewed'
<1> DEFINE c == calls[s]
           base == [drill |-> c.drill, version |-> c.version, layout |-> c.layout]
           entry == [base |-> base, held |-> c.held]
<1>1. c \in Freeze
  BY WhatWaits DEF FreezeBaselineHandler
<1>2. c.held \in Preview /\ c.drill \in Ids /\ c.version \in Nat /\ c.layout \in Layouts
  BY <1>1 DEF Freeze
<1>3. c.drill \in Drills
  BY <1>2 DEF FreezeBaselineHandler, Accepts, Exists, Ids
<1>4. base \in Preview
  BY <1>2, <1>3 DEF Preview
<1>5. PreviewDigest(c.held) = PreviewDigest(base) /\ frozen' = frozen \cup {entry}
  BY DEF FreezeBaselineHandler
<1>6. c.held = base
  <2>1. /\ c.held.drill = base.drill /\ c.held.version = base.version
        /\ c.held.layout = base.layout
    BY <1>5 DEF PreviewDigest
  <2> QED BY <1>2, <1>4, <2>1 DEF Preview
<1>7. entry \in [base : Preview, held : Preview] /\ entry.held = entry.base
  BY <1>2, <1>4, <1>6
<1>8. server' \in [Drills -> Row]
  BY <1>3, RowChanges DEF FreezeBaselineHandler, Accepts, Statuses
<1>9. calls' \in [Slots -> Call]
  <2>1. [task |-> "done", clears |-> TRUE] \in Call
    BY DEF Call, Reply
  <2> QED BY <2>1, AnsweredCommand DEF FreezeBaselineHandler, TypeOK, Call
<1> HIDE DEF entry
<1>10. /\ frozen' \subseteq [base : Preview, held : Preview]
       /\ FreezesWhatWasPreviewed'
  BY <1>5, <1>7 DEF TypeOK, FreezesWhatWasPreviewed
<1> QED BY <1>8, <1>9, <1>10 DEF FreezeBaselineHandler, page, TypeOK, Call

LEMMA HandlersTyped ==
  ASSUME TypeOK, NEW s \in Slots, Handling(s)
  PROVE  TypeOK'
<1> USE DEF page
<1>0. calls \in [Slots -> Call] /\ server \in [Drills -> Row]
  BY DEF TypeOK, Call
<1>1. Idle \in Call
  BY DEF Call
<1>2. CASE DrillDetailHandler(s)
  <2> DEFINE e == calls[s].drill
             v == [drill |-> e, status |-> server[e].status, version |-> server[e].version]
  <2>1. e \in Drills
    BY <1>2, WhatWaits DEF DrillDetailHandler
  <2>2. v \in View
    BY <1>0, <2>1 DEF View, Row
  <2>3. calls' = [calls EXCEPT ![s] = [task |-> "view", view |-> v]]
    BY <1>2 DEF DrillDetailHandler, Answer
  <2> HIDE DEF v
  <2>4. [task |-> "view", view |-> v] \in Call
    BY <2>2 DEF Call, Reply
  <2>5. calls' \in [Slots -> Call]
    BY <1>0, <2>3, <2>4, SlotSet
  <2> QED BY <1>2, <2>5 DEF DrillDetailHandler, TypeOK, Call
<1>3. CASE PreviewBaselineHandler(s)
  <2> DEFINE e == calls[s].drill
             p == [drill |-> e, version |-> server[e].version, layout |-> calls[s].layout]
  <2>1. e \in Ids /\ calls[s].layout \in Layouts
    BY <1>3, WhatWaits DEF PreviewBaselineHandler
  <2>2. CASE Exists(e) /\ server[e].status = "draft"
    <3>1. e \in Drills
      BY <2>1, <2>2 DEF Exists, Ids
    <3>2. p \in Preview
      BY <1>0, <2>1, <3>1 DEF Preview, Row
    <3>3. calls' = [calls EXCEPT ![s] = [task |-> "previewed", preview |-> p]]
      BY <1>3, <2>2 DEF PreviewBaselineHandler, Answer
    <3> HIDE DEF p
    <3>4. [task |-> "previewed", preview |-> p] \in Call
      BY <3>2 DEF Call, Reply
    <3>5. calls' \in [Slots -> Call]
      BY <1>0, <3>3, <3>4, SlotSet
    <3> QED BY <1>3, <3>5 DEF PreviewBaselineHandler, TypeOK, Call
  <2>3. CASE ~(Exists(e) /\ server[e].status = "draft")
    <3>1. calls' = [calls EXCEPT ![s] = Idle]
      BY <1>3, <2>3 DEF PreviewBaselineHandler, Answer
    <3>2. calls' \in [Slots -> Call]
      BY <1>0, <1>1, <3>1, SlotSet
    <3> QED BY <1>3, <3>2 DEF PreviewBaselineHandler, TypeOK, Call
  <2> QED BY <2>2, <2>3
<1>4. ASSUME NEW d \in Drills, CreateDrillHandler(s, d) PROVE TypeOK'
  <2>1. [task |-> "created", drill |-> d] \in Call
    BY DEF Call, Reply
  <2>2. calls' \in [Slots -> Call]
    BY <1>0, <1>4, <2>1, AnsweredCommand DEF CreateDrillHandler
  <2>3. server' \in [Drills -> Row]
    BY <1>0, <1>4, BoundsAssumption DEF CreateDrillHandler, Row, Statuses
  <2> QED BY <1>4, <2>2, <2>3 DEF CreateDrillHandler, TypeOK, Call
<1>5. CASE ReviseDrillHandler(s) \/ WorkHandler(s)
  <2>1. calls[s].drill \in Drills
    BY <1>5, WhatWaits DEF ReviseDrillHandler, WorkHandler, Accepts, Exists, Ids
  <2>2. PICK to \in Statuses : Change(calls[s].drill, to)
    BY <1>5 DEF ReviseDrillHandler, WorkHandler, Later, Statuses
  <2>3. server' \in [Drills -> Row]
    BY <2>1, <2>2, RowChanges
  <2>4. \A b \in BOOLEAN : [task |-> "done", clears |-> b] \in Call
    BY DEF Call, Reply
  <2>5. calls' \in [Slots -> Call]
    BY <1>0, <1>5, <2>4, AnsweredCommand DEF ReviseDrillHandler, WorkHandler
  <2> QED BY <1>5, <2>3, <2>5 DEF ReviseDrillHandler, WorkHandler, TypeOK, Call
<1>6. CASE RefuseCommand(s)
  BY <1>0, <1>1, <1>6, SlotSet DEF RefuseCommand, Answer, TypeOK, Call
<1> QED BY <1>2, <1>3, <1>4, <1>5, <1>6 DEF Handling

LEMMA OthersTyped ==
  ASSUME TypeOK, NEW d \in Drills, OtherClient(d)
  PROVE  TypeOK'
<1>1. PICK to \in Statuses : Change(d, to)
  BY DEF OtherClient, Later, Statuses, TypeOK, Row
<1>2. server' \in [Drills -> Row]
  BY <1>1, RowChanges DEF OtherClient
<1> QED BY <1>2 DEF OtherClient, page, TypeOK

LEMMA HearingTyped ==
  ASSUME TypeOK, NEW s \in Slots, Hearing(s)
  PROVE  TypeOK'
<1>0. calls \in [Slots -> Call] /\ id \in Ids
  BY DEF TypeOK, Call
<1>1. Listing \in Call /\ Idle \in Call
  BY DEF Call, Request
<1>2. CASE HearList(s)
  <2>1. CASE id = NoDrill
    BY <1>0, <1>1, <1>2, <2>1, SlotSet DEF HearList, Answer, TypeOK, Call
  <2>2. CASE id # NoDrill
    <3>1. [task |-> "detail", drill |-> id] \in Call
      BY <1>0, <2>2 DEF Ids, Call, Request
    <3>2. calls' \in [Slots -> Call]
      BY <1>0, <1>2, <2>2, <3>1, SlotSet DEF HearList, Answer
    <3> QED BY <1>2, <2>2, <3>2 DEF HearList, TypeOK, Call
  <2> QED BY <2>1, <2>2
<1>3. CASE HearView(s)
  <2>1. calls' \in [Slots -> Call]
    BY <1>0, <1>1, <1>3, SlotSet DEF HearView, Answer
  <2>2. view' \in View /\ id' \in Ids
    BY <1>0, <1>3, WhatWaits DEF HearView, Ids
  <2>3. controls' \subseteq {"edit", "work"}
    BY <1>3 DEF HearView, TypeOK
  <2> QED BY <1>3, <2>1, <2>2, <2>3 DEF HearView, TypeOK, Call
<1>4. CASE HearPreview(s)
  <2>1. calls' \in [Slots -> Call]
    BY <1>0, <1>1, <1>4, SlotSet DEF HearPreview, Answer
  <2>2. preview' \in Preview
    BY <1>4, WhatWaits DEF HearPreview
  <2> QED BY <1>4, <2>1, <2>2 DEF HearPreview, TypeOK, Call
<1>5. CASE HearCreated(s)
  <2>1. calls' \in [Slots -> Call]
    BY <1>0, <1>1, <1>5, SlotSet DEF HearCreated, Answer
  <2>2. id' \in Ids
    BY <1>5, WhatWaits DEF HearCreated, Ids
  <2> QED BY <1>5, <2>1, <2>2 DEF HearCreated, TypeOK, Call
<1>6. CASE HearDone(s)
  <2>1. calls' \in [Slots -> Call]
    BY <1>0, <1>1, <1>6, SlotSet DEF HearDone, Answer
  <2> QED BY <1>6, <2>1 DEF HearDone, TypeOK, Call
<1>7. CASE Lose(s)
  <2>1. calls' \in [Slots -> Call]
    BY <1>0, <1>1, <1>7, SlotSet DEF Lose, Answer
  <2>2. lost' \in 0..MaxLost /\ id' \in Ids
    BY <1>0, <1>7, BoundsAssumption DEF Lose, TypeOK, Ids
  <2> QED BY <1>7, <2>1, <2>2 DEF Lose, TypeOK, Call
<1> QED BY <1>2, <1>3, <1>4, <1>5, <1>6, <1>7 DEF Hearing

-----------------------------------------------------------------------------
PageInv == TypeOK /\ FreezesWhatWasPreviewed

LEMMA NextPageInv == PageInv /\ [Next]_vars => PageInv'
<1> SUFFICES ASSUME PageInv, [Next]_vars PROVE PageInv'
  OBVIOUS
<1> USE DEF PageInv
<1>1. CASE UNCHANGED vars
  BY <1>1 DEF vars, TypeOK, FreezesWhatWasPreviewed
<1>2. ASSUME NEW d \in Drills, OtherClient(d) PROVE PageInv'
  BY <1>2, OthersTyped DEF OtherClient, FreezesWhatWasPreviewed
<1>3. ASSUME NEW s \in Slots, Sending(s) PROVE PageInv'
  <2>1. TypeOK'
    BY <1>3, SendingTyped
  <2>2. frozen' = frozen
    BY <1>3 DEF Sending, Select, Refresh, Reopen, AskPreview, SendCreate, SendRevise,
                SendFreeze, SendWork
  <2> QED BY <2>1, <2>2 DEF FreezesWhatWasPreviewed
<1>4. ASSUME NEW s \in Slots, Handling(s) PROVE PageInv'
  <2>1. TypeOK'
    BY <1>4, HandlersTyped
  <2>2. frozen' = frozen
    BY <1>4 DEF Handling, DrillDetailHandler, PreviewBaselineHandler, CreateDrillHandler,
                ReviseDrillHandler, WorkHandler, RefuseCommand
  <2> QED BY <2>1, <2>2 DEF FreezesWhatWasPreviewed
<1>5. ASSUME NEW s \in Slots, FreezeBaselineHandler(s) PROVE PageInv'
  BY <1>5, FreezeHandled
<1>6. ASSUME NEW s \in Slots, Hearing(s) PROVE PageInv'
  <2>1. TypeOK'
    BY <1>6, HearingTyped
  <2>2. frozen' = frozen
    BY <1>6 DEF Hearing, HearList, HearView, HearPreview, HearCreated, HearDone, Lose
  <2> QED BY <2>1, <2>2 DEF FreezesWhatWasPreviewed
<1> QED BY <1>1, <1>2, <1>3, <1>4, <1>5, <1>6 DEF Next, Sending, Handling, Hearing

LEMMA PageInvariance == Spec => []PageInv
<1>1. Init => PageInv
  BY BoundsAssumption
  DEF Init, PageInv, TypeOK, FreezesWhatWasPreviewed, Row, Statuses, Ids, Request, Listing
<1> QED BY <1>1, NextPageInv, PTL DEF Spec

\* Every variable and every call in flight has its type.
THEOREM PageTypeCorrect == Spec => []TypeOK
BY PageInvariance, PTL DEF PageInv

\* An accepted freeze carries the preview of what it freezes.
THEOREM FreezesPreviewed == Spec => []FreezesWhatWasPreviewed
BY PageInvariance, PTL DEF PageInv
=============================================================================
