----------------------------- MODULE WorkbenchPage -----------------------------
(***************************************************************************)
(* The browser page (static/app.js) and the HTTP handlers it calls.  The   *)
(* page keeps the id of the drill it works on, the view it shows and the   *)
(* preview of a baseline.  Its calls overlap: each one reads the state of  *)
(* the page when it is sent and changes it when its answer arrives, in any *)
(* order.  The drills also change under the commands of other clients.     *)
(***************************************************************************)
EXTENDS Naturals
LOCAL INSTANCE FiniteSetsExt

CONSTANTS
  Drills, Layouts,
  NoDrill, NoView, NoPreview, Idle,
  Slots,        \* bound: calls of the page in flight
  MaxCommands,  \* bound: commands accepted, for all drills
  MaxLost       \* bound: calls that fail, their request or answer lost

ASSUME BoundsAssumption == MaxCommands \in Nat /\ MaxLost \in Nat
ASSUME NoDrillAssumption == NoDrill \notin Drills

VARIABLES
  server,   \* the drills: status and version of each
  frozen,   \* history: the baselines this page froze, with the preview it held
  id,       \* state.id, which localStorage repeats
  view,     \* state.view
  preview,  \* state.preview
  controls, \* the controls an earlier render left on the page
  calls,    \* the call of each slot, with what it was sent or answered
  lost

vars == <<server, frozen, id, view, preview, controls, calls, lost>>
page == <<id, view, preview, controls>>

\* What the page tells apart in a drill: whether it has a baseline and
\* whether it has a deviation.  Later stages are reached with or without one.
Statuses == {"absent", "draft", "frozen", "deviating"}
Row == [status : Statuses, version : Nat]
View == [drill : Drills, status : Statuses, version : Nat]
Preview == [drill : Drills, version : Nat, layout : Layouts]

\* A list without a row is a nil slice, which is encoded as null.  render
\* takes the length of the checkpoints, then that of the rule counts, so it
\* throws for every drill that has no deviation.
Renders(v) == v = NoView \/ v.status = "deviating"

\* What the digest of a preview is computed from.
\* Mutant: without the drill.
PreviewDigestOfVersion(p) == <<p.version, p.layout>>
PreviewDigest(p) == <<p.drill, p.version, p.layout>>

\* A call: the request as it was sent, then its answer.
Commands == {"create", "revise", "freeze", "work"}
Listing == [task |-> "list"]
Ids == Drills \cup {NoDrill}
Plain == [task : {"create", "revise", "work"}, heard : BOOLEAN, drill : Ids,
          version : Nat]
Freeze == [task : {"freeze"}, heard : BOOLEAN, drill : Ids, version : Nat,
           layout : Layouts, held : Preview]
Request ==
  {Listing} \cup [task : {"detail"}, drill : Drills]
  \cup [task : {"preview"}, drill : Ids, layout : Layouts] \cup Plain \cup Freeze
Reply ==
  [task : {"view"}, view : View] \cup [task : {"previewed"}, preview : Preview]
  \cup [task : {"created"}, drill : Drills] \cup [task : {"done"}, clears : BOOLEAN]

TypeOK ==
  /\ server \in [Drills -> Row]
  /\ frozen \subseteq [base : Preview, held : Preview]
  /\ id \in Ids
  /\ view \in View \cup {NoView}
  /\ preview \in Preview \cup {NoPreview}
  /\ controls \subseteq {"edit", "work"}
  /\ calls \in [Slots -> Request \cup Reply \cup {Idle}]
  /\ lost \in 0..MaxLost

-----------------------------------------------------------------------------
(* Sending: what the page reads when the user acts *)

Start(s, call) == calls[s] = Idle /\ calls' = [calls EXCEPT ![s] = call]

Command(task) ==
  [task |-> task, heard |-> TRUE, drill |-> id,
   version |-> IF view = NoView THEN 0 ELSE view.version]

ShowsDraft == view # NoView /\ view.status = "draft"

\* The list of drills; the empty choice starts a new one.
Select(s, d) ==
  /\ Start(s, Listing)
  /\ id' = d /\ preview' = NoPreview
  /\ UNCHANGED <<server, frozen, view, controls, lost>>

Refresh(s) ==
  /\ Start(s, Listing)
  /\ UNCHANGED <<server, frozen, page, lost>>

\* A page that is opened again forgets all but the id; its commands may
\* still reach the server, but nobody hears of them.
Reopen(s) ==
  /\ calls[s] = Idle
  /\ calls' = [t \in Slots |->
       IF t = s THEN Listing
       ELSE IF calls[t] # Idle /\ calls[t].task \in Commands
            THEN [calls[t] EXCEPT !.heard = FALSE]
            ELSE Idle]
  /\ view' = NoView /\ preview' = NoPreview /\ controls' = {}
  /\ UNCHANGED <<server, frozen, id, lost>>

AskPreview(s, layout) ==
  /\ ShowsDraft
  /\ Start(s, [task |-> "preview", drill |-> id, layout |-> layout])
  /\ UNCHANGED <<server, frozen, page, lost>>

SendCreate(s) ==
  /\ view = NoView
  /\ Start(s, Command("create"))
  /\ UNCHANGED <<server, frozen, page, lost>>

\* The dialog that was opened for a draft may still be open.
SendRevise(s) ==
  /\ "edit" \in controls
  /\ Start(s, Command("revise"))
  /\ UNCHANGED <<server, frozen, page, lost>>

\* The form is read again: layout need not be the one that was previewed.
SendFreeze(s, layout) ==
  /\ ShowsDraft
  /\ preview # NoPreview /\ preview.version = view.version
  /\ calls[s] = Idle
  /\ calls' = [calls EXCEPT ![s] =
       [task |-> "freeze", heard |-> TRUE, drill |-> id, version |-> view.version,
        layout |-> layout, held |-> preview]]
  /\ UNCHANGED <<server, frozen, page, lost>>

\* Checks, remediation, retests and reviews: only a render that ends hides
\* or replaces the panels they are sent from.
SendWork(s) ==
  /\ "work" \in controls
  /\ Start(s, Command("work"))
  /\ UNCHANGED <<server, frozen, page, lost>>

-----------------------------------------------------------------------------
(* The handlers; a refused call only shows a notice *)

Answer(s, answer) == calls' = [calls EXCEPT ![s] = answer]
AnswerCommand(s, answer) ==
  Answer(s, IF calls[s].heard THEN answer ELSE Idle)
Waits(s, task) == calls[s] # Idle /\ calls[s].task = task
Exists(d) == d # NoDrill /\ server[d].status # "absent"
Change(d, status) ==
  server' = [server EXCEPT ![d] = [status |-> status, version |-> @.version + 1]]
Bounded == MapThenSumSet(LAMBDA d : server[d].version, Drills) < MaxCommands
Accepts(s) ==
  /\ Exists(calls[s].drill)
  /\ server[calls[s].drill].version = calls[s].version
  /\ Bounded

DrillDetailHandler(s) ==
  /\ Waits(s, "detail")
  /\ LET d == calls[s].drill
     IN Answer(s, [task |-> "view", view |->
          [drill |-> d, status |-> server[d].status, version |-> server[d].version]])
  /\ UNCHANGED <<server, frozen, page, lost>>

PreviewBaselineHandler(s) ==
  /\ Waits(s, "preview")
  /\ LET d == calls[s].drill
     IN IF Exists(d) /\ server[d].status = "draft"
        THEN Answer(s, [task |-> "previewed", preview |->
               [drill |-> d, version |-> server[d].version, layout |-> calls[s].layout]])
        ELSE Answer(s, Idle)
  /\ UNCHANGED <<server, frozen, page, lost>>

CreateDrillHandler(s, d) ==
  /\ Waits(s, "create")
  /\ server[d].status = "absent" /\ Bounded
  /\ server' = [server EXCEPT ![d] = [status |-> "draft", version |-> 1]]
  /\ AnswerCommand(s, [task |-> "created", drill |-> d])
  /\ UNCHANGED <<frozen, page, lost>>

ReviseDrillHandler(s) ==
  /\ Waits(s, "revise")
  /\ Accepts(s) /\ server[calls[s].drill].status = "draft"
  /\ Change(calls[s].drill, "draft")
  /\ AnswerCommand(s, [task |-> "done", clears |-> TRUE])
  /\ UNCHANGED <<frozen, page, lost>>

FreezeBaselineHandler(s) ==
  /\ Waits(s, "freeze")
  /\ Accepts(s) /\ server[calls[s].drill].status = "draft"
  /\ LET base == [drill |-> calls[s].drill, version |-> calls[s].version,
                  layout |-> calls[s].layout]
     IN /\ PreviewDigest(calls[s].held) = PreviewDigest(base)
        /\ frozen' = frozen \cup {[base |-> base, held |-> calls[s].held]}
  /\ Change(calls[s].drill, "frozen")
  /\ AnswerCommand(s, [task |-> "done", clears |-> TRUE])
  /\ UNCHANGED <<page, lost>>

\* The statuses a command after the freeze leads to.
Later(status) ==
  CASE status = "frozen" -> {"frozen", "deviating"}
    [] status = "deviating" -> {"deviating"}
    [] OTHER -> {}

WorkHandler(s) ==
  /\ Waits(s, "work")
  /\ Accepts(s)
  /\ \E to \in Later(server[calls[s].drill].status) : Change(calls[s].drill, to)
  /\ AnswerCommand(s, [task |-> "done", clears |-> FALSE])
  /\ UNCHANGED <<frozen, page, lost>>

\* writeApplicationError: the version, the digest or the status is not the
\* one the command needs, there is no such drill, or the form is not valid.
RefuseCommand(s) ==
  /\ calls[s] # Idle /\ calls[s].task \in Commands
  /\ Answer(s, Idle)
  /\ UNCHANGED <<server, frozen, page, lost>>

\* A command of another client, accepted.
OtherClient(d) ==
  /\ Bounded
  /\ \E to \in CASE server[d].status = "absent" -> {"draft"}
                 [] server[d].status = "draft"  -> {"draft", "frozen"}
                 [] OTHER -> Later(server[d].status) : Change(d, to)
  /\ UNCHANGED <<frozen, page, calls, lost>>

-----------------------------------------------------------------------------
(* Hearing: what the page does with an answer *)

\* load reads the id only after the list has arrived.
HearList(s) ==
  /\ Waits(s, "list")
  /\ IF id = NoDrill
     THEN view' = NoView /\ Answer(s, Idle)
     ELSE Answer(s, [task |-> "detail", drill |-> id]) /\ UNCHANGED view
  /\ UNCHANGED <<server, frozen, id, preview, controls, lost>>

\* When render throws, load's catch drops the id; the view stays.
HearView(s) ==
  /\ Waits(s, "view")
  /\ view' = calls[s].view
  /\ id' = IF Renders(calls[s].view) THEN id ELSE NoDrill
  /\ controls' = controls \cup CASE view'.status = "draft" -> {"edit"}
                                 [] view'.status = "deviating" -> {"work"}
                                 [] OTHER -> {}
  /\ Answer(s, Idle)
  /\ UNCHANGED <<server, frozen, preview, lost>>

HearPreview(s) ==
  /\ Waits(s, "previewed")
  /\ preview' = calls[s].preview
  /\ Answer(s, Idle)
  /\ UNCHANGED <<server, frozen, id, view, controls, lost>>

HearCreated(s) ==
  /\ Waits(s, "created")
  /\ id' = calls[s].drill
  /\ Answer(s, Listing)
  /\ UNCHANGED <<server, frozen, view, preview, controls, lost>>

HearDone(s) ==
  /\ Waits(s, "done")
  /\ preview' = IF calls[s].clears THEN NoPreview ELSE preview
  /\ Answer(s, Listing)
  /\ UNCHANGED <<server, frozen, id, view, controls, lost>>

\* A call fails, before or after it was handled.  Only a failed detail
\* changes the page.
Lose(s) ==
  /\ calls[s] # Idle /\ lost < MaxLost
  /\ lost' = lost + 1
  /\ id' = IF calls[s].task \in {"detail", "view"} THEN NoDrill ELSE id
  /\ Answer(s, Idle)
  /\ UNCHANGED <<server, frozen, view, preview, controls>>

-----------------------------------------------------------------------------
Init ==
  /\ server = [d \in Drills |-> [status |-> "absent", version |-> 0]]
  /\ frozen = {} /\ lost = 0 /\ controls = {}
  /\ id = NoDrill /\ view = NoView /\ preview = NoPreview
  /\ \E s \in Slots : calls = [t \in Slots |-> IF t = s THEN Listing ELSE Idle]

Next ==
  \/ \E d \in Drills : OtherClient(d)
  \/ \E s \in Slots :
       \/ \E d \in Ids : (d = NoDrill \/ Exists(d)) /\ Select(s, d)
       \/ Refresh(s) \/ Reopen(s)
       \/ \E layout \in Layouts : AskPreview(s, layout) \/ SendFreeze(s, layout)
       \/ SendCreate(s) \/ SendRevise(s) \/ SendWork(s)
       \/ DrillDetailHandler(s) \/ PreviewBaselineHandler(s)
       \/ \E d \in Drills : CreateDrillHandler(s, d)
       \/ ReviseDrillHandler(s) \/ FreezeBaselineHandler(s) \/ WorkHandler(s)
       \/ RefuseCommand(s)
       \/ HearList(s) \/ HearView(s) \/ HearPreview(s) \/ HearCreated(s) \/ HearDone(s)
       \/ Lose(s)

Spec == Init /\ [][Next]_vars

-----------------------------------------------------------------------------
(* Properties *)

\* Whatever is in flight, for whichever drill, the page froze only baselines
\* whose preview it held for that drill, at the version it was frozen in: an
\* answer that arrives after another drill was chosen, or after the form or
\* the drill changed, does not count as a preview of it.
FreezesWhatWasPreviewed == \A f \in frozen : f.held = f.base

\* A page that waits for no answer and shows a drill still has the id its
\* commands for this drill are sent with.
ShownDrillCanBeContinued ==
  view # NoView /\ (\A s \in Slots : calls[s] = Idle) => id = view.drill
=============================================================================
