-------------------------------- MODULE Pages --------------------------------
(***************************************************************************)
(* A page of the console with its operator: forms (FormModal), the one     *)
(* dialog (ModalHost), handlers that write, toast and reload.  Its hooks   *)
(* are Latest's in PageSpec, and Fetch's, with their requests, in          *)
(* WholeSpec, which implements it.                                         *)
(***************************************************************************)
EXTENDS Fetch, PageTable

CONSTANTS
  Jobs,    \* bound: the writes an operator starts, 1..n
  Long,    \* bound: the pages on which it is more than one
  Homes    \* bound: the ids from which the address changes in place

\* The hook that a page's first lines look at is its first call.
ASSUME HooksAssumption == 1 \in Hooks

\* null is not a form that is open either.
ASSUME NoFormAssumption == None \notin [op : AllOps, row : Keys \cup {None}]

VARIABLES
  page,     \* the page, of Pagebook
  here,     \* the operator is still on it
  open,     \* the page's state: which form is wanted, on which row
  box,      \* the mounted FormModal
  jobs,     \* handlers under way, and what became of them
  dialog    \* ModalHost's req: the job that asks

pvars == <<page, here, open, box, jobs, dialog>>

Idle == [pc |-> "idle", op |-> None, form |-> FALSE, calm |-> FALSE,
         from |-> None, on |-> None, at |-> None]

PageHooks == {h \in Hooks : h \in DOMAIN page.hooks}
OpsBy(via) == {op \in page.ops : op.via = via}

PageInit ==
  /\ page \in Pagebook
  /\ here = TRUE
  /\ open = None
  /\ box = None
  /\ jobs = [j \in Jobs |-> Idle]
  /\ dialog = None

-----------------------------------------------------------------------------
\* Rendering.  `if (loading && !data) return <Loading/>; if (error) return
\* <ErrorNote/>`: everything below, the form too, is there only with data.
Content(s) == here /\ (page.gate = 0 \/ s[1].data # None)

\* What a form open as o is about: the row it was opened on, or the thing the
\* page shows, which need not be the one in its address yet.
About(o, s) ==
  CASE o.op.via = "fill" -> "blank"
    [] o.op.via = "edit" -> o.row
    [] o.op.via = "revise" -> s[1].data.key

\* A new FormModal takes its fields' defaults.  calm: the page had settled.
NewBox(o, s, k) ==
  [from |-> About(o, s), busy |-> FALSE, sent |-> {},
   calm |-> page.gate = 1 => ~s[1].loading /\ s[1].data.key = k]

\* A bug to find: closing hides the form and does not unmount it.
DrawBug(b, o, s, k) ==
  IF ~Content(s) THEN None ELSE IF b # None \/ o = None THEN b ELSE NewBox(o, s, k)

\* The FormModal that the next render leaves mounted: an old one keeps its values.
Draw(b, o, s, k) ==
  IF o = None \/ ~Content(s) THEN None ELSE IF b # None THEN b ELSE NewBox(o, s, k)

Redraw == box' = Draw(box, open', state', key[1])

HookAsks(h) ==
  /\ L!Ask(h)
  /\ UNCHANGED pvars

HookSettles(h) ==
  /\ L!Show(h) \/ L!Fail(h)
  /\ UNCHANGED <<page, here, open, jobs, dialog>>
  /\ Redraw

\* ErrorNote's button reloads the first hook, and no other.
Retry ==
  /\ here
  /\ page.gate = 1
  /\ state[1].error
  /\ ~due[1]
  /\ L!Reload({1})
  /\ UNCHANGED pvars

\* Palette, a link or the back button: to another detail of the same route,
\* which keeps the component, or away.
GoTo(k) ==
  /\ here
  /\ page.detail
  /\ key[1] \in Homes
  /\ L!Navigate(1, k)
  /\ box' = IF box = None THEN None ELSE [box EXCEPT !.calm = FALSE]
  /\ UNCHANGED <<page, here, open, jobs, dialog>>

Leave ==
  /\ here
  /\ here' = FALSE
  /\ L!Unmount(PageHooks)
  /\ open' = None
  /\ box' = None
  /\ UNCHANGED <<page, jobs, dialog>>

-----------------------------------------------------------------------------
\* Buttons and dialogs.  A dialog outlives the page that asked, and a new one
\* replaces it: the older question is never answered.
Next1(j) ==
  /\ page \in Long \/ j = 1
  /\ jobs[j].pc = "idle"
  /\ \A i \in Jobs : i < j => jobs[i].pc # "idle"

Begin(j, job) == jobs' = [jobs EXCEPT ![j] = job]
Put(j, pc) == jobs' = [jobs EXCEPT ![j].pc = pc]

\* Of a write that ended only what it did is kept.
End(j, pc) ==
  jobs' = [jobs EXCEPT ![j] = [Idle EXCEPT !.pc = pc, !.op = jobs[j].op, !.at = jobs[j].at]]
Lose(j) ==
  jobs' = [jobs EXCEPT ![j] =
             [Idle EXCEPT !.pc = IF jobs[j].pc = "written" THEN "lost" ELSE "failed"]]

Press(j, op) ==
  /\ Content(state)
  /\ op \in OpsBy("press")
  /\ Next1(j)
  /\ Begin(j, [Idle EXCEPT !.pc = "sent", !.op = op])
  /\ UNCHANGED <<hooks, page, here, open, box, dialog>>

Question(j, op) ==
  /\ Content(state)
  /\ op \in OpsBy("ask")
  /\ Next1(j)
  /\ Begin(j, [Idle EXCEPT !.pc = "asked", !.op = op])
  /\ dialog' = j
  /\ UNCHANGED <<hooks, page, here, open, box>>

Confirm ==
  /\ dialog # None
  /\ Put(dialog, "sent")
  /\ dialog' = None
  /\ UNCHANGED <<hooks, page, here, open, box>>

ShutDialog == dialog # None /\ Lose(dialog) /\ dialog' = None
ShutForm == box # None /\ open' = None /\ box' = Draw(box, None, state, key[1])

\* Escape reaches every Modal's listener, dialog and form both; a Cancel button
\* and a click beside a modal are that modal's.
Cancel ==
  /\ \/ ShutDialog /\ ShutForm
     \/ ShutDialog /\ UNCHANGED <<open, box>>
     \/ ShutForm /\ UNCHANGED <<jobs, dialog>>
  /\ UNCHANGED <<hooks, page, here>>

-----------------------------------------------------------------------------
\* Forms.
OpenForm(op, row) ==
  /\ Content(state)
  /\ op \in page.ops
  /\ op.via \in {"fill", "edit", "revise"}
  /\ (row # None) <=> op.via = "edit"
  /\ open = None
  /\ open' = [op |-> op, row |-> row]
  /\ UNCHANGED <<hooks, page, here, jobs, dialog>>
  /\ Redraw

\* The keyboard still reaches the row buttons behind the overlay: the mounted
\* form stays, and is about another row.
Reopen(row) ==
  /\ open # None
  /\ box # None
  /\ open.op.via = "edit"
  /\ row # open.row
  /\ open' = [open EXCEPT !.row = row]
  /\ box' = [box EXCEPT !.calm = FALSE]
  /\ UNCHANGED <<hooks, page, here, jobs, dialog>>

\* The write of the form that is open, with its fields as they are.
Sending ==
  [Idle EXCEPT !.pc = "sent", !.op = open.op, !.form = TRUE, !.calm = box.calm,
               !.from = box.from, !.on = About(open, state)]

\* A bug to find: the button and Enter both submit, busy or not.
SubmitBug(j) ==
  /\ box # None
  /\ open # None
  /\ Next1(j)
  /\ Begin(j, Sending)
  /\ box' = [box EXCEPT !.busy = TRUE, !.sent = @ \cup {j}]
  /\ UNCHANGED <<hooks, page, here, open, dialog>>

Submit(j) ==
  /\ box # None
  /\ open # None
  /\ ~box.busy
  /\ Next1(j)
  /\ Begin(j, Sending)
  /\ box' = [box EXCEPT !.busy = TRUE, !.sent = @ \cup {j}]
  /\ UNCHANGED <<hooks, page, here, open, dialog>>

-----------------------------------------------------------------------------
\* The server takes a write or refuses it.
ServerWrites(j) ==
  /\ jobs[j].pc = "sent"
  /\ L!Write({h \in Hooks : h \in Touched(page, jobs[j].op)})
  /\ jobs' = [jobs EXCEPT ![j].pc = "written", ![j].at = rev']
  /\ UNCHANGED <<page, here, open, box, dialog>>

ServerRefuses(j) ==
  /\ jobs[j].pc = "sent"
  /\ Put(j, "refused")
  /\ UNCHANGED <<hooks, page, here, open, box, dialog>>

\* The handler goes on: reload() does nothing on a page that is gone; onClose
\* closes the form of this operation, whichever instance is open by now.
Succeed(j) ==
  LET op == jobs[j].op IN
  /\ jobs[j].pc = "written"
  /\ End(j, "done")
  /\ open' = IF jobs[j].form /\ open # None /\ open.op = op THEN None ELSE open
  /\ IF ~here \/ op.then = "stay"
       THEN /\ L!Reload(IF here THEN op.reloads ELSE {})
            /\ Redraw
            /\ UNCHANGED here
       ELSE /\ L!Unmount(PageHooks)
            /\ here' = FALSE
            /\ box' = None
  /\ UNCHANGED <<page, dialog>>

\* A bug to find: setBusy(false) is not in a finally.
FaultBug(j) ==
  /\ jobs[j].pc \in {"written", "refused"}
  /\ Lose(j)
  /\ UNCHANGED <<hooks, page, here, open, box, dialog>>

\* An error, or the answer to a write that did happen is lost on its way.
Fault(j) ==
  /\ jobs[j].pc \in {"written", "refused"}
  /\ Lose(j)
  /\ box' = IF box # None /\ j \in box.sent THEN [box EXCEPT !.busy = FALSE] ELSE box
  /\ UNCHANGED <<hooks, page, here, open, dialog>>

Outcome(j) == ServerWrites(j) \/ ServerRefuses(j) \/ Succeed(j) \/ Fault(j)

\* What the operator does, and what becomes of it.
Act ==
  \/ Retry \/ Leave \/ \E k \in Keys : GoTo(k)
  \/ \E op \in page.ops : \/ \E j \in Jobs : Press(j, op) \/ Question(j, op)
                          \/ \E row \in Keys \cup {None} : OpenForm(op, row)
  \/ Confirm \/ Cancel
  \/ \E row \in Keys : Reopen(row)
  \/ \E j \in Jobs : Submit(j) \/ Outcome(j)

PageNext == (\E h \in Hooks : HookAsks(h) \/ HookSettles(h)) \/ Act

PageSpec == PageInit /\ L!InitOn(PageHooks) /\ [][PageNext]_<<hooks, pvars>>

-----------------------------------------------------------------------------
\* The same pages with the requests of their hooks.  An answer renders only if
\* its run is alive: a dead one sets no state.
Sends(h) == RunEffect(h) /\ UNCHANGED pvars

Hears(h) ==
  \E m \in wire :
    /\ m.hook = h
    /\ \/ Serve(m) /\ UNCHANGED pvars
       \/ /\ Deliver(m)
          /\ UNCHANGED <<page, here, open, jobs, dialog>>
          /\ IF m.run \in alive[h] THEN Redraw ELSE UNCHANGED box

\* Leaving the page runs the cleanup of its effects; nothing else touches them.
Cleanup ==
  /\ alive' = IF here /\ ~here' THEN [h \in Hooks |-> IF h \in PageHooks THEN {} ELSE alive[h]]
                                ELSE alive
  /\ UNCHANGED <<runs, wire>>

WholeNext == (\E h \in Hooks : Sends(h) \/ Hears(h)) \/ (Act /\ Cleanup)

WholeSpec ==
  PageInit /\ L!InitOn(PageHooks) /\ NetInit /\ [][WholeNext]_<<vars, pvars>>

-----------------------------------------------------------------------------
\* A form opened on a settled page, and left alone by the address and by the
\* rows behind it, saves to what its fields were filled from, however often the
\* page reloads or fails meanwhile (FormModal.tsx:28, TunnelDetail.tsx:98-106).
OwnDraft ==
  \A j \in Jobs : jobs[j].form /\ jobs[j].calm => jobs[j].from = jobs[j].on

\* Of the writes a mounted form has sent, only the last may be anything but
\* failed, and none has been answered with success (FormModal.tsx:35-46).
OncePerForm ==
  box # None =>
    LET failed == {j \in box.sent : jobs[j].pc \in {"failed", "lost"}} IN
    /\ Cardinality(box.sent \ failed) <= 1
    /\ \A j \in box.sent : jobs[j].pc # "done"

\* A form does not stay busy for ever (FormModal.tsx:43-45).
BusyEnds == (box # None /\ box.busy) ~> (box = None \/ ~box.busy)

\* The page says that a request failed: ErrorNote, instead of all the rest, for
\* the hook that its first lines look at.
SaysFailed == page.gate = 1 /\ state[1].error

\* No page says that any other hook failed.  Its list is empty, as if there were
\* no rows, and its card as if nothing were set.
FailsSilently(h) == h # page.gate /\ state[h].error

\* Every list of the page that reads what the write wrote shows it.
Seen(j) ==
  jobs[j].pc = "done" => \A h \in Touched(page, jobs[j].op) \ LeftStale(page, jobs[j].op) :
    \/ FailsSilently(h)
    \/ state[h].data # None /\ state[h].data.rev >= jobs[j].at[h]

\* What an answered write did is on the page in the end, in every list of it
\* that reads what was written, or the page says that it failed or was left:
\* no list goes on showing the rows of before.  But for two exceptions of the
\* code's: the lists of LeftStale, which are not read again, and those of
\* FailsSilently, which are empty and do not say why (Monitoring.tsx:55,80,
\* Vault.tsx:24, Resources.tsx:40, Settings.tsx:124,184).
EffectShown ==
  \A j \in Jobs : (jobs[j].pc = "done") ~> (~here \/ SaysFailed \/ Seen(j))
=============================================================================
