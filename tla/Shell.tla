-------------------------------- MODULE Shell --------------------------------
(***************************************************************************)
(* Two parts of the console with a copy of the server's state of their     *)
(* own: the bell in the top bar (components/shell/TopBar.tsx), which polls *)
(* the alerts and takes the answers in whatever order they come, and the   *)
(* webhook card (pages/Settings.tsx), a field that follows what was read   *)
(* as long as nobody types.                                                *)
(***************************************************************************)
EXTENDS Naturals, FiniteSets

CONSTANTS
  AlertIds,   \* bound: the alerts that are ever raised
  Polls,      \* bound: reads of the bell on their way at a time
  Urls,       \* what the field may say, the empty word among them
  NoUrl

VARIABLES
  unraised, firing,   \* the server: alerts to come, and alerts with status open
  bell,               \* the bell's list
  armed,              \* its interval is set
  polls,              \* its reads: free, sent, failed or the alerts the server found
  resolving           \* its Resolve buttons' requests

bellvars == <<unraised, firing, bell, armed, polls, resolving>>

Free == [pc |-> "free", got |-> {}]
Sent == [pc |-> "sent", got |-> {}]

BellInit ==
  /\ unraised = AlertIds
  /\ firing = {}
  /\ bell = {}
  /\ armed = TRUE
  /\ polls = [p \in Polls |-> IF p = 1 THEN Sent ELSE Free]
  /\ resolving = {}

\* loadAlerts: a read more, which nothing cancels.
LoadAlerts ==
  \E p \in Polls :
    /\ polls[p] = Free
    /\ \A q \in Polls : q < p => polls[q] # Free
    /\ polls' = [polls EXCEPT ![p] = Sent]

\* The interval, every 20 seconds; opening or closing the bell reads as well.
Tick ==
  /\ armed
  /\ LoadAlerts
  /\ UNCHANGED <<unraised, firing, bell, armed, resolving>>

PressBell ==
  /\ LoadAlerts
  /\ UNCHANGED <<unraised, firing, bell, armed, resolving>>

\* A bug to find: the cleanup clears the interval, and only a mount sets one.
ChangePathBug ==
  /\ LoadAlerts
  /\ armed' = FALSE
  /\ UNCHANGED <<unraised, firing, bell, resolving>>

\* A new path: the effect clears the interval, reads, and sets another.
ChangePath ==
  /\ LoadAlerts
  /\ armed' = TRUE
  /\ UNCHANGED <<unraised, firing, bell, resolving>>

Raise(a) ==
  /\ a \in unraised
  /\ unraised' = unraised \ {a}
  /\ firing' = firing \cup {a}
  /\ UNCHANGED <<bell, armed, polls, resolving>>

\* Somebody else resolves it, or the engine does.
Subside(a) ==
  /\ a \in firing
  /\ firing' = firing \ {a}
  /\ UNCHANGED <<unraised, bell, armed, polls, resolving>>

\* The server answers a read, or the request fails, which the bell ignores.
PollAnswered(p) ==
  /\ polls[p] = Sent
  /\ polls' = [polls EXCEPT ![p] = [pc |-> "answer", got |-> firing]]
  /\ UNCHANGED <<unraised, firing, bell, armed, resolving>>

PollFails(p) ==
  /\ polls[p] = Sent
  /\ polls' = [polls EXCEPT ![p] = Free]
  /\ UNCHANGED <<unraised, firing, bell, armed, resolving>>

PollDelivered(p) ==
  /\ polls[p].pc = "answer"
  /\ bell' = polls[p].got
  /\ polls' = [polls EXCEPT ![p] = Free]
  /\ UNCHANGED <<unraised, firing, armed, resolving>>

\* Resolve: the write may land or not, and its answer reach the bell or not;
\* a success reads again, and a failure is swallowed.
PressResolve(a) ==
  /\ a \in bell
  /\ a \notin resolving
  /\ resolving' = resolving \cup {a}
  /\ UNCHANGED <<unraised, firing, bell, armed, polls>>

ResolveAnswered(a) ==
  /\ a \in resolving
  /\ resolving' = resolving \ {a}
  /\ firing' = firing \ {a}
  /\ LoadAlerts
  /\ UNCHANGED <<unraised, bell, armed>>

ResolveFails(a) ==
  /\ a \in resolving
  /\ resolving' = resolving \ {a}
  /\ firing' \in {firing, firing \ {a}}
  /\ UNCHANGED <<unraised, bell, armed, polls>>

BellNext ==
  \/ Tick \/ PressBell \/ ChangePath
  \/ \E a \in AlertIds : Raise(a) \/ Subside(a) \/ PressResolve(a)
                         \/ ResolveAnswered(a) \/ ResolveFails(a)
  \/ \E p \in Polls : PollAnswered(p) \/ PollFails(p) \/ PollDelivered(p)

\* Once alerts come and go no more the bell shows the ones that are open and
\* goes on showing them, though its reads overtake each other and may fail, and
\* on every path (TopBar.tsx:31-36, 43-45).
BellCatchesUp == <>[](bell = firing)

-----------------------------------------------------------------------------
VARIABLES
  stored,    \* the server: the setting webhook_url
  card,      \* the hook's data
  url,       \* the field
  dirty,
  saving,    \* busy, and how far the save is: "no", "sent", "written"
  typed,     \* what is being saved
  reading,   \* the hook's newest read: "no", "due", "sent", "answer"
  found,     \* the answer
  foreign    \* history: another operator saved since the read that is shown

cardvars == <<stored, card, url, dirty, saving, typed, reading, found, foreign>>

CardInit ==
  /\ stored \in Urls
  /\ card = NoUrl
  /\ url = ""
  /\ dirty = FALSE
  /\ saving = "no"
  /\ typed = NoUrl
  /\ reading = "due"
  /\ found = NoUrl
  /\ foreign = FALSE

\* The effect on [wh.data, dirty].
Follow(data, d, u) == IF data # NoUrl /\ ~d THEN data ELSE u

\* The field is never disabled, not even while a save is under way.
Type(u) ==
  /\ url' = u
  /\ dirty' = TRUE
  /\ UNCHANGED <<stored, card, saving, typed, reading, found, foreign>>

PressSave ==
  /\ saving = "no"
  /\ dirty
  /\ saving' = "sent"
  /\ typed' = url
  /\ UNCHANGED <<stored, card, url, dirty, reading, found, foreign>>

\* setWebhook ignores the error of its one statement: the answer is the same.
SaveWritten ==
  /\ saving = "sent"
  /\ saving' = "written"
  /\ stored' \in {typed, stored}
  /\ UNCHANGED <<card, url, dirty, typed, reading, found, foreign>>

\* A bug to find: a save does not read again.
SaveSucceedsBug ==
  /\ saving = "written"
  /\ saving' = "no"
  /\ typed' = NoUrl
  /\ dirty' = FALSE
  /\ url' = Follow(card, FALSE, url)
  /\ UNCHANGED <<stored, card, reading, found, foreign>>

\* The field goes back to the data there is until the new read is answered.
SaveSucceeds ==
  /\ saving = "written"
  /\ saving' = "no"
  /\ typed' = NoUrl
  /\ dirty' = FALSE
  /\ url' = Follow(card, FALSE, url)
  /\ reading' = "due"
  /\ found' = NoUrl
  /\ UNCHANGED <<stored, card, foreign>>

\* An error, or the answer is lost after the write.
SaveFails ==
  /\ saving \in {"sent", "written"}
  /\ saving' = "no"
  /\ typed' = NoUrl
  /\ UNCHANGED <<stored, card, url, dirty, reading, found, foreign>>

SendRead ==
  /\ reading = "due"
  /\ reading' = "sent"
  /\ UNCHANGED <<stored, card, url, dirty, saving, typed, found, foreign>>

ServeRead ==
  /\ reading = "sent"
  /\ reading' = "answer"
  /\ found' = stored
  /\ foreign' = FALSE
  /\ UNCHANGED <<stored, card, url, dirty, saving, typed>>

ReadSucceeds ==
  /\ reading = "answer"
  /\ reading' = "no"
  /\ found' = NoUrl
  /\ card' = found
  /\ url' = Follow(card', dirty, url)
  /\ UNCHANGED <<stored, dirty, saving, typed, foreign>>

\* The card has no Retry: with no data it stays as it is until the next save.
ReadFails ==
  /\ reading \in {"sent", "answer"}
  /\ reading' = "no"
  /\ found' = NoUrl
  /\ card' = NoUrl
  /\ UNCHANGED <<stored, url, dirty, saving, typed, foreign>>

\* Another operator, or a restore.
StoredElsewhere(u) ==
  /\ stored' = u
  /\ foreign' = TRUE
  /\ UNCHANGED <<card, url, dirty, saving, typed, reading, found>>

CardNext ==
  \/ \E u \in Urls : Type(u) \/ StoredElsewhere(u)
  \/ PressSave \/ SaveWritten \/ SaveSucceeds \/ SaveFails
  \/ SendRead \/ ServeRead \/ ReadSucceeds \/ ReadFails

CardSpec == CardInit /\ [][CardNext]_cardvars

\* When all is quiet a card with data shows the address that alerts are sent to,
\* unless another operator has changed it since: also if the field was typed in
\* during the save, or an older read was still out when it ended
\* (Settings.tsx:188-199).
WebhookShows ==
  saving = "no" /\ ~dirty /\ reading = "no" /\ card # NoUrl /\ ~foreign => url = stored
=============================================================================
