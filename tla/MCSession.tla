------------------------------ MODULE MCSession ------------------------------
(***************************************************************************)
(* What a tab has around its pages, side by side: a behaviour moves one of *)
(* these and leaves the others as they start.                              *)
(*   factor         the owner's second factor by itself                    *)
(*   sign in        the factor and a tab that signs in and out             *)
(*   feed           a tab that signs in and out, and its live feed         *)
(*   bell, webhook  the two parts of Shell                                 *)
(*   map            the network map with one site and the remote node      *)
(*   place          its placement alone, with many nodes                   *)
(***************************************************************************)
EXTENDS Session, Shell, Topology

CONSTANTS r1, r2, r3, s1, s2, s3

VARIABLE focus

MCRequests == {r1, r2, r3}
MCSecrets == {s1, s2, s3}
MCSlots == 1..3
MCPolls == 1..2

\* A point on the canvas, and one far outside, the only one the remote node goes to.
Far == [x |-> -20, y |-> 900]
MCAims == {[x |-> 480, y |-> 300], Far}
RemoteAtFar == Virtual \in DOMAIN pos => pos[Virtual] = Clamp(Far)

\* Sites by tier: at least one, and the remote node in the third.
FewNodes == <<1, 0, 1>>
ManyNodes == {t \in (0..6) \X (0..8) \X (1..11) : t[1] + t[2] + t[3] \in 2..25}

others == <<mapvars, bellvars, cardvars>>
all == <<vars, tab, feed, others, focus>>

\* What stands still starts in one state; a tab that does is at its form.
MCInit ==
  /\ focus \in {"factor", "sign in", "feed", "bell", "webhook", "map", "place"}
  /\ Init
  /\ IF focus \in {"sign in", "feed"}
       THEN TabInit
       ELSE /\ cookie = None /\ ready = TRUE /\ as = None /\ mode = "owner"
            /\ mfaStep = FALSE /\ attempt = NoAttempt /\ leaving = FALSE
  /\ FeedInit
  /\ BellInit
  /\ CardInit
  /\ focus # "webhook" => stored = ""
  /\ tiers \in IF focus = "place" THEN ManyNodes ELSE {FewNodes}
  /\ MapInit
  /\ focus \notin {"map", "place"} => layout = "grid"

\* Beside the tab the factor has two requests, two secrets and no race.
Fewer == pc[r3] = "idle" /\ s3 \notin shown /\ ~raced

MCNext ==
  /\ \/ focus = "factor" /\ Next /\ UNCHANGED <<tab, feed, others>>
     \/ focus = "sign in" /\ SignInNext /\ Fewer' /\ UNCHANGED <<feed, others>>
     \/ focus = "feed" /\ FeedNext /\ UNCHANGED <<vars, others>>
     \/ focus = "bell" /\ BellNext /\ UNCHANGED <<vars, tab, feed, mapvars, cardvars>>
     \/ focus = "webhook" /\ CardNext /\ UNCHANGED <<vars, tab, feed, mapvars, bellvars>>
     \/ focus = "map" /\ MapNext /\ RemoteAtFar' /\ UNCHANGED <<vars, tab, feed, bellvars, cardvars>>
  /\ UNCHANGED focus

\* Timers fire, effects run, a socket that is told to close does, and one that is
\* tried again and again opens some time.
FeedFair ==
  /\ WF_feed(focus = "feed" /\ (FeedMount \/ FeedUnmount))
  /\ WF_feed(focus = "feed" /\ RetryFires)
  /\ \A s \in Slots : /\ SF_feed(focus = "feed" /\ SocketOpens(s))
                      /\ WF_feed(sockets[s] = "closing" /\ SocketCloses(s))

\* The bell's interval fires, and not every one of its reads fails.
BellFair ==
  /\ WF_bellvars(focus = "bell" /\ Tick)
  /\ \A p \in Polls : /\ SF_bellvars(focus = "bell" /\ PollAnswered(p))
                      /\ WF_bellvars(focus = "bell" /\ PollDelivered(p))

MCSpec == MCInit /\ [][MCNext]_all /\ TabFairness /\ FeedFair /\ BellFair
=============================================================================
