--------------------------- MODULE BrowserSession ---------------------------
(***************************************************************************)
(* One exploration of the browser explorer (browser/explorer.py): the      *)
(* initial addresses, then the actions that a language model chooses, in   *)
(* one browser (browser/playwright_wrapper.py, browser/wrapper.py).  The   *)
(* actions of one response of the model run at once and share the page: an *)
(* action gives way to the others at every await.                          *)
(***************************************************************************)
EXTENDS Integers, FiniteSets, Sequences

CONSTANTS
    Tabs,           \* actions the model can have in flight
    Site,           \* url -> [kind, text, blocked, refused, to], see below
    Links,          \* url -> url a click on its page leads to
    InitialUrls,    \* sequence of addresses of the goal
    MaxSteps,       \* browser_config.max_steps
    NoNewFindings,  \* no_new_findings_limit
    CheckpointInterval,
    StopChecks      \* answers the checkpoint callback may give

(* A page has a kind ("content", "consent", "verification", "short"), its  *)
(* text, whether the explorer's list blocks its address, whether the guard *)
(* of the wrapper refuses it, and the address it redirects to.             *)

ASSUME BrowserAssumption ==
    /\ MaxSteps \in Nat /\ NoNewFindings \in Nat /\ CheckpointInterval \in Nat \ {0}
    /\ StopChecks \subseteq BOOLEAN
    /\ \A url \in DOMAIN Site : Site[url].to \in DOMAIN Site
    /\ \A url \in DOMAIN Links : Links[url] \in DOMAIN Site
    /\ InitialUrls \in Seq(DOMAIN Site)
    /\ "main" \notin Tabs    \* the explorer itself, which visits the initial addresses

VARIABLES
    page,       \* the page of the browser: its url and whether its dialogue is gone
    session,    \* ExplorationState and _ExplorerToolSession
    tabs,       \* tab -> the action at work and what it holds
    opening     \* 1..n: initial address being visited; 0: the model's turn

sessionVars == <<page, session, tabs, opening>>

Nowhere == "about:blank"
Blank == [url |-> Nowhere, clear |-> FALSE]
Main == "main"

Kind(p) == IF p.url = Nowhere THEN "short" ELSE IF p.clear THEN "content" ELSE Site[p.url].kind
Text(p) == IF p.url = Nowhere THEN Nowhere ELSE Site[p.url].text

Initials == IF Len(InitialUrls) < 3 THEN Len(InitialUrls) ELSE 3

Rest == [state |-> "idle", act |-> "none", url |-> Nowhere, text |-> Nowhere]

SessionInit ==
    /\ page = Blank
    /\ session = [step |-> 0, ops |-> 0, errors |-> 0, visited |-> {}, findings |-> <<>>, stopped |-> "none"]
    /\ tabs = [t \in Tabs \cup {Main} |-> Rest]
    /\ opening = 1

\* A redirect is followed before the guard looks at where it led.
Opened(url) ==
    IF Site[url].refused THEN page ELSE [url |-> Site[url].to, clear |-> FALSE]

\* _validate_url before and after, _is_blocked_url for a navigation only.
Opens(url) == ~Site[url].refused /\ ~Site[Site[url].to].refused

\* A navigation that raises may have left the old page or not.
Interrupted(url) == {page, Opened(url)}

-----------------------------------------------------------------------------
(* The initial addresses *)

VisitInitial ==
    /\ opening \in 1..Initials
    /\ session.step < MaxSteps
    /\ tabs[Main].state = "idle"
    /\ page' \in Interrupted(InitialUrls[opening])
    /\ session' = [session EXCEPT !.step = @ + 1, !.ops = @ + 1]
    /\ tabs' = [tabs EXCEPT ![Main] = [Rest EXCEPT !.state = "opened", !.act = "initial"]]
    /\ UNCHANGED opening

InitialsEnd ==
    /\ opening > 0
    /\ tabs[Main].state = "idle"
    /\ opening > Initials \/ session.step >= MaxSteps
    /\ opening' = 0
    /\ UNCHANGED <<page, session, tabs>>

-----------------------------------------------------------------------------
(* The actions of the model *)

\* Mutant: whether the session was stopped is not looked at again.
MayActStopped == session.step < MaxSteps

MayAct == session.stopped = "none" /\ session.step < MaxSteps

Acts == {"search", "navigate", "click", "scroll"}

\* execute: a call of the tool is counted before its first await.
StartAction(t) ==
    /\ opening = 0
    /\ tabs[t].state = "idle"
    /\ MayAct
    /\ session' = [session EXCEPT !.step = @ + 1, !.ops = @ + 1]
    /\ \E act \in Acts, url \in DOMAIN Site :
           /\ act \in {"click", "scroll"} => url = page.url
           /\ tabs' = [tabs EXCEPT ![t] = [Rest EXCEPT !.state = "acting", !.act = act, !.url = url]]
    /\ UNCHANGED <<page, opening>>

StopChosen(t) ==
    /\ opening = 0
    /\ tabs[t].state = "idle"
    /\ session.stopped = "none"
    /\ session' = [session EXCEPT !.stopped = "model_finished"]
    /\ UNCHANGED <<page, tabs, opening>>

LimitSeen(t) ==
    /\ opening = 0
    /\ tabs[t].state = "idle"
    /\ session.stopped = "none"
    /\ session.step >= MaxSteps
    /\ session' = [session EXCEPT !.stopped = "step_limit"]
    /\ UNCHANGED <<page, tabs, opening>>

\* _execute_action; a navigation is awaited and lands when it lands, and a
\* navigation, a click or a scroll may fail.
Act(t) ==
    LET a == tabs[t]
        Land(done, where) ==
            /\ page' = where
            /\ session' = IF done THEN session ELSE [session EXCEPT !.errors = @ + 1]
            /\ tabs' = [tabs EXCEPT ![t].state = "opened"]
    IN  /\ a.state = "acting"
        /\ CASE a.act = "navigate" /\ Site[a.url].blocked -> Land(FALSE, page)
             [] a.act \in {"search", "navigate"} /\ ~(a.act = "navigate" /\ Site[a.url].blocked) ->
                    \/ Land(Opens(a.url), Opened(a.url))
                    \/ \E where \in Interrupted(a.url) : Land(FALSE, where)
             [] a.act = "click" /\ page.url \in DOMAIN Links ->
                    \/ Land(TRUE, [url |-> Links[page.url], clear |-> FALSE])
                    \/ Land(FALSE, page)
             [] OTHER -> \E done \in BOOLEAN : Land(done, page)
        /\ UNCHANGED opening

-----------------------------------------------------------------------------
(* What every action does next *)

\* _handle_consent_page: a dialogue is clicked away, if that succeeds.
Dismissed(p) == IF Kind(p) = "consent" THEN {p, [p EXCEPT !.clear = TRUE]} ELSE {p}

Settle(t) ==
    /\ tabs[t].state = "opened"
    /\ page' \in Dismissed(page)
    /\ tabs' = [tabs EXCEPT ![t].state = "settled"]
    /\ UNCHANGED <<session, opening>>

Known(text) == \E i \in DOMAIN session.findings : session.findings[i].text = text

\* The end of execute: the policies, after an action of the model only.
StopReason(s) ==
    IF s.step >= MaxSteps THEN {"step_limit"}
    ELSE IF s.ops >= 5 /\ 2 * s.errors > s.ops THEN {"blocked"}
    ELSE IF s.step - Len(s.findings) >= NoNewFindings THEN {"enough_evidence"}
    ELSE IF s.step % CheckpointInterval = 0 THEN {IF go THEN s.stopped ELSE "checkpoint" : go \in StopChecks}
    ELSE {s.stopped}

Ended(t, s) ==
    /\ tabs' = [tabs EXCEPT ![t] = Rest]
    /\ IF t = Main
       THEN /\ session' = s
            /\ opening' = opening + 1
       ELSE /\ \E reason \in StopReason(s) : session' = [s EXCEPT !.stopped = reason]
            /\ UNCHANGED opening

\* _process_page up to its first await: the page that is there now, whichever
\* action brought it.
Looked == IF page.url = Nowhere THEN session ELSE [session EXCEPT !.visited = @ \cup {page.url}]

Skip(t) ==
    /\ tabs[t].state = "settled"
    /\ \/ tabs[t].act = "search" /\ Ended(t, session)
       \/ /\ tabs[t].act # "search"
          /\ Kind(page) \in {"short", "verification"} \/ (Kind(page) = "content" /\ Known(Text(page)))
          /\ Ended(t, Looked)
    /\ UNCHANGED page

LookAtPage(t) ==
    /\ tabs[t].state = "settled"
    /\ tabs[t].act # "search"
    /\ \/ /\ Kind(page) = "content"
          /\ ~Known(Text(page))
          /\ tabs' = [tabs EXCEPT ![t] = [@ EXCEPT !.state = "summing", !.url = page.url, !.text = Text(page)]]
          /\ UNCHANGED page
       \/ /\ Kind(page) = "consent"
          /\ page' \in Dismissed(page)
          /\ tabs' = [tabs EXCEPT ![t] =
                 [@ EXCEPT !.state = "again", !.url = page.url, !.text = Text(page)]]
    /\ session' = Looked
    /\ UNCHANGED opening

\* The dialogue was clicked away or not: the address is the one that was read
\* before, the text the one of the page that is there now.
LookAgain(t) ==
    /\ tabs[t].state = "again"
    /\ IF Known(Text(page)) \/ Kind(page) = "short"
       THEN Ended(t, session)
       ELSE /\ tabs' = [tabs EXCEPT ![t] = [@ EXCEPT !.state = "summing", !.text = Text(page)]]
            /\ UNCHANGED <<session, opening>>
    /\ UNCHANGED page

Found(t) ==
    Append(session.findings, [url |-> tabs[t].url, text |-> tabs[t].text])

\* After summarize: the finding is near one of the last, or is kept.
Record(t) ==
    /\ tabs[t].state = "summing"
    /\ \/ Ended(t, [session EXCEPT !.findings = Found(t)])
       \/ session.findings # <<>> /\ Ended(t, session)
    /\ UNCHANGED page

\* The model's run is over, by its answer or by its limits, and with it the
\* exploration; what is in flight ends first.
Finished == opening = 0 /\ \A t \in Tabs \cup {Main} : tabs[t].state = "idle"

SessionNext ==
    \/ VisitInitial
    \/ InitialsEnd
    \/ \E t \in Tabs : StartAction(t) \/ StopChosen(t) \/ LimitSeen(t) \/ Act(t)
    \/ \E t \in Tabs \cup {Main} : Settle(t) \/ Skip(t) \/ LookAtPage(t) \/ LookAgain(t) \/ Record(t)

SessionSpec == SessionInit /\ [][SessionNext]_sessionVars

SessionTypeOK ==
    /\ page.url \in {Nowhere} \cup DOMAIN Site
    /\ session.step \in Nat /\ session.errors <= session.ops
    /\ session.visited \subseteq DOMAIN Site
    /\ opening \in 0..(Initials + 1)

-----------------------------------------------------------------------------
(* However the actions of one response overlap: no more steps than the     *)
(* limit, no more findings than steps (which the policy subtracts from one *)
(* another), and every finding of a visited address.                       *)
BrowsingIsBounded ==
    /\ session.step <= MaxSteps
    /\ Len(session.findings) <= session.step
    /\ \A i \in DOMAIN session.findings : session.findings[i].url \in session.visited

\* A stopped session starts nothing more.
StopIsFinal ==
    session.stopped # "none" => session'.step = session.step /\ session'.stopped # "none"

\* What every step of a session keeps.
BrowsingHolds == BrowsingIsBounded' /\ StopIsFinal
=============================================================================
