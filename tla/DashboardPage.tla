--------------------------- MODULE DashboardPage ---------------------------
(***************************************************************************)
(* The page of the dashboard (the script in src/master/dashboardHtml.ts)   *)
(* against the master it talks to: AccountDesk behind three routes, the    *)
(* worker registry, and the usage view with its forced sweep               *)
(* (leaseServer.ts, usageView.ts, workerRegistry.ts).                      *)
(*                                                                         *)
(* The page has one dialog for three flows, a poll of the usage view and a *)
(* refresh button. No answer carries the dialog it was asked from: it      *)
(* lands on whatever is open by then. Other callers of the same routes are *)
(* requests without a page behind them.                                    *)
(***************************************************************************)
EXTENDS AccountDesk

CONSTANT
    Worker      \* labels an operator may register

VARIABLES
    registered, \* the worker registry
    sweep,      \* the poller: its snapshot's instant, the last instant, a recent forced sweep
    dialog,     \* the dialog: what shows, what it refers to, what it waits for
    page,       \* the snapshot in hand, the poll and the refresh under way
    mine        \* requests this page has sent and not had an answer to

pageVars == <<registered, sweep, dialog, page, mine>>
vars == <<deskVars, pageVars>>

NoView == [at |-> 0, roster |-> {}, known |-> {}]

\* buildUsageView: the poller's snapshot over the roster and the registry of
\* this moment.
View == [at |-> sweep.at, roster |-> {a \in Account : library[a] # 0}, known |-> registered]

\* What a closed dialog still holds is reset when one opens: here, at once.
Closed == [open |-> FALSE, flow |-> "add", stage |-> "loading", pending |-> 0, pick |-> {},
           submitting |-> FALSE, deleting |-> FALSE, registering |-> FALSE]

-----------------------------------------------------------------------------
(* The dialog.                                                             *)

Shows(flow, stage) ==
    [dialog EXCEPT !.open = TRUE, !.flow = flow, !.stage = stage]

Press(r, kind, session, acct) ==
    /\ Send(r, kind, session, acct)
    /\ mine' = mine \cup {r}

BeginAdd(r) ==
    /\ ~dialog.open \/ dialog.stage = "fatal"
    /\ Press(r, "authorize", 0, {})
    /\ dialog' = [Shows("add", "loading") EXCEPT !.pending = 0, !.submitting = FALSE]
    /\ UNCHANGED <<pool, slot, keeper, desk, registered, sweep, page>>

SubmitCode(r) ==
    /\ dialog.open /\ dialog.stage = "ready"
    /\ ~dialog.submitting /\ dialog.pending # 0
    /\ Press(r, "add", dialog.pending, {})
    /\ dialog' = [dialog EXCEPT !.submitting = TRUE]
    /\ UNCHANGED <<pool, slot, keeper, desk, registered, sweep, page>>

\* The picker is built from the snapshot in hand; the operator takes a row
\* of it and retypes its label.
BeginDelete(a) ==
    /\ Event
    /\ ~dialog.open
    /\ a \in page.latest.roster
    /\ dialog' = [Shows("del", "del") EXCEPT !.pick = {a}, !.deleting = FALSE]
    /\ UNCHANGED <<pool, slot, keeper, desk, request, registered, sweep, page, mine>>

SubmitDelete(r) ==
    /\ dialog.open /\ dialog.stage = "del"
    /\ ~dialog.deleting
    /\ Press(r, "delete", 0, dialog.pick)
    /\ dialog' = [dialog EXCEPT !.deleting = TRUE]
    /\ UNCHANGED <<pool, slot, keeper, desk, registered, sweep, page>>

BeginRegister ==
    /\ Event
    /\ ~dialog.open
    /\ dialog' = [Shows("reg", "reg") EXCEPT !.registering = FALSE]
    /\ UNCHANGED <<pool, slot, keeper, desk, request, registered, sweep, page, mine>>

SubmitRegister(r) ==
    /\ dialog.open /\ dialog.stage = "reg"
    /\ ~dialog.registering
    /\ \E w \in Worker : Press(r, "register", 0, {w})
    /\ dialog' = [dialog EXCEPT !.registering = TRUE]
    /\ UNCHANGED <<pool, slot, keeper, desk, registered, sweep, page>>

\* Escape, the backdrop, a button, or the timer set by a success.
CloseDialog ==
    /\ dialog.open
    /\ dialog' = Closed
    /\ UNCHANGED <<deskVars, registered, sweep, page, mine>>

\* registered before: nothing moves; the store survives the master.
Register(r) ==
    /\ Is(r, "register", "sent")
    /\ registered' = registered \cup request[r].acct
    /\ request' = Answered(r, "ok")
    /\ UNCHANGED <<pool, slot, keeper, desk, events, sweep, dialog, page, mine>>

-----------------------------------------------------------------------------
(* The poll and the refresh button.                                        *)

\* load(): one at a time. The master answers when it likes: when it reads is
\* the moment that counts.
Asking == IF bound /\ page.loading = "no" THEN [page EXCEPT !.loading = "served", !.loaded = View] ELSE page

Load ==
    /\ bound
    /\ page.loading = "no"
    /\ page' = Asking
    /\ UNCHANGED <<deskVars, registered, sweep, dialog, mine>>

\* Never backwards, but an instant of 0 is a restarted master's honest word.
Newer(view) == view.at = 0 \/ view.at >= page.latest.at

LoadLands ==
    /\ page.loading = "served"
    /\ page' = [page EXCEPT !.loading = "no", !.loaded = NoView,
                            !.latest = IF Newer(page.loaded) THEN page.loaded ELSE @]
    /\ UNCHANGED <<deskVars, registered, sweep, dialog, mine>>

\* Mutant: the marker is reset only where an answer lands.
LoadFailsLatched ==
    /\ page.loading = "served"
    /\ Event
    /\ page' = [page EXCEPT !.loading = "failed", !.loaded = NoView]
    /\ UNCHANGED <<pool, slot, keeper, desk, request, registered, sweep, dialog, mine>>

LoadFails ==
    /\ page.loading = "served"
    /\ Event
    /\ page' = [page EXCEPT !.loading = "no", !.loaded = NoView]
    /\ UNCHANGED <<pool, slot, keeper, desk, request, registered, sweep, dialog, mine>>

\* The poller's own sweep.
Sweep ==
    /\ Event
    /\ sweep' = [sweep EXCEPT !.at = sweep.last + 1, !.last = @ + 1]
    /\ UNCHANGED <<pool, slot, keeper, desk, request, registered, dialog, page, mine>>

\* A forced sweep, unless one is recent; the poller's own may be under way,
\* and then nothing is swept and the view is the old one.
Refresh ==
    /\ Event
    /\ bound
    /\ page.sweeping = "no" /\ ~page.quiet
    /\ \/ /\ sweep.forced
          /\ page' = [page EXCEPT !.quiet = TRUE]
          /\ UNCHANGED sweep
       \/ /\ ~sweep.forced
          /\ \/ sweep' = [sweep EXCEPT !.forced = TRUE]
             \/ sweep' = [at |-> sweep.last + 1, last |-> sweep.last + 1, forced |-> TRUE]
          /\ page' = [page EXCEPT !.sweeping = "served", !.swept = [View EXCEPT !.at = sweep'.at]]
    /\ UNCHANGED <<pool, slot, keeper, desk, request, registered, dialog, mine>>

\* The refresh's payload replaces the snapshot, whatever is in hand.
RefreshLands ==
    /\ page.sweeping = "served"
    /\ page' = [page EXCEPT !.sweeping = "no", !.quiet = TRUE, !.latest = page.swept, !.swept = NoView]
    /\ UNCHANGED <<deskVars, registered, sweep, dialog, mine>>

RefreshFails ==
    /\ page.sweeping # "no"
    /\ Event
    /\ page' = [page EXCEPT !.sweeping = "no", !.swept = NoView]
    /\ UNCHANGED <<pool, slot, keeper, desk, request, registered, sweep, dialog, mine>>

QuietEnds ==
    /\ page.quiet \/ sweep.forced
    /\ page' = [page EXCEPT !.quiet = FALSE]
    /\ sweep' = [sweep EXCEPT !.forced = FALSE]
    /\ UNCHANGED <<deskVars, registered, dialog, mine>>

-----------------------------------------------------------------------------
(* Answers land on whatever dialog is there.                               *)

Succeeds == [dialog EXCEPT !.stage = "done"]

AuthorizeAnswer(r) ==
    IF request[r].result = "ok"
    THEN [dialog EXCEPT !.stage = "ready", !.pending = request[r].session]
    ELSE [dialog EXCEPT !.stage = "fatal"]

\* 410 and 502 end the session; the other refusals leave the form.
AddAnswer(r) ==
    [(IF request[r].result = "ok" THEN Succeeds
      ELSE IF request[r].result \in {"gone", "profile"} THEN [dialog EXCEPT !.stage = "fatal"]
      ELSE dialog) EXCEPT !.submitting = FALSE]

DeleteAnswer(r) ==
    [(IF request[r].result = "ok" THEN Succeeds ELSE dialog) EXCEPT !.deleting = FALSE]

RegisterAnswer(r) ==
    [(IF request[r].result = "ok" THEN Succeeds ELSE dialog) EXCEPT !.registering = FALSE]

Answer(r) ==
    IF request[r].kind = "authorize" THEN AuthorizeAnswer(r)
    ELSE IF request[r].kind = "add" THEN AddAnswer(r)
    ELSE IF request[r].kind = "delete" THEN DeleteAnswer(r)
    ELSE RegisterAnswer(r)

AnswerLands(r) ==
    /\ r \in mine
    /\ request[r].at = "answered"
    /\ mine' = mine \ {r}
    /\ dialog' = IF dialog.open THEN Answer(r) ELSE Closed
    /\ page' = IF request[r].kind # "authorize" /\ request[r].result = "ok" THEN Asking ELSE page
    /\ UNCHANGED <<deskVars, registered, sweep>>

\* Another page, or nothing but a POST.
OthersPress(r) ==
    /\ \/ Send(r, "authorize", 0, {})
       \/ \E s \in Session : s <= issued /\ Send(r, "add", s, {})
       \/ \E a \in Account : Send(r, "delete", 0, {a})
    /\ UNCHANGED <<pool, slot, keeper, desk, pageVars>>

\* The snapshot goes with the master; the registry is in its store.
MasterRestarts ==
    /\ Restart
    /\ sweep' = [sweep EXCEPT !.at = 0, !.forced = FALSE]
    /\ UNCHANGED <<registered, dialog, page, mine>>

-----------------------------------------------------------------------------
Init ==
    /\ DeskInit
    /\ registered = {}
    /\ sweep = [at |-> 0, last |-> 0, forced |-> FALSE]
    /\ dialog = Closed
    /\ page = [latest |-> NoView, loading |-> "no", loaded |-> NoView,
               sweeping |-> "no", swept |-> NoView, quiet |-> FALSE]
    /\ mine = {}

Polls == Load \/ LoadLands \/ LoadFails

Presses ==
    \/ \E r \in Req : BeginAdd(r) \/ SubmitCode(r) \/ SubmitDelete(r) \/ SubmitRegister(r)
    \/ \E a \in Account : BeginDelete(a)
    \/ BeginRegister \/ CloseDialog

Next ==
    \/ DeskStep /\ UNCHANGED pageVars
    \/ MasterRestarts
    \/ Presses
    \/ \E r \in Req : Register(r) \/ AnswerLands(r) \/ OthersPress(r)
    \/ Polls
    \/ Sweep \/ Refresh \/ RefreshLands \/ RefreshFails \/ QuietEnds

\* The page's interval never stops, the master tries to listen until it does
\* and answers what it is asked.
Spec ==
    /\ Init /\ [][Next]_vars
    /\ WF_vars(Load) /\ WF_vars(LoadLands) /\ WF_vars(Bind /\ UNCHANGED pageVars)

-----------------------------------------------------------------------------
\* When nothing moves any more, the page shows what the master would answer:
\* neither an answer that came late nor a load that failed leaves it with an
\* older snapshot or a roster that is gone.
PageCatchesUp == <>[](page.latest = View)

\* What the page says of itself (load()): the snapshot never goes backwards.
NeverBackwards ==
    [][page'.latest.at = 0 \/ page'.latest.at >= page.latest.at]_page

\* What the dialog says when it says "done" is about what was asked in it.
FlowOf == [add |-> "add", delete |-> "del", register |-> "reg"]
DoneIsOurs ==
    [][\A r \in mine \ mine' :
          (dialog.open /\ dialog.stage # "done" /\ dialog'.stage = "done") => FlowOf[request[r].kind] = dialog.flow]_vars
=============================================================================
