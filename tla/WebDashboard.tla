---------------------------- MODULE WebDashboard ----------------------------
(***************************************************************************)
(* How the page keeps up with the server (web/app.js, web/login.js): it    *)
(* loads the dashboard and one page of the history together, every three   *)
(* seconds and at every click that needs it, without waiting for the loads *)
(* under way. When the server no longer knows the browser's session (each  *)
(* process has a token of its own, api.go), the page leaves to the login   *)
(* page; a sign-in leads back.                                             *)
(*                                                                         *)
(* Both what the dashboard shows and the length of the history are a       *)
(* number here: how many jobs there have been. A password is set.          *)
(***************************************************************************)
EXTENDS Naturals, FiniteSetsExt

CONSTANTS
  Loads,     \* loads that can be under way at once
  PageSize,  \* PAGE_SIZE
  SortKeys,  \* what the history can be sorted by
  Budgets    \* bounds: how often each of the events below may happen

BudgetKinds == {"clicks", "jobs", "restarts", "losses", "tabs"}
NoToken == 0
Started == "started"

ASSUME PageSizeAssumption == PageSize \in Nat \ {0}
ASSUME SortAssumption == Started \in SortKeys
ASSUME BudgetAssumption == Budgets \subseteq [BudgetKinds -> Nat]

VARIABLES
  jobs,    \* jobs in the store
  token,   \* sessionToken of the process
  cookie,  \* the session cookie of the browser
  where,   \* the document that is open
  loads,   \* calls of loadDashboard that are not over
  page,    \* state.filter.historyPage
  sort,    \* state.sort.history
  shown,   \* state.dashboard and state.history
  pulse,   \* the mark that the server cannot be reached
  signIn,  \* the call of /auth/login
  budget

serverVars == <<jobs, token>>
pageVars == <<page, sort, shown, pulse>>
vars == <<serverVars, cookie, where, loads, pageVars, signIn, budget>>

Sorts == [key : SortKeys, direction : {"asc", "desc"}]
Parts == {"dashboard", "history"}
Requests == [phase : {"sent", "ok", "denied", "failed", "reported"}, jobs : Nat]
Sent == [phase |-> "sent", jobs |-> 0]
NoLoad == [page |-> 0]
LoadRecords == [page : Nat \ {0}, sort : Sorts, dashboard : Requests, history : Requests]

(* The numbers of jobs in the dashboard and the history, and which page of *)
(* it the rows are from; page 0 before anything is shown.                  *)
Views == [dashboard : Nat, total : Nat, page : Nat, sort : Sorts]
ByStart == [key |-> Started, direction |-> "desc"]
Blank == [dashboard |-> 0, total |-> 0, page |-> 0, sort |-> ByStart]

SignIns == [phase : {"none", "sent", "granted", "refused"}, right : BOOLEAN, token : Nat]
NoSignIn == [phase |-> "none", right |-> FALSE, token |-> NoToken]

TypeOK ==
  /\ jobs \in Nat /\ token \in Nat \ {NoToken} /\ cookie \in Nat
  /\ where \in {"opening", "app", "login"}
  /\ loads \in [Loads -> LoadRecords \cup {NoLoad}]
  /\ page \in Nat \ {0} /\ sort \in Sorts /\ shown \in Views /\ pulse \in BOOLEAN
  /\ signIn \in SignIns
  /\ budget \in [BudgetKinds -> Nat]

Spend(kind) ==
  budget[kind] > 0 /\ budget' = [budget EXCEPT ![kind] = budget[kind] - 1]

-----------------------------------------------------------------------------
(* The server.                                                             *)

Authenticated == cookie = token

NewJob ==
  /\ Spend("jobs")
  /\ jobs' = jobs + 1
  /\ UNCHANGED <<token, cookie, where, loads, pageVars, signIn>>

(* A new process draws a new token. The jobs are in the store.             *)
RestartServer ==
  /\ Spend("restarts")
  /\ token' = token + 1
  /\ UNCHANGED <<jobs, cookie, where, loads, pageVars, signIn>>

Answer(l, part) ==
  /\ loads[l] # NoLoad /\ loads[l][part].phase = "sent"
  /\ loads' = [loads EXCEPT ![l][part] =
                 IF Authenticated THEN [phase |-> "ok", jobs |-> jobs]
                 ELSE [phase |-> "denied", jobs |-> 0]]
  /\ UNCHANGED <<serverVars, cookie, where, pageVars, signIn, budget>>

Lose(l, part) ==
  /\ loads[l] # NoLoad /\ loads[l][part].phase = "sent"
  /\ Spend("losses")
  /\ loads' = [loads EXCEPT ![l][part].phase = "failed"]
  /\ UNCHANGED <<serverVars, cookie, where, pageVars, signIn>>

-----------------------------------------------------------------------------
(* The page.                                                               *)

(* Mutant: one page more when the last one is full.                        *)
PagesAndOne(total) == total \div PageSize + 1

(* Mutant: no page when there is no job.                                   *)
PagesOrNone(total) == (total + PageSize - 1) \div PageSize

PagesOf(total) == Max({1, (total + PageSize - 1) \div PageSize})
Clamped(p, total) == Min({Max({1, p}), PagesOf(total)})

NewLoad(p, s) == [page |-> p, sort |-> s, dashboard |-> Sent, history |-> Sent]
Begin(l, p, s) == loads[l] = NoLoad /\ loads' = [loads EXCEPT ![l] = NewLoad(p, s)]

(* loadDashboard, from the timer, the refresh button, or after a command.  *)
Timer(l) ==
  /\ where = "app"
  /\ Begin(l, page, sort)
  /\ UNCHANGED <<serverVars, cookie, where, pageVars, signIn, budget>>

(* A button of the pager, which has them for the pages there are.          *)
ClickPage(l, p) ==
  /\ where = "app" /\ shown.page # 0
  /\ p \in {page - 1, page + 1} /\ p \in 1 .. PagesOf(shown.total)
  /\ Spend("clicks")
  /\ page' = p
  /\ Begin(l, p, sort)
  /\ UNCHANGED <<serverVars, cookie, where, sort, shown, pulse, signIn>>

(* The head of a column: the same one again turns the direction.           *)
ClickSort(l, key) ==
  /\ where = "app"
  /\ Spend("clicks")
  /\ sort' = IF sort.key = key
             THEN [sort EXCEPT !.direction = IF @ = "asc" THEN "desc" ELSE "asc"]
             ELSE [key |-> key, direction |-> "asc"]
  /\ page' = 1
  /\ Begin(l, 1, sort')
  /\ UNCHANGED <<serverVars, cookie, where, shown, pulse, signIn>>

(* Mutant: the mark of an error is not taken back.                         *)
ShowMarked(l) ==
  /\ loads[l] # NoLoad /\ loads[l].dashboard.phase = "ok" /\ loads[l].history.phase = "ok"
  /\ shown' = [dashboard |-> loads[l].dashboard.jobs, total |-> loads[l].history.jobs,
               page |-> loads[l].page, sort |-> loads[l].sort]
  /\ page' = Clamped(page, loads[l].history.jobs)
  /\ loads' = [loads EXCEPT ![l] = NoLoad]
  /\ UNCHANGED <<serverVars, cookie, where, sort, pulse, signIn, budget>>

(* Both answers are there, of whatever load: they are shown, and the       *)
(* selected page is one of those there are.                                *)
Show(l) ==
  /\ loads[l] # NoLoad /\ loads[l].dashboard.phase = "ok" /\ loads[l].history.phase = "ok"
  /\ shown' = [dashboard |-> loads[l].dashboard.jobs, total |-> loads[l].history.jobs,
               page |-> loads[l].page, sort |-> loads[l].sort]
  /\ page' = Clamped(page, loads[l].history.jobs)
  /\ pulse' = FALSE
  /\ loads' = [loads EXCEPT ![l] = NoLoad]
  /\ UNCHANGED <<serverVars, cookie, where, sort, signIn, budget>>

(* The first request that fails ends the load; the other one goes on.      *)
ShowError(l, part) ==
  /\ loads[l] # NoLoad /\ loads[l][part].phase = "failed"
  /\ \A other \in Parts : loads[l][other].phase # "reported"
  /\ pulse' = TRUE
  /\ loads' = [loads EXCEPT ![l][part].phase = "reported"]
  /\ UNCHANGED <<serverVars, cookie, where, page, sort, shown, signIn, budget>>

Ignore(l) ==
  /\ loads[l] # NoLoad
  /\ \E part, other \in Parts : /\ part # other /\ loads[l][part].phase = "reported"
                                /\ loads[l][other].phase \in {"ok", "failed"}
  /\ loads' = [loads EXCEPT ![l] = NoLoad]
  /\ UNCHANGED <<serverVars, cookie, where, pageVars, signIn, budget>>

(* Another document: what this one knew and waited for is gone.            *)
GoTo(document) ==
  /\ where' = document
  /\ loads' = [l \in Loads |-> NoLoad]
  /\ page' = 1 /\ sort' = ByStart /\ shown' = Blank /\ pulse' = FALSE
  /\ signIn' = NoSignIn

(* Mutant: a refused request is an error like any other.                   *)
StayOnPage(l) ==
  /\ loads[l] # NoLoad /\ \E part \in Parts : loads[l][part].phase = "denied"
  /\ loads' = [loads EXCEPT ![l] = NoLoad]
  /\ pulse' = TRUE
  /\ UNCHANGED <<serverVars, cookie, where, page, sort, shown, signIn, budget>>

(* request: a 401 leads to the login page, whichever answer it is.         *)
LeavePage(l) ==
  /\ loads[l] # NoLoad /\ \E part \in Parts : loads[l][part].phase = "denied"
  /\ GoTo("login")
  /\ UNCHANGED <<serverVars, cookie, budget>>

(* The document at / is only given to a session, anyone else is sent to    *)
(* the login page. It loads at once.                                       *)
Open(l) ==
  /\ where = "opening"
  /\ where' = IF Authenticated THEN "app" ELSE "login"
  /\ IF Authenticated THEN Begin(l, page, sort) ELSE UNCHANGED loads
  /\ UNCHANGED <<serverVars, cookie, pageVars, signIn, budget>>

Reload ==
  /\ where # "opening"
  /\ Spend("tabs")
  /\ GoTo("opening")
  /\ UNCHANGED <<serverVars, cookie>>

-----------------------------------------------------------------------------
(* The login page.                                                         *)

(* The button is disabled from the submission to the answer.               *)
Submit(right) ==
  /\ where = "login" /\ signIn.phase = "none"
  /\ IF right THEN UNCHANGED budget ELSE Spend("tabs")
  /\ signIn' = [phase |-> "sent", right |-> right, token |-> NoToken]
  /\ UNCHANGED <<serverVars, cookie, where, loads, pageVars>>

(* serveLogin: the right password gets the token of this process.          *)
AnswerSignIn ==
  /\ signIn.phase = "sent"
  /\ signIn' = IF signIn.right THEN [signIn EXCEPT !.phase = "granted", !.token = token]
               ELSE [signIn EXCEPT !.phase = "refused"]
  /\ UNCHANGED <<serverVars, cookie, where, loads, pageVars, budget>>

LoseSignIn ==
  /\ signIn.phase = "sent"
  /\ Spend("losses")
  /\ signIn' = [signIn EXCEPT !.phase = "refused"]
  /\ UNCHANGED <<serverVars, cookie, where, loads, pageVars>>

(* Mutant: a cookie that is there is kept.                                 *)
SignedInAsBefore ==
  /\ signIn.phase = "granted"
  /\ cookie' = IF cookie = NoToken THEN signIn.token ELSE cookie
  /\ GoTo("opening")
  /\ UNCHANGED <<serverVars, budget>>

(* The cookie is in the answer; the page goes to /.                        *)
SignedIn ==
  /\ signIn.phase = "granted"
  /\ cookie' = signIn.token
  /\ GoTo("opening")
  /\ UNCHANGED <<serverVars, budget>>

(* An error is shown and the button enabled.                               *)
SignInRefused ==
  /\ signIn.phase = "refused"
  /\ signIn' = NoSignIn
  /\ UNCHANGED <<serverVars, cookie, where, loads, pageVars, budget>>

(* Other tabs of the browser share the cookie: one signs in or out.        *)
OtherTab ==
  /\ Spend("tabs")
  /\ cookie' \in {token, NoToken}
  /\ UNCHANGED <<serverVars, where, loads, pageVars, signIn>>

-----------------------------------------------------------------------------
Init ==
  /\ jobs \in {0, PageSize} /\ token = 1
  /\ cookie \in {NoToken, token}
  /\ where = "opening"
  /\ loads = [l \in Loads |-> NoLoad]
  /\ page = 1 /\ sort = ByStart /\ shown = Blank /\ pulse = FALSE
  /\ signIn = NoSignIn
  /\ budget \in Budgets

LoadNext(l) ==
  \/ Timer(l) \/ Open(l) \/ Show(l) \/ Ignore(l) \/ LeavePage(l)
  \/ \E p \in {page - 1, page + 1} : ClickPage(l, p)
  \/ \E key \in SortKeys : ClickSort(l, key)
  \/ \E part \in Parts : Answer(l, part) \/ Lose(l, part) \/ ShowError(l, part)

SignInNext ==
  \/ \E right \in BOOLEAN : Submit(right)
  \/ AnswerSignIn \/ LoseSignIn \/ SignedIn \/ SignInRefused

Next ==
  \/ \E l \in Loads : LoadNext(l)
  \/ SignInNext
  \/ NewJob \/ RestartServer \/ Reload \/ OtherTab

(* The timer goes on, what was asked is answered and what was answered     *)
(* arrives; a user at the login page tries the right password in the end.  *)
Fairness ==
  /\ WF_vars(\E l \in Loads : Timer(l)) /\ WF_vars(\E l \in Loads : Open(l))
  /\ \A l \in Loads : /\ WF_vars(Show(l)) /\ WF_vars(Ignore(l)) /\ WF_vars(LeavePage(l))
                      /\ \A part \in Parts : /\ WF_vars(Answer(l, part))
                                             /\ WF_vars(ShowError(l, part))
  /\ WF_vars(Submit(TRUE)) /\ WF_vars(AnswerSignIn)
  /\ WF_vars(SignedIn) /\ WF_vars(SignInRefused)

Spec == Init /\ [][Next]_vars /\ Fairness

-----------------------------------------------------------------------------
(* Properties.                                                             *)

(* The number of pages of so many jobs, rounded up, one at least.          *)
Needed(total) == CHOOSE k \in 1 .. total + 1 :
  (total = 0 /\ k = 1) \/ ((k - 1) * PageSize < total /\ total <= k * PageSize)

(* No load asks for, and the page never shows, a page of the history that  *)
(* does not exist: an empty table while there are runs. The pager is made  *)
(* from an earlier answer than the one a click leads to, and answers come  *)
(* in any order (app.js 524-528, 657-675, 1362-1368).                      *)
HistoryPageExists ==
  /\ \A l \in Loads : loads[l] # NoLoad => loads[l].page <= Needed(jobs)
  /\ shown.page <= Needed(shown.total)

(* When clicks, jobs, restarts and losses come to an end, the page ends up *)
(* with the newest dashboard, the selected page of the history in the      *)
(* selected order and no error mark, whatever was under way                *)
(* (app.js 61-71, 657-686, 1324-1334, 1434).                               *)
ShowsNewestAsSelected ==
  <>[](/\ shown = [dashboard |-> jobs, total |-> jobs, page |-> page, sort |-> sort]
       /\ ~pulse)

(* A page whose session has ended does not stay: it leaves to the login    *)
(* page, unless the browser has signed in again before it was told         *)
(* (app.js 64-67; api.go 202-231).                                         *)
EndedSessionLeaves ==
  (where = "app" /\ ~Authenticated) ~> (where # "app" \/ Authenticated)

(* The login page is left for good in the end: a wrong password, a lost    *)
(* answer or a restart between sign-in and opening the page only cost      *)
(* another try (login.js 8-27; api.go 239-270).                            *)
SignsIn == <>[](where = "app")
=============================================================================
