------------------------------- MODULE Dashboard -------------------------------
(***************************************************************************)
(* One browser tab on the Job Explorer, and the service it talks to.  The  *)
(* page finds its project, lists the jobs through react-query, again every *)
(* five seconds and whenever it is told to, and creates jobs with a form   *)
(* whose requests carry no Idempotency-Key.  Requests may reach the        *)
(* service late or never, and answers may get lost; an answer that refuses *)
(* (no token, too many requests) is data like any other to the client.     *)
(***************************************************************************)
EXTENDS JobSubmission

CONSTANTS
    Reloads,             \* bound: how often the user loads the page again
    Off, Asked, Refusal  \* what the query may have instead of a list

Snapshots == [Jobs -> {"absent", "live", "completed", "deleted"}]

ASSUME PageAssumption ==
    /\ Reloads \in Nat
    /\ {None, Off, Asked, Refusal} \cap Snapshots = {}
    /\ None \notin {Refusal} \cup Requests

VARIABLES
    project,  \* asking, known, or failed: it is not asked for again
    list,     \* the query's data and its fetch
    form,     \* CreateJobModal
    sent,     \* requests the form has sent
    untold,   \* history: those, since the page was loaded, whose outcome the
              \* form has not seen
    shown,    \* history: jobs whose creation it saw while a list was there
    reloads   \* how often the page was loaded again

pageVars == <<project, list, form, sent, untold, shown, reloads>>
dashboardVars == <<vars, pageVars>>

\* data: what is on the screen; fetch: off, asked, or the answer on its way.
ListState ==
    [data : Snapshots \cup {None, Refusal}, fetch : Snapshots \cup {Off, Asked}]
FormState == [loading : BOOLEAN, waits : Requests \cup {None}]

NoList == [data |-> None, fetch |-> Off]
\* The fetch is off, asked, or has an answer.
Fetches(state) == [data |-> list.data, fetch |-> state]

NoForm == [loading |-> FALSE, waits |-> None]

DashboardInit ==
    /\ Init
    /\ project = "asking"
    /\ list = NoList
    /\ form = NoForm
    /\ sent = {}
    /\ untold = {}
    /\ shown = {}
    /\ reloads = 0

-----------------------------------------------------------------------------
(* The list: useQuery *)

\* initProject; a refusal leaves the page without a project for good.
FindProject(found) ==
    /\ project = "asking"
    /\ project' = IF found THEN "known" ELSE "failed"
    /\ list' = IF found THEN Fetches(Asked) ELSE list
    /\ UNCHANGED <<vars, form, sent, untold, shown, reloads>>

Fetching == list.fetch # Off

\* Faulty variant: refetch never cancels the fetch that is under way.
RefetchedJoining == IF Fetching THEN list ELSE Fetches(Asked)

\* refetch: a fetch under way is cancelled and repeated, but if nothing was
\* fetched before, its answer is awaited.
Refetched ==
    IF Fetching /\ list.data = None THEN list ELSE Fetches(Asked)

\* Faulty variant: no refetchInterval, the list is fetched again if that failed.
PollOnce ==
    /\ project = "known"
    /\ ~Fetching /\ list.data \in {None, Refusal}
    /\ list' = Fetches(Asked)
    /\ UNCHANGED <<vars, project, form, sent, untold, shown, reloads>>

\* refetchInterval does not disturb a fetch that is under way.
Poll ==
    /\ project = "known"
    /\ ~Fetching
    /\ list' = Fetches(Asked)
    /\ UNCHANGED <<vars, project, form, sent, untold, shown, reloads>>

\* The refresh button and the r key.
Refresh ==
    /\ project = "known"
    /\ list' = Refetched
    /\ UNCHANGED <<vars, project, form, sent, untold, shown, reloads>>

\* GET .../jobs
ServeList ==
    /\ list.fetch = Asked
    /\ list' = Fetches(row)
    /\ UNCHANGED <<vars, project, form, sent, untold, shown, reloads>>

Deliver ==
    /\ list.fetch \in Snapshots
    /\ list' = [data |-> list.fetch, fetch |-> Off]
    /\ UNCHANGED <<vars, project, form, sent, untold, shown, reloads>>

\* The page shows an empty list.
DeliverRefusal ==
    /\ list.fetch = Asked
    /\ list' = [data |-> Refusal, fetch |-> Off]
    /\ UNCHANGED <<vars, project, form, sent, untold, shown, reloads>>

\* The fetch and its retry fail; what is on the screen stays.
LoseList ==
    /\ Fetching
    /\ list' = Fetches(Off)
    /\ UNCHANGED <<vars, project, form, sent, untold, shown, reloads>>

-----------------------------------------------------------------------------
(* The form: CreateJobModal *)

\* The button is disabled while the form is loading; to close the dialogue and
\* open it again does not change that.
Submit(r) ==
    /\ project = "known"
    /\ ~form.loading
    /\ r \in Keyless \ sent
    /\ sent' = sent \cup {r}
    /\ untold' = untold \cup {r}
    /\ form' = [loading |-> TRUE, waits |-> r]
    /\ UNCHANGED <<vars, project, list, shown, reloads>>

\* An error is shown in the form; on success the list is fetched again.  What is
\* refused never got to createJob: the request might as well be sent next time.
Answer(refused) ==
    LET r == form.waits IN
    /\ r # None
    /\ req[r].pc = IF refused THEN "new" ELSE "done"
    /\ form' = NoForm
    /\ list' = IF refused THEN list ELSE Refetched
    /\ sent' = IF refused THEN sent \ {r} ELSE sent
    /\ untold' = untold \ {r}
    /\ shown' = IF refused \/ list.data = None THEN shown ELSE shown \cup {req[r].answer}
    /\ UNCHANGED <<vars, project, reloads>>

\* Faulty variant: the button is enabled again whatever happens.
LoseFinally ==
    /\ form.waits # None
    /\ form' = NoForm
    /\ UNCHANGED <<vars, project, list, sent, untold, shown, reloads>>

\* fetch rejects: nothing resets loading.
Lose ==
    /\ form.waits # None
    /\ form' = [loading |-> form.loading, waits |-> None]
    /\ UNCHANGED <<vars, project, list, sent, untold, shown, reloads>>

Reload ==
    /\ reloads < Reloads
    /\ reloads' = reloads + 1
    /\ project' = "asking"
    /\ list' = NoList
    /\ form' = NoForm
    /\ untold' = {}
    /\ UNCHANGED <<vars, sent, shown>>

-----------------------------------------------------------------------------
\* The service: the form's requests arrive once they are sent, if at all.
Serve ==
    /\ Next
    /\ \A r \in Keyless \ sent : req'[r] = req[r]
    /\ UNCHANGED pageVars

DashboardNext ==
    \/ Serve
    \/ \E found \in BOOLEAN : FindProject(found)
    \/ Poll \/ Refresh \/ ServeList \/ Deliver \/ DeliverRefusal \/ LoseList
    \/ \E refused \in BOOLEAN : Answer(refused)
    \/ \E r \in Keyless : Submit(r)
    \/ Lose \/ Reload

\* The timer of the query runs, and a fetch ends one way or the other.  If fetches
\* are refused, lost or cancelled again and again, some of them are not.
Fairness ==
    /\ WF_dashboardVars(Poll \/ Deliver \/ LoseList \/ \E found \in BOOLEAN : FindProject(found))
    /\ SF_dashboardVars(ServeList)
    /\ SF_dashboardVars(Deliver)

DashboardSpec == DashboardInit /\ [][DashboardNext]_dashboardVars /\ Fairness

-----------------------------------------------------------------------------
(* Properties *)

DashboardTypeOK ==
    /\ TypeOK
    /\ project \in {"asking", "known", "failed"}
    /\ list \in ListState
    /\ form \in FormState
    /\ untold \subseteq sent /\ sent \subseteq Keyless
    /\ shown \subseteq Jobs
    /\ reloads \in 0 .. Reloads
    /\ form.waits # None => form.loading /\ form.waits \in untold
    /\ \A r \in Keyless \cap Sender("done") : req[r].answer \in Jobs

\* Nothing but the button of a loading form keeps a user from creating a job
\* twice: as long as the page is not loaded again the form sends no request
\* while the outcome of another is unknown, be it under way or lost for good.
NoBlindResubmit ==
    /\ DashboardTypeOK
    /\ \A r \in untold : form.loading /\ untold = {r}

Rank(state) == CASE state = "absent" -> 0 [] state = "live" -> 1
                 [] state = "completed" -> 2 [] state = "deleted" -> 3

NoLater(a, b) == \A j \in Jobs : Rank(a[j]) <= Rank(b[j])
Has(answer, jobs) == \A j \in jobs : answer[j] # "absent"

\* What is shown is no later than what is on its way, that no later than the rows,
\* and what is on its way has the jobs the user knows to be created.
ForwardInv ==
    /\ NoBlindResubmit
    /\ Has(row, shown \cup {req[r].answer : r \in Keyless \cap Sender("done")})
    /\ list.fetch \in Snapshots => NoLater(list.fetch, row) /\ Has(list.fetch, shown)
    /\ list.data \in Snapshots => NoLater(list.data, row)
    /\ list.data \in Snapshots /\ list.fetch \in Snapshots => NoLater(list.data, list.fetch)

\* The list never goes back, although timer, user and form fetch it at any
\* time: a new list has no earlier state of a job than the one before, and it
\* has every job whose creation was answered while a list was there.
ListGoesForward ==
    [][LET new == list'.data IN
       list.data # new /\ new \in Snapshots =>
          Has(new, shown) /\ (list.data \in Snapshots => NoLater(list.data, new))]_dashboardVars

\* The end of every job appears on the screen without the user's help, unless
\* the page did not find its project: again and again the list is up to date.
UpToDate ==
    /\ list.data \in Snapshots
    /\ \A j \in Jobs : row[j] = "completed" => list.data[j] = "completed"

ListCatchesUp == []<>(UpToDate \/ project = "failed")
================================================================================
