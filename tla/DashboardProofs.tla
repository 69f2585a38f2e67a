---------------------------- MODULE DashboardProofs ----------------------------
(***************************************************************************)
(* One key names one job, for any number of requests and jobs, and whatever *)
(* else the dashboard sends: the dashboard's steps are steps of the service *)
(* or none.  What the proof turns on is that the creator of the job is the  *)
(* only request to write the record, before anybody has been answered.     *)
(***************************************************************************)
EXTENDS Dashboard, TLAPS

USE DEF Sender, Told, Kept, Exists, WithKey

LEMMA InitSubmission == Init => SubmissionInv
BY RequestAssumption DEF Init, SubmissionInv, TypeOK, At

LEMMA LookUpInv ==
  ASSUME SubmissionInv, NEW r \in Requests, LookUp(r)
  PROVE  SubmissionInv'
<1>1. TypeOK'
  BY RequestAssumption DEF SubmissionInv, TypeOK, LookUp, Begins, At, Insert
<1>2. /\ req'[r].answer = None /\ req[r].pc = "new"
      /\ \A q \in Requests \ {r} : req'[q] = req[q]
      /\ UNCHANGED <<row, keyed, record, scheduled>>
  BY DEF SubmissionInv, TypeOK, LookUp, At
<1>3. \/ req'[r].pc \in {"schedule", "create"} /\ (record = None \/ r \in Keyless)
      \/ /\ req'[r].pc = "fetch" /\ record # None /\ r \notin Keyless
         /\ req'[r].job = record
  BY DEF SubmissionInv, TypeOK, LookUp, At, Insert
<1>4. late' = late \/ (Told # {} /\ r \notin Keyless /\ late' = late \cup {r})
  <2> HIDE DEF Told
  <2> QED BY DEF LookUp, Begins
<1>5. Told' \subseteq Told
  BY <1>2, RequestAssumption
<1> HIDE DEF LookUp
<1>6. Sender("record")' = Sender("record")
  BY <1>2, <1>3
<1>7. /\ Sender("record") \cap Keyless = {}
      /\ \A j \in keyed : row[j] # "absent"
      /\ \A q \in Sender("fetch") \cup Sender("record") : req[q].job \in keyed
      /\ Told \subseteq keyed
      /\ (\E q \in Requests \ Keyless : req[q].answer = "error") => keyed # {}
      /\ record \in keyed \cup {None}
  BY DEF SubmissionInv, TypeOK
<1>8. /\ (Sender("record") \cap Keyless = {})'
      /\ (\A j \in keyed : row[j] # "absent")'
      /\ (\A q \in Sender("fetch") \cup Sender("record") : req[q].job \in keyed)'
      /\ (Told \subseteq keyed)'
      /\ ((\E q \in Requests \ Keyless : req[q].answer = "error") => keyed # {})'
  BY <1>2, <1>3, <1>6, <1>7, <1>5, RequestAssumption
<1>9. ASSUME Kept
      PROVE  /\ Sender("record") # {} => /\ record = None /\ Told' = {} /\ late' = {}
                                         /\ Sender("fetch")' = {}
             /\ record # None => late' \subseteq (Sender("fetch")' \cup Sender("done")'
                                                \cup Sender("dead")') \ scheduled
             /\ record # None => \A q \in late' : req'[q].answer # "error"
  <2>1. /\ Sender("record") # {} => /\ record = None /\ Told = {} /\ late = {}
                                    /\ Sender("fetch") = {}
        /\ record # None => late \subseteq (Sender("fetch") \cup Sender("done")
                                           \cup Sender("dead")) \ scheduled
        /\ record # None => \A q \in late : req[q].answer # "error"
        /\ late \subseteq Requests
        /\ scheduled \cap Sender("new") = {}
    BY <1>9 DEF SubmissionInv, TypeOK
  <2> QED BY <1>2, <1>3, <1>4, <1>5, <2>1, RequestAssumption
<1>10. Kept' = Kept /\ (Kept => \A i, j \in keyed : i = j)
                  /\ (Kept => \A p, q \in Sender("record") : p = q)
  BY <1>2 DEF SubmissionInv
<1>11. (scheduled \cap Sender("new") = {})'
  BY <1>2, <1>3 DEF SubmissionInv
<1>12. (keyed = {} => late = {})'
  <2>1. keyed = {} => late = {} /\ Told = {}
    BY <1>7 DEF SubmissionInv
  <2> QED BY <1>2, <1>4, <2>1
<1> QED BY <1>1, <1>2, <1>6, <1>8, <1>9, <1>10, <1>11, <1>12 DEF SubmissionInv

LEMMA FetchInv ==
  ASSUME SubmissionInv, NEW r \in Requests, Fetch(r)
  PROVE  SubmissionInv'
<1>1. TypeOK'
  BY RequestAssumption DEF SubmissionInv, TypeOK, Fetch, At, Insert
<1> QED BY <1>1, RequestAssumption DEF SubmissionInv, TypeOK, Fetch, At, Insert

LEMMA CreateScheduleInv ==
  ASSUME SubmissionInv, NEW r \in Requests, CreateSchedule(r)
  PROVE  SubmissionInv'
<1>1. TypeOK'
  BY RequestAssumption DEF SubmissionInv, TypeOK, CreateSchedule, At
<1> QED BY <1>1, RequestAssumption DEF SubmissionInv, TypeOK, CreateSchedule, At

\* With the key, the new job is the only one that exists, and all there were are
\* deleted; without it the key's state stays as it is.
LEMMA CreateJobInv ==
  ASSUME SubmissionInv, NEW r \in Requests, NEW j \in Jobs, CreateJob(r, j)
  PROVE  SubmissionInv'
<1>1. TypeOK'
  BY RequestAssumption DEF SubmissionInv, TypeOK, CreateJob, CreateRow, At
<1>2. /\ row[j] = "absent" /\ row' = [row EXCEPT ![j] = "live"]
      /\ j \notin keyed
      /\ req[r].pc = "create"
      /\ \A q \in Requests \ {r} : req'[q] = req[q]
      /\ UNCHANGED <<record, scheduled, late>>
      /\ row \in [Jobs -> {"absent", "live", "completed", "deleted"}]
  BY DEF SubmissionInv, TypeOK, CreateJob, CreateRow
<1>3. CASE r \in Keyless
  <2>1. req'[r].pc = "done" /\ req'[r].answer # "error" /\ keyed' = keyed
    BY <1>3, RequestAssumption DEF SubmissionInv, TypeOK, CreateJob, CreateRow, At
  <2> HIDE DEF CreateJob
  <2>2. /\ Sender("record")' = Sender("record") /\ Sender("fetch")' = Sender("fetch")
        /\ Sender("new")' = Sender("new")
    BY <1>2, <2>1
  <2>3. Told' = Told
    BY <1>2, <1>3
  <2>4. Kept' = Kept /\ (\A i \in keyed : row[i] # "absent" => row'[i] # "absent")
    BY <1>2, <2>1 DEF SubmissionInv, TypeOK
  <2>5. late \subseteq Requests \ Keyless
    BY DEF SubmissionInv, TypeOK
  <2>6. \A q \in late : q \in Sender("done") \cup Sender("dead")
                       => q \in Sender("done")' \cup Sender("dead")'
    BY <1>2, <1>3, <2>5
  <2> HIDE DEF Sender, Told, Kept
  <2>7. \A q \in Sender("fetch") \cup Sender("record") : req'[q] = req[q]
    BY <1>2, <2>2 DEF Sender
  <2> QED BY <1>1, <1>2, <1>3, <2>1, <2>2, <2>3, <2>4, <2>5, <2>6, <2>7 DEF SubmissionInv
<1>4. CASE r \notin Keyless
  <2>1. /\ req'[r].pc = "record" /\ req'[r].job = j /\ req'[r].answer = None
        /\ keyed' = keyed \cup {j} /\ WithKey = {}
    BY <1>4 DEF SubmissionInv, TypeOK, CreateJob, CreateRow, At
  <2> HIDE DEF CreateJob
  <2>2. Told' \subseteq Told /\ Sender("record")' = Sender("record") \cup {r}
        /\ Sender("fetch")' = Sender("fetch")
    BY <1>2, <2>1, RequestAssumption
  <2>3. Kept' => keyed = {} /\ Kept
    BY <1>2, <2>1 DEF SubmissionInv, TypeOK
  <2>4. keyed = {} => record = None /\ Told = {} /\ Sender("record") = {} /\ Sender("fetch") = {}
    BY DEF SubmissionInv, TypeOK
  <2>5. keyed = {} => late = {}
    BY <2>4 DEF SubmissionInv
  <2> QED BY <1>1, <1>2, <1>4, <2>1, <2>2, <2>3, <2>4, <2>5 DEF SubmissionInv
<1> QED BY <1>3, <1>4

LEMMA JobRefusedInv ==
  ASSUME SubmissionInv, NEW r \in Requests, JobRefused(r)
  PROVE  SubmissionInv'
<1>1. TypeOK'
  BY RequestAssumption DEF SubmissionInv, TypeOK, JobRefused, At
<1> QED BY <1>1, RequestAssumption DEF SubmissionInv, TypeOK, JobRefused, At

LEMMA CreateRecordInv ==
  ASSUME SubmissionInv, NEW r \in Requests, CreateRecord(r)
  PROVE  SubmissionInv'
<1>1. TypeOK'
  BY RequestAssumption DEF SubmissionInv, TypeOK, CreateRecord, At
<1> QED BY <1>1, RequestAssumption DEF SubmissionInv, TypeOK, CreateRecord, At

LEMMA RecordRefusedInv ==
  ASSUME SubmissionInv, NEW r \in Requests, RecordRefused(r)
  PROVE  SubmissionInv'
<1>1. TypeOK'
  BY RequestAssumption DEF SubmissionInv, TypeOK, RecordRefused, At
<1> QED BY <1>1, RequestAssumption DEF SubmissionInv, TypeOK, RecordRefused, At

LEMMA CrashInv ==
  ASSUME SubmissionInv, NEW r \in Requests, Crash(r)
  PROVE  SubmissionInv'
<1>1. TypeOK'
  BY RequestAssumption DEF SubmissionInv, TypeOK, Crash, At
<1> QED BY <1>1, RequestAssumption DEF SubmissionInv, TypeOK, Crash, At

LEMMA RowsInv ==
  ASSUME SubmissionInv,
         RecordExpires \/ DeleteCompleted \/ \E j \in Jobs : JobCompletes(j)
  PROVE  SubmissionInv'
<1>1. CASE RecordExpires
  BY <1>1 DEF SubmissionInv, TypeOK, RecordExpires
<1>2. CASE DeleteCompleted
  <2>1. TypeOK'
    BY <1>2 DEF SubmissionInv, TypeOK, DeleteCompleted
  <2>2. /\ UNCHANGED <<keyed, record, scheduled, req, late>>
        /\ \A j \in keyed : row[j] # "absent" => row'[j] # "absent"
        /\ Kept' => Kept
    BY <1>2 DEF SubmissionInv, TypeOK, DeleteCompleted
  <2>3. \A pc : Sender(pc)' = Sender(pc)
    BY <2>2
  <2>4. Told' = Told
    BY <2>2
  <2> HIDE DEF Sender, Told, Kept
  <2> QED BY <2>1, <2>2, <2>3, <2>4 DEF SubmissionInv
<1>3. ASSUME NEW j \in Jobs, JobCompletes(j) PROVE SubmissionInv'
  BY <1>3 DEF SubmissionInv, TypeOK, JobCompletes
<1> QED BY <1>1, <1>2, <1>3

\* The invariant is inductive.
THEOREM SubmissionStep == SubmissionInv /\ [Next]_vars => SubmissionInv'
<1> SUFFICES ASSUME SubmissionInv, [Next]_vars PROVE SubmissionInv'
  OBVIOUS
<1>1. ASSUME NEW r \in Requests, Step(r) \/ Crash(r) PROVE SubmissionInv'
  BY <1>1, LookUpInv, FetchInv, CreateScheduleInv, CreateJobInv, JobRefusedInv,
     CreateRecordInv, RecordRefusedInv, CrashInv DEF Step
<1>2. CASE UNCHANGED vars
  BY <1>2 DEF vars, SubmissionInv, TypeOK
<1> QED BY <1>1, <1>2, RowsInv DEF Next

\* A step of the dashboard is a step of the service or leaves it as it is.
LEMMA DashboardStep == [DashboardNext]_dashboardVars => [Next]_vars
BY DEF DashboardNext, dashboardVars, Serve, FindProject, Poll, Refresh, ServeList, Deliver,
       DeliverRefusal, LoseList, Submit, Answer, Lose, Reload

\* The dashboard does nothing to the service that its clients may not do:
\* DashboardSpec implements the Spec of JobSubmission.
THEOREM DashboardIsClient == DashboardSpec => Spec
BY DashboardStep, PTL DEF DashboardSpec, DashboardInit, Spec

\* What createJob promises on the key holds under the dashboard, too: one key, one
\* answer.
THEOREM KeyNamesOneJob == DashboardSpec => []OneAnswer
<1>1. SubmissionInv => OneAnswer
  BY DEF SubmissionInv, TypeOK, OneAnswer
<1>2. Spec => []SubmissionInv
  BY InitSubmission, SubmissionStep, PTL DEF Spec
<1> QED BY <1>1, <1>2, DashboardIsClient, PTL

\* A request that is repeated after an answer gets the same job.
THEOREM RepeatingIsSafe == DashboardSpec => []RepeatedGetsTheJob
<1>1. SubmissionInv => RepeatedGetsTheJob
  BY DEF SubmissionInv, RepeatedGetsTheJob
<1>2. Spec => []SubmissionInv
  BY InitSubmission, SubmissionStep, PTL DEF Spec
<1> QED BY <1>1, <1>2, DashboardIsClient, PTL

-----------------------------------------------------------------------------
(* The form and the list *)

LEMMA InitForward == DashboardInit => ForwardInv
<1> SUFFICES ASSUME DashboardInit PROVE ForwardInv
  OBVIOUS
<1>1. TypeOK
  BY InitSubmission DEF DashboardInit, SubmissionInv
<1>2. \A r \in Requests : req[r].pc = "new"
  BY DEF DashboardInit, Init, At
<1> QED BY <1>1, <1>2, PageAssumption DEF DashboardInit, ForwardInv, NoBlindResubmit,
           DashboardTypeOK, ListState, FormState, NoList, NoForm, Has

\* A job's state only goes on, and a request without a key is answered with a job.
LEMMA RowsGoOn ==
  ASSUME SubmissionInv, Next
  PROVE  /\ NoLater(row, row')
         /\ \A r \in Requests \cap Keyless :
                req'[r].pc = "done" =>
                   \/ req[r].pc = "done" /\ req'[r] = req[r]
                   \/ req'[r].answer \in Jobs /\ row'[req'[r].answer] # "absent"
<1>1. NoLater(row, row')
  BY DEF SubmissionInv, TypeOK, Next, Step, Crash, LookUp, Fetch, CreateSchedule, CreateJob,
         CreateRow, JobRefused, CreateRecord, RecordRefused, RecordExpires, DeleteCompleted,
         JobCompletes, NoLater, Rank
<1>2. ASSUME NEW r \in Requests, r \in Keyless, req'[r].pc = "done"
      PROVE  \/ req[r].pc = "done" /\ req'[r] = req[r]
             \/ req'[r].answer \in Jobs /\ row'[req'[r].answer] # "absent"
  BY <1>2 DEF SubmissionInv, TypeOK, Next, Step, Crash, LookUp, Fetch, CreateSchedule, CreateJob,
         CreateRow, JobRefused, CreateRecord, RecordRefused, RecordExpires, DeleteCompleted,
         JobCompletes, At, Insert
<1> QED BY <1>1, <1>2

LEMMA NoLaterTrans ==
  ASSUME NEW a \in Snapshots, NEW b \in Snapshots, NEW c \in Snapshots
  PROVE  /\ NoLater(a, a)
         /\ NoLater(a, b) /\ NoLater(b, c) => NoLater(a, c)
         /\ \A jobs \in SUBSET Jobs : Has(a, jobs) /\ NoLater(a, b) => Has(b, jobs)
BY DEF NoLater, Has, Rank, Snapshots

LEMMA ServeInv ==
  ASSUME SubmissionInv, ForwardInv, Serve, TypeOK'
  PROVE  ForwardInv'
<1>1. DashboardTypeOK'
  BY RowsGoOn, RequestAssumption DEF ForwardInv, NoBlindResubmit, DashboardTypeOK, Serve, pageVars
<1>2. row \in Snapshots /\ row' \in Snapshots /\ NoLater(row, row') /\ shown \in SUBSET Jobs
  BY RowsGoOn DEF SubmissionInv, TypeOK, Snapshots, Serve, ForwardInv, NoBlindResubmit, DashboardTypeOK
<1>3. UNCHANGED pageVars
  BY DEF Serve
<1>4. Has(row', shown \cup {req'[r].answer : r \in Keyless \cap Sender("done")'})
  BY <1>2, RowsGoOn, RequestAssumption DEF Has, ForwardInv, NoLater, Rank, Snapshots, Serve,
     NoBlindResubmit, DashboardTypeOK
<1> QED BY <1>1, <1>2, <1>3, <1>4, NoLaterTrans DEF ForwardInv, NoBlindResubmit, pageVars

\* Steps of the list.
LEMMA ListInv ==
  ASSUME SubmissionInv, ForwardInv,
         \/ \E found \in BOOLEAN : FindProject(found)
         \/ Poll \/ Refresh \/ ServeList \/ Deliver \/ DeliverRefusal \/ LoseList
  PROVE  ForwardInv'
<1>1. /\ UNCHANGED <<vars, form, sent, untold, shown, reloads>>
      /\ project' \in {"asking", "known", "failed"}
  BY DEF FindProject, Poll, Refresh, ServeList, Deliver, DeliverRefusal, LoseList,
         ForwardInv, NoBlindResubmit, DashboardTypeOK
<1>2. row \in Snapshots /\ list \in ListState /\ TypeOK
  BY DEF SubmissionInv, TypeOK, Snapshots, ForwardInv, NoBlindResubmit, DashboardTypeOK
<1>3. \/ list' = list
      \/ \E state \in {Off, Asked, row} : list' = Fetches(state)
      \/ list.fetch \in Snapshots /\ list' = [data |-> list.fetch, fetch |-> Off]
      \/ list' = [data |-> Refusal, fetch |-> Off]
  BY DEF FindProject, Poll, Refresh, Refetched, ServeList, Deliver, DeliverRefusal, LoseList
<1>4. list' \in ListState
  BY <1>2, <1>3 DEF ListState, Fetches
<1>5. (NoBlindResubmit)'
  BY <1>1, <1>2, <1>4 DEF ForwardInv, NoBlindResubmit, DashboardTypeOK, vars, TypeOK
<1>6. /\ list'.fetch \in Snapshots => NoLater(list'.fetch, row) /\ Has(list'.fetch, shown)
      /\ list'.data \in Snapshots => NoLater(list'.data, row)
      /\ list'.data \in Snapshots /\ list'.fetch \in Snapshots => NoLater(list'.data, list'.fetch)
  <2>1. Has(row, shown)
    BY DEF ForwardInv, Has
  <2>2. NoLater(row, row)
    BY <1>2, NoLaterTrans
  <2>3. CASE list'.fetch \in Snapshots
    <3>1. list' = list \/ (list'.fetch = row /\ list'.data = list.data)
      BY <1>3, <2>3, PageAssumption DEF Fetches
    <3> QED BY <2>1, <2>2, <3>1 DEF ForwardInv
  <2>4. CASE list'.fetch \notin Snapshots
    <3>1. \/ list'.data = list.data \/ list'.data = Refusal
          \/ list.fetch \in Snapshots /\ list'.data = list.fetch
      BY <1>3 DEF Fetches
    <3> QED BY <2>4, <3>1, PageAssumption DEF ForwardInv
  <2> QED BY <2>3, <2>4
<1> QED BY <1>1, <1>5, <1>6 DEF ForwardInv, vars

\* Steps of the form, and a new page.
LEMMA FormInv ==
  ASSUME SubmissionInv, ForwardInv,
         \/ \E refused \in BOOLEAN : Answer(refused)
         \/ \E r \in Keyless : Submit(r)
         \/ Lose \/ Reload
  PROVE  ForwardInv'
<1>1. UNCHANGED vars
  BY DEF Answer, Submit, Lose, Reload
<1>2. TypeOK' /\ row \in Snapshots
  BY <1>1 DEF SubmissionInv, TypeOK, vars, Snapshots
<1>3. ASSUME NEW refused \in BOOLEAN, Answer(refused) PROVE ForwardInv'
  <2>1. /\ list' \in ListState
        /\ \/ list' = list /\ shown' = shown
           \/ list' = Fetches(Asked)
           \/ list' = list /\ list.data = None /\ shown' = shown
    BY <1>3 DEF Answer, Refetched, Fetches, ListState, ForwardInv, NoBlindResubmit, DashboardTypeOK
  <2>2. \/ shown' = shown
        \/ /\ shown' = shown \cup {req[form.waits].answer}
           /\ req[form.waits].answer \in Jobs /\ row[req[form.waits].answer] # "absent"
    BY <1>3, RequestAssumption DEF Answer, ForwardInv, NoBlindResubmit, DashboardTypeOK, Has
  <2>3. /\ form' = NoForm /\ untold' = {} /\ sent' \in {sent, sent \ {form.waits}}
        /\ UNCHANGED <<project, reloads>>
    BY <1>3 DEF Answer, ForwardInv, NoBlindResubmit, DashboardTypeOK
  <2>4. NoBlindResubmit'
    BY <1>1, <1>2, <2>1, <2>2, <2>3, PageAssumption
       DEF ForwardInv, NoBlindResubmit, DashboardTypeOK, FormState, NoForm, vars
  <2>5. /\ Has(row, shown') /\ Has(row, {req[r].answer : r \in Keyless \cap Sender("done")})
        /\ list'.fetch \in Snapshots => list' = list /\ shown' = shown
        /\ list'.data = list.data
    BY <2>1, <2>2, PageAssumption DEF ForwardInv, Has, Fetches
  <2> QED BY <1>1, <2>4, <2>5 DEF ForwardInv, Has, vars
<1>4. ASSUME NEW r \in Keyless, Submit(r) PROVE ForwardInv'
  BY <1>1, <1>2, <1>4, RequestAssumption
     DEF Submit, ForwardInv, NoBlindResubmit, DashboardTypeOK, FormState, vars
<1>5. CASE Lose
  BY <1>1, <1>2, <1>5 DEF Lose, ForwardInv, NoBlindResubmit, DashboardTypeOK, FormState, vars
<1>6. CASE Reload
  BY <1>1, <1>2, <1>6, PageAssumption
     DEF Reload, NoList, NoForm, ForwardInv, NoBlindResubmit, DashboardTypeOK, FormState,
         ListState, vars
<1> QED BY <1>3, <1>4, <1>5, <1>6

LEMMA PageStep == SubmissionInv /\ ForwardInv /\ [DashboardNext]_dashboardVars => ForwardInv'
<1> SUFFICES ASSUME SubmissionInv, ForwardInv, [DashboardNext]_dashboardVars
             PROVE  ForwardInv'
  OBVIOUS
<1>1. TypeOK'
  BY DashboardStep, SubmissionStep DEF SubmissionInv
<1>2. CASE UNCHANGED dashboardVars
  BY <1>1, <1>2 DEF dashboardVars, vars, pageVars, ForwardInv, NoBlindResubmit, DashboardTypeOK
<1> QED BY <1>1, <1>2, ServeInv, ListInv, FormInv DEF DashboardNext

LEMMA DashboardInvariant == DashboardSpec => [](SubmissionInv /\ ForwardInv)
<1>1. DashboardInit => SubmissionInv /\ ForwardInv
  BY InitSubmission, InitForward DEF DashboardInit
<1>2. SubmissionInv /\ ForwardInv /\ [DashboardNext]_dashboardVars
         => (SubmissionInv /\ ForwardInv)'
  BY PageStep, DashboardStep, SubmissionStep
<1> QED BY <1>1, <1>2, PTL DEF DashboardSpec

\* While the outcome of one of its requests is unknown the form sends no other.
THEOREM FormIsPatient == DashboardSpec => []NoBlindResubmit
<1>1. ForwardInv => NoBlindResubmit
  BY DEF ForwardInv
<1> QED BY <1>1, DashboardInvariant, PTL

\* A list that replaces another is no older and has the jobs whose creation was
\* answered before.
THEOREM ListNeverGoesBack == DashboardSpec => ListGoesForward
<1>1. SubmissionInv /\ ForwardInv /\ [DashboardNext]_dashboardVars
         => [LET new == list'.data IN
             list.data # new /\ new \in Snapshots =>
                Has(new, shown) /\ (list.data \in Snapshots => NoLater(list.data, new))]_dashboardVars
  BY PageAssumption DEF DashboardNext, dashboardVars, Serve, pageVars, FindProject, Poll, Refresh,
     Refetched, ServeList, Deliver, DeliverRefusal, LoseList, Submit, Answer, Lose, Reload,
     Fetches, NoList, ForwardInv
<1> QED BY <1>1, DashboardInvariant, PTL DEF DashboardSpec, ListGoesForward
================================================================================
