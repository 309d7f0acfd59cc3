------------------------------- MODULE Dashboard ------------------------------
(***************************************************************************)
(* The web dashboard and the routes it reads: App.tsx, Dashboard.tsx and   *)
(* JobsList.tsx poll GET /stats and GET /jobs of routes.ts.  A page's      *)
(* requests overlap, outlive the tab they were sent for, fail, and are     *)
(* answered in any order, while the lists change: the queue is modelled    *)
(* here only by what its other parts do to a waiting and a dead list.      *)
(***************************************************************************)
EXTENDS Naturals, Sequences

CONSTANTS
    Jobs,
    Slots,       \* bound: requests under way at a time
    PageSize,    \* "limit" of GET /jobs
    MaxMoves,    \* bound: changes to the lists
    MaxClicks,   \* bound: navigations and tabs selected
    MaxFailures, \* bound: requests or answers lost
    Unknown      \* stats before the first answer

ASSUME DashboardAssumption ==
    /\ PageSize \in Nat \ {0}
    /\ MaxMoves \in Nat
    /\ MaxClicks \in Nat
    /\ MaxFailures \in Nat
    /\ Unknown \notin Nat

VARIABLES
    list,      \* the lists in Redis, newest first
    job,       \* the job hashes: absent, without data, or the status in them
    gauge,     \* distri_queue_depth, all queues together
    page,      \* the route of App.tsx that is mounted
    tab,       \* JobsList: filter
    rows,      \* JobsList: jobs
    stats,     \* Dashboard: stats, the depths summed up
    loading,   \* of the page that is mounted
    intervals, \* what setInterval polls for the mounted page
    fetch,     \* the requests under way
    posts,     \* retry requests under way for each job: sent, and past the check
    moves, clicks, failures,
    totals     \* history: depths there have been

storeVars == <<list, job, posts, moves, totals>>
viewVars  == <<page, tab, rows, stats, loading, intervals, clicks>>
netVars   == <<fetch, gauge, failures>>
vars      == <<storeVars, viewVars, netVars>>

Tabs  == {"waiting", "dead"}
Pages == {"landing", "overview", "register"}

Row == [id : Jobs, status : {"waiting", "active", "dead"}]

Free == [stage |-> "free", of |-> "overview", ids |-> <<>>, reply |-> Unknown,
         live |-> FALSE]

TypeOK ==
    /\ list \in [Tabs -> Seq(Jobs)]
    /\ job \in [Jobs -> {"absent", "partial", "waiting", "active", "dead"}]
    /\ gauge \in Nat
    /\ page \in Pages
    /\ tab \in Tabs
    /\ rows \in Seq(Row)
    /\ stats \in Nat \cup {Unknown}
    /\ loading \in BOOLEAN
    /\ intervals \subseteq Tabs \cup {"overview"}
    /\ \A f \in Slots :
          /\ fetch[f].stage \in {"free", "sent", "listed", "answered", "failed"}
          /\ fetch[f].of \in Tabs \cup {"overview"}
          /\ fetch[f].ids \in Seq(Jobs)
          /\ fetch[f].stage = "answered" =>
                fetch[f].reply \in IF fetch[f].of = "overview" THEN Nat ELSE Seq(Row)
    /\ posts \in [Jobs -> [sent : Nat, passed : Nat]]
    /\ moves \in 0 .. MaxMoves
    /\ clicks \in 0 .. MaxClicks
    /\ failures \in 0 .. MaxFailures
    /\ totals \subseteq Nat

Total == Len(list["waiting"]) + Len(list["dead"])

Init ==
    /\ list = [t \in Tabs |-> <<>>]
    /\ job = [j \in Jobs |-> "absent"]
    /\ gauge = 0
    /\ page = "landing"
    /\ tab = "waiting"
    /\ rows = <<>>
    /\ stats = Unknown
    /\ loading = FALSE
    /\ intervals = {}
    /\ fetch = [f \in Slots |-> Free]
    /\ posts = [j \in Jobs |-> [sent |-> 0, passed |-> 0]]
    /\ moves = 0
    /\ clicks = 0
    /\ failures = 0
    /\ totals = {0}

-------------------------------------------------------------------------------
(* What of s is in S, in its order.  (SequencesExt and SelectSeq offer the *)
(* same; of their definitions nothing can be proved here.)                 *)
Kept(s, S) ==
    LET kept[n \in 0 .. Len(s)] ==
            IF n = 0 THEN <<>>
            ELSE IF s[n] \in S THEN Append(kept[n - 1], s[n]) ELSE kept[n - 1]
    IN  kept

Only(s, S) == Kept(s, S)[Len(s)]

-------------------------------------------------------------------------------
(* What the rest of the system does to the lists, command by command where *)
(* a list or a hash changes.                                               *)

Move ==
    /\ moves < MaxMoves
    /\ moves' = moves + 1
    /\ totals' = totals \cup {Total'}
    /\ UNCHANGED <<viewVars, netVars>>

Push(t, j) == list' = [list EXCEPT ![t] = <<j>> \o @]

InLists(j) == \E t \in Tabs : \E i \in DOMAIN list[t] : list[t][i] = j

(* enqueue *)
Arrive(j) ==
    /\ job[j] = "absent"
    /\ ~InLists(j)
    /\ job' = [job EXCEPT ![j] = "waiting"]
    /\ Push("waiting", j)
    /\ UNCHANGED posts
    /\ Move

(* RPOPLPUSH, and the write of a worker that can read the hash *)
Take(j) ==
    /\ list["waiting"] # <<>>
    /\ list["waiting"][Len(list["waiting"])] = j
    /\ list' = [list EXCEPT !["waiting"] = SubSeq(@, 1, Len(@) - 1)]
    /\ job' = [job EXCEPT ![j] = IF @ \in {"absent", "partial"} THEN @ ELSE "active"]
    /\ UNCHANGED posts
    /\ Move

Bury(j) ==
    /\ job[j] = "active"
    /\ job' = [job EXCEPT ![j] = "dead"]
    /\ Push("dead", j)
    /\ UNCHANGED posts
    /\ Move

(* Redis evicts the hash; a later HSET makes one without data. *)
Evict(j) ==
    /\ job[j] # "absent"
    /\ job' = [job EXCEPT ![j] = "absent"]
    /\ UNCHANGED <<list, posts>>
    /\ Move

Remake(j) ==
    /\ job[j] = "absent"
    /\ InLists(j)
    /\ job' = [job EXCEPT ![j] = "partial"]
    /\ UNCHANGED <<list, posts>>
    /\ Move

(* POST /jobs/:id/retry, sent from a row: the check, then the MULTI. *)
Check(j) ==
    /\ posts[j].sent > 0
    /\ posts' = [posts EXCEPT ![j] = [sent   |-> @.sent - 1,
                                      passed |-> @.passed + IF job[j] = "dead" THEN 1 ELSE 0]]
    /\ UNCHANGED <<list, job, moves, totals, viewVars, netVars>>

Retry(j) ==
    /\ posts[j].passed > 0
    /\ posts' = [posts EXCEPT ![j].passed = @ - 1]
    /\ list' = [waiting |-> <<j>> \o list["waiting"],
                dead    |-> Only(list["dead"], Jobs \ {j})]
    /\ job' = [job EXCEPT ![j] = IF @ \in {"absent", "partial"} THEN "partial"
                                                                ELSE "waiting"]
    /\ totals' = totals \cup {Total'}
    /\ UNCHANGED <<moves, viewVars, netVars>>

-------------------------------------------------------------------------------
(* GET /jobs and GET /stats. *)

Page(s) == SubSeq(s, 1, IF Len(s) < PageSize THEN Len(s) ELSE PageSize)

(* JSON.parse throws on a hash without data, for the whole list. *)
Readable(ids) == \A i \in DOMAIN ids : job[ids[i]] # "partial"

Rows(ids) ==
    LET there == Only(ids, {j \in Jobs : job[j] # "absent"})
    IN  [i \in DOMAIN there |-> [id |-> there[i], status |-> job[there[i]]]]

Advance(f, stage, ids, reply) ==
    fetch' = [fetch EXCEPT ![f].stage = stage, ![f].ids = ids, ![f].reply = reply]

ReadIds(f) ==
    /\ fetch[f].stage = "sent"
    /\ fetch[f].of \in Tabs
    /\ LET ids == Page(list[fetch[f].of])
       IN  Advance(f, IF ids = <<>> THEN "answered" ELSE "listed", ids,
                   IF ids = <<>> THEN <<>> ELSE Unknown)
    /\ UNCHANGED <<storeVars, viewVars, gauge, failures>>

ReadHashesUnparsed(f) ==
    /\ fetch[f].stage = "listed"
    /\ fetch[f].of \in Tabs
    /\ Advance(f, "answered", <<>>, Rows(fetch[f].ids))
    /\ UNCHANGED <<storeVars, viewVars, gauge, failures>>

ReadHashes(f) ==
    /\ fetch[f].stage = "listed"
    /\ fetch[f].of \in Tabs
    /\ IF Readable(fetch[f].ids)
         THEN Advance(f, "answered", <<>>, Rows(fetch[f].ids))
         ELSE Advance(f, "failed", <<>>, Unknown)
    /\ UNCHANGED <<storeVars, viewVars, gauge, failures>>

ReadDepthsTwice(f) ==
    /\ fetch[f].of = "overview"
    /\ \/ /\ fetch[f].stage = "sent"
          /\ Advance(f, "listed", <<>>, Len(list["waiting"]))
          /\ UNCHANGED gauge
       \/ /\ fetch[f].stage = "listed"
          /\ Advance(f, "answered", <<>>, fetch[f].reply + Len(list["dead"]))
          /\ gauge' = fetch[f].reply + Len(list["dead"])
    /\ UNCHANGED <<storeVars, viewVars, failures>>

(* One MULTI for all lists; the only place that sets the gauge. *)
ReadDepths(f) ==
    /\ fetch[f].of = "overview"
    /\ fetch[f].stage = "sent"
    /\ Advance(f, "answered", <<>>, Total)
    /\ gauge' = Total
    /\ UNCHANGED <<storeVars, viewVars, failures>>

(* The request or its answer is lost. *)
Lose(f) ==
    /\ fetch[f].stage \in {"sent", "answered"}
    /\ failures < MaxFailures
    /\ failures' = failures + 1
    /\ Advance(f, "failed", <<>>, Unknown)
    /\ UNCHANGED <<storeVars, viewVars, gauge>>

-------------------------------------------------------------------------------
(* The pages. *)

(* fetch_() up to its await. *)
Sent(what) == [Free EXCEPT !.stage = "sent", !.of = what, !.live = TRUE]

(* Another route is mounted, with state of its own; what the old one sent  *)
(* is answered to nobody.                                                  *)
Mount(p, f) ==
    LET Left  == [g \in Slots |-> [fetch[g] EXCEPT !.live = FALSE]]
        polls == CASE p = "overview" -> {"overview"}
                   [] p = "register" -> {"waiting"}
                   [] OTHER          -> {}
    IN  /\ p # page
        /\ fetch[f].stage = "free"
        /\ clicks < MaxClicks
        /\ clicks' = clicks + 1
        /\ page' = p
        /\ tab' = "waiting"
        /\ rows' = <<>>
        /\ stats' = Unknown
        /\ loading' = (p # "landing")
        /\ intervals' = polls
        /\ fetch' = [g \in Slots |-> IF g = f /\ polls # {}
                                       THEN Sent(CHOOSE w \in polls : TRUE) ELSE Left[g]]
        /\ UNCHANGED <<storeVars, gauge, failures>>

SelectTabOnly(t, f) ==
    /\ page = "register"
    /\ t # tab
    /\ fetch[f].stage = "free"
    /\ clicks < MaxClicks
    /\ clicks' = clicks + 1
    /\ tab' = t
    /\ intervals' = intervals \cup {t}
    /\ loading' = TRUE
    /\ fetch' = [fetch EXCEPT ![f] = Sent(t)]
    /\ UNCHANGED <<storeVars, page, rows, stats, gauge, failures>>

(* setFilter: the effect of the old filter is cleaned up, that of the new  *)
(* one fetches at once.  Requests already sent are not cancelled.          *)
SelectTab(t, f) ==
    /\ page = "register"
    /\ t # tab
    /\ fetch[f].stage = "free"
    /\ clicks < MaxClicks
    /\ clicks' = clicks + 1
    /\ tab' = t
    /\ intervals' = (intervals \ {tab}) \cup {t}
    /\ loading' = TRUE
    /\ fetch' = [fetch EXCEPT ![f] = Sent(t)]
    /\ UNCHANGED <<storeVars, page, rows, stats, gauge, failures>>

Tick(what, f) ==
    /\ what \in intervals
    /\ fetch[f].stage = "free"
    /\ fetch' = [fetch EXCEPT ![f] = Sent(what)]
    /\ loading' = (loading \/ what \in Tabs)
    /\ UNCHANGED <<storeVars, page, tab, rows, stats, intervals, clicks, gauge, failures>>

AnswerOnly(f) ==
    /\ fetch[f].stage \in {"answered", "failed"}
    /\ LET ok == fetch[f].live /\ fetch[f].stage = "answered"
       IN  /\ rows' = IF ok /\ fetch[f].of \in Tabs THEN fetch[f].reply ELSE rows
           /\ stats' = IF ok /\ fetch[f].of = "overview" THEN fetch[f].reply ELSE stats
           /\ loading' = (loading /\ ~ok)
    /\ fetch' = [fetch EXCEPT ![f] = Free]
    /\ UNCHANGED <<storeVars, page, tab, intervals, clicks, gauge, failures>>

(* The answer is shown, whatever the tab is by now; finally: setLoading(false). *)
Answer(f) ==
    /\ fetch[f].stage \in {"answered", "failed"}
    /\ LET ok == fetch[f].live /\ fetch[f].stage = "answered"
       IN  /\ rows' = IF ok /\ fetch[f].of \in Tabs THEN fetch[f].reply ELSE rows
           /\ stats' = IF ok /\ fetch[f].of = "overview" THEN fetch[f].reply ELSE stats
           /\ loading' = (loading /\ ~fetch[f].live)
    /\ fetch' = [fetch EXCEPT ![f] = Free]
    /\ UNCHANGED <<storeVars, page, tab, intervals, clicks, gauge, failures>>

(* The retry button of a row that is shown as dead.  It stays enabled: it  *)
(* may be clicked again while its first request is under way.              *)
ClickRetry(j) ==
    /\ page = "register"
    /\ \E i \in DOMAIN rows : rows[i] = [id |-> j, status |-> "dead"]
    /\ clicks < MaxClicks
    /\ clicks' = clicks + 1
    /\ posts' = [posts EXCEPT ![j].sent = @ + 1]
    /\ UNCHANGED <<list, job, moves, totals, page, tab, rows, stats, loading, intervals,
                   netVars>>

-------------------------------------------------------------------------------
Serve(f) == ReadIds(f) \/ ReadHashes(f) \/ ReadDepths(f)

Next ==
    \/ \E j \in Jobs : Arrive(j) \/ Take(j) \/ Bury(j) \/ Evict(j) \/ Remake(j)
                       \/ Check(j) \/ Retry(j) \/ ClickRetry(j)
    \/ \E f \in Slots :
          \/ Serve(f) \/ Lose(f) \/ Answer(f)
          \/ \E p \in Pages : Mount(p, f)
          \/ \E t \in Tabs : SelectTab(t, f)
          \/ \E w \in Tabs \cup {"overview"} : Tick(w, f)

Spec == Init /\ [][Next]_vars

(* The server answers, the browser runs its timers and callbacks. *)
Fairness ==
    /\ \A f \in Slots : WF_vars(Serve(f)) /\ WF_vars(Answer(f))
    /\ \A w \in Tabs \cup {"overview"} : WF_vars(\E f \in Slots : Tick(w, f))
    /\ \A j \in Jobs : WF_vars(Check(j) \/ Retry(j))

FairSpec == Spec /\ Fairness

-------------------------------------------------------------------------------
Listing(t) == Page(list[t])

(* Once nobody changes anything, the page comes to show what is in Redis:  *)
(* no answer to a request of an older tab or an older time stays on the    *)
(* screen (JobsList.tsx 28-40, Dashboard.tsx 23-34).  A listed job without *)
(* data is excepted: GET /jobs then answers 500 (routes.ts 125).           *)
Converges ==
    <>[](/\ page = "register" /\ Readable(Listing(tab)) => rows = Rows(Listing(tab))
         /\ page = "overview" => stats = Total)

(* "Syncing records..." does not stay for ever, also when requests fail.   *)
SpinnerStops == []<>~loading

(* The depth on the overview was the depth of the queue at one moment: no  *)
(* job is counted twice or missed while it moves from one list to another  *)
(* (routes.ts 21-31 reads all lists in one MULTI).                         *)
DepthWasTrue == stats # Unknown => stats \in totals

-------------------------------------------------------------------------------
(* What the repository says and the code does not do. *)

(* "How many jobs are waiting right now?" (DOCUMENTATION.md 335, of        *)
(* distri_queue_depth): the gauge comes to the depth when nothing changes. *)
GaugeFollows == <>[](gauge = Total)
===============================================================================
